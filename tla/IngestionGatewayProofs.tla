------------------------ MODULE IngestionGatewayProofs ------------------------
(* Ingestion implements TelemetryGateway, for every set of requests, sources and  *)
(* keys: each step of the handlers, the Collector, the registry or a crash is one *)
(* step of the gateway or none.  (That open requests are closed is TLC's to show.) *)
EXTENDS IngestionGateway, IngestionProofs

-----------------------------------------------------------------------------
(* What the refinement mapping shows of a request *)

\* A request that has not arrived has shown nothing.
Unseen == \A r \in Requests : pc[r] = "idle" => seen[r] = {} /\ ask[r] = None

GatewayInv == TypeInv /\ Entitled /\ TrailInv /\ Unseen

\* At first nothing was seen.
LEMMA InitUnseen == Init => Unseen
  BY DEF Init, Unseen

\* Nothing is seen of a request before it arrives.
LEMMA UnseenStep ==
  ASSUME GatewayInv, [Next]_vars
  PROVE  Unseen'
<1>1. ASSUME NEW r \in Requests, Receive(r) PROVE Unseen'
  <2>1. pc'[r] # "idle" /\ \A q \in Requests \ {r} : pc'[q] = pc[q] /\ ask'[q] = ask[q] /\ seen'[q] = seen[q]
    BY <1>1 DEF Receive, Reject, Conclude, GoTo, GatewayInv, TypeInv, TypeOK
  <2> QED
    BY <2>1 DEF GatewayInv, Unseen
<1>2. ASSUME NEW r \in Requests, Handle(r) \/ ForwardBreaks(r) \/ CollectorReceives(r) PROVE Unseen'
  <2>1. ask' = ask /\ seen' = seen
    BY <1>2 DEF Handle, LookupCredential, Verify, ResolveRoute, ReadFails, ForwardSucceeds, ForwardRefused,
                ForwardTimesOut, ForwardBreaks, FailForward, CollectorReceives, InsertAudit, AuditFails,
                AuditInsertRejected, Respond, handler
  <2>2. \A q \in Requests : pc'[q] = "idle" => pc[q] = "idle"
    BY <1>2 DEF Handle, LookupCredential, Verify, ResolveRoute, ReadFails, ForwardSucceeds, ForwardRefused,
                ForwardTimesOut, ForwardBreaks, FailForward, CollectorReceives, InsertAudit, AuditFails,
                AuditInsertRejected, Respond, handler, Reject, Conclude, GoTo, GatewayInv, TypeInv, TypeOK
  <2> QED
    BY <2>1, <2>2 DEF GatewayInv, Unseen
<1>3. CASE (\E k \in Keys : TouchCredential(k)) \/ Restart \/ UNCHANGED vars
  BY <1>3 DEF GatewayInv, Unseen, TouchCredential, Restart, vars, handler
<1>4. CASE RegistryChanges
  BY <1>4 DEF GatewayInv, Unseen, RegistryChanges, Observe, handler, Pending
<1>5. CASE Crash
  BY <1>5 DEF GatewayInv, Unseen, Crash, Pending
<1> QED
  BY <1>1, <1>2, <1>3, <1>4, <1>5 DEF Next

-----------------------------------------------------------------------------
(* Initial states *)

\* A first state of the handlers is one of the gateway.
LEMMA InitMaps == Init => Gateway!Init
<1> SUFFICES ASSUME Init PROVE Gateway!Init
  OBVIOUS
<1>1. \A r \in Requests : phaseOf(r) = "new" /\ replyOf(r) = "none"
  BY DEF Init, phaseOf, replyOf
<1>2. \A r \in Requests : ask[r] = None /\ seen[r] = {} /\ wire[r] = "none"
  BY DEF Init
<1> QED
  BY <1>1, <1>2 DEF Gateway!Init

-----------------------------------------------------------------------------
(* Steps *)

\* A step that leaves every request's phase, entitlement and exchange as they show is none.
LEMMA Stutters ==
  ASSUME UNCHANGED registry, UNCHANGED seen, UNCHANGED ask,
         \A r \in Requests : /\ phaseOf(r)' = phaseOf(r) /\ replyOf(r)' = replyOf(r)
                             /\ (wire'[r] = "none") <=> (wire[r] = "none")
                             /\ (wire'[r] = "accepted") <=> (wire[r] = "accepted")
  PROVE  UNCHANGED Gateway!vars
<1>1. {k \in Keys : Authentic(k)}' = {k \in Keys : Authentic(k)}
  BY DEF Authentic, KeyFaults, registry
<1>2. [r \in Requests |-> phaseOf(r)]' = [r \in Requests |-> phaseOf(r)]
  OBVIOUS
<1>3. [r \in Requests |-> replyOf(r)]' = [r \in Requests |-> replyOf(r)]
  OBVIOUS
<1>4. /\ {r \in Requests : wire[r] # "none"}' = {r \in Requests : wire[r] # "none"}
      /\ {r \in Requests : wire[r] = "accepted"}' = {r \in Requests : wire[r] = "accepted"}
  OBVIOUS
<1> QED
  BY <1>1, <1>2, <1>3, <1>4 DEF Gateway!vars

\* A request is shown its reply only at the end, and is open from its arrival until then.
LEMMA Open ==
  \A r \in Requests : pc[r] \in Pending => phaseOf(r) = "open" /\ replyOf(r) = "none"
  BY DEF Pending, phaseOf, replyOf

\* The handler's steps that neither start the forward nor send the reply show nothing.
LEMMA InnerSteps ==
  ASSUME GatewayInv, NEW r \in Requests, pc[r] \in Pending, pc'[r] \in Pending,
         UNCHANGED <<registry, seen, ask>>,
         \A q \in Requests \ {r} : pc'[q] = pc[q] /\ answer'[q] = answer[q],
         \A q \in Requests : /\ (wire'[q] = "none") <=> (wire[q] = "none")
                             /\ (wire'[q] = "accepted") <=> (wire[q] = "accepted")
  PROVE  UNCHANGED Gateway!vars
<1>1. phaseOf(r)' = phaseOf(r) /\ replyOf(r)' = replyOf(r)
  BY DEF phaseOf, replyOf, Pending
<1>2. \A q \in Requests \ {r} : phaseOf(q)' = phaseOf(q) /\ replyOf(q)' = replyOf(q)
  BY DEF phaseOf, replyOf
<1> QED
  BY <1>1, <1>2, Stutters

\* The arrival opens a request, with what its key is good for.
LEMMA ReceiveOpens ==
  ASSUME GatewayInv, NEW r \in Requests, Receive(r)
  PROVE  Gateway!Open(r)
<1>1. PICK a \in Asks : ask' = [ask EXCEPT ![r] = a]
  BY DEF Receive
<1>2. /\ pc[r] = "idle" /\ pc'[r] \in Pending /\ seen' = [seen EXCEPT ![r] = Facts(r)']
      /\ UNCHANGED <<registry, wire>>
      /\ \A q \in Requests \ {r} : pc'[q] = pc[q] /\ answer'[q] = answer[q]
  BY DEF Receive, At, Reject, Conclude, GoTo, forwarded, Pending, GatewayInv, TypeInv, TypeOK
<1>3. ask[r] = None /\ seen[r] = {} /\ a # None /\ ask'[r] = a /\ a.key \in Keys \cup {NoKey}
  <2>1. ask[r] = None /\ seen[r] = {} /\ ask'[r] = a
    BY <1>1, <1>2 DEF GatewayInv, Unseen, TypeInv, TypeOK
  <2>2. a # None /\ a.key \in Keys \cup {NoKey}
    BY RowAssumption DEF Asks
  <2> QED
    BY <2>1, <2>2
<1>4. phaseOf(r) = "new" /\ phaseOf(r)' = "open" /\ replyOf(r) = "none" /\ replyOf(r)' = "none"
  BY <1>2 DEF phaseOf, replyOf, Pending
<1>5. \A q \in Requests \ {r} : phaseOf(q)' = phaseOf(q) /\ replyOf(q)' = replyOf(q) /\ ask'[q] = ask[q]
  BY <1>1, <1>2 DEF phaseOf, replyOf, GatewayInv, TypeInv, TypeOK
<1>6. \A k : Authentic(k)' = Authentic(k)
  BY <1>2 DEF Authentic, KeyFaults, registry
<1>7. ("authentic" \in seen'[r]) <=> (a.key \in {k \in Keys : Authentic(k)})
  <2>1. seen'[r] = Facts(r)'
    BY <1>2 DEF GatewayInv, TypeInv, TypeOK
  <2>2. "authentic" \in Facts(r)' <=> a.key # NoKey /\ Authentic(a.key)
    BY <1>3, <1>6 DEF Facts, KeyFaults
  <2> QED
    BY <1>3, <2>1, <2>2, NullAssumption
<1>8. \A q \in Requests \ {r} : seen'[q] = seen[q]
  BY <1>2 DEF GatewayInv, TypeInv, TypeOK
<1>9. [q \in Requests |-> phaseOf(q)]' = [[q \in Requests |-> phaseOf(q)] EXCEPT ![r] = "open"]
  BY <1>4, <1>5
<1>10. [q \in Requests |-> IF ask[q] = None THEN NoKey ELSE ask[q].key]'
         = [[q \in Requests |-> IF ask[q] = None THEN NoKey ELSE ask[q].key] EXCEPT ![r] = a.key]
  BY <1>3, <1>5
<1>11. {q \in Requests : "authentic" \in seen[q]}'
         = IF a.key \in {k \in Keys : Authentic(k)}
           THEN {q \in Requests : "authentic" \in seen[q]} \cup {r}
           ELSE {q \in Requests : "authentic" \in seen[q]}
  BY <1>3, <1>7, <1>8
<1>12. /\ {k \in Keys : Authentic(k)}' = {k \in Keys : Authentic(k)}
       /\ {q \in Requests : wire[q] # "none"}' = {q \in Requests : wire[q] # "none"}
       /\ {q \in Requests : wire[q] = "accepted"}' = {q \in Requests : wire[q] = "accepted"}
       /\ [q \in Requests |-> replyOf(q)]' = [q \in Requests |-> replyOf(q)]
  BY <1>2, <1>4, <1>5, <1>6
<1> QED
  BY <1>3, <1>4, <1>9, <1>10, <1>11, <1>12 DEF Gateway!Open

\* A forward is started only for a request that was entitled.
LEMMA ResolveRouteMaps ==
  ASSUME GatewayInv, NEW r \in Requests, ResolveRoute(r)
  PROVE  Gateway!PassOn(r) \/ UNCHANGED Gateway!vars
<1>1. /\ pc[r] = "routing" /\ pc'[r] \in {"forward", "audit"} /\ UNCHANGED <<registry, seen, ask>>
      /\ \A q \in Requests \ {r} : pc'[q] = pc[q] /\ answer'[q] = answer[q] /\ wire'[q] = wire[q]
  BY DEF ResolveRoute, At, Reject, Conclude, GoTo, forwarded, GatewayInv, TypeInv, TypeOK
<1>2. wire'[r] = wire[r] \/ wire'[r] = "sent"
  BY DEF ResolveRoute, forwarded, GatewayInv, TypeInv, TypeOK
<1>3. wire[r] = "none" /\ "authentic" \in seen[r]
  BY <1>1 DEF GatewayInv, Entitled, Entitlement
<1>4. /\ phaseOf(r) = "open" /\ phaseOf(r)' = "open" /\ replyOf(r) = "none" /\ replyOf(r)' = "none"
      /\ \A q \in Requests \ {r} : phaseOf(q)' = phaseOf(q) /\ replyOf(q)' = replyOf(q)
  BY <1>1 DEF phaseOf, replyOf
<1>5. CASE wire'[r] = wire[r]
  BY <1>1, <1>5, InnerSteps DEF Pending
<1>6. CASE wire'[r] = "sent"
  <2>1. {q \in Requests : wire[q] # "none"}' = {q \in Requests : wire[q] # "none"} \cup {r}
    BY <1>1, <1>6
  <2>2. {q \in Requests : wire[q] = "accepted"}' = {q \in Requests : wire[q] = "accepted"}
    BY <1>1, <1>3, <1>6
  <2>3. /\ [q \in Requests |-> phaseOf(q)]' = [q \in Requests |-> phaseOf(q)]
        /\ [q \in Requests |-> replyOf(q)]' = [q \in Requests |-> replyOf(q)]
    BY <1>4
  <2>4. {k \in Keys : Authentic(k)}' = {k \in Keys : Authentic(k)}
    BY <1>1 DEF Authentic, KeyFaults, registry
  <2> QED
    BY <1>1, <1>3, <1>4, <2>1, <2>2, <2>3, <2>4 DEF Gateway!PassOn
<1> QED
  BY <1>2, <1>5, <1>6

\* The Collector keeps a batch it was sent.
LEMMA CollectorMaps ==
  ASSUME GatewayInv, NEW r \in Requests, CollectorReceives(r)
  PROVE  Gateway!Keep(r) \/ UNCHANGED Gateway!vars
<1>1. /\ wire[r] = "sent" /\ wire'[r] \in {"accepted", "refused"} /\ UNCHANGED <<registry, seen, ask, pc, answer>>
      /\ \A q \in Requests \ {r} : wire'[q] = wire[q]
  BY DEF CollectorReceives, handler, GatewayInv, TypeInv, TypeOK
<1>2. \A q \in Requests : phaseOf(q)' = phaseOf(q) /\ replyOf(q)' = replyOf(q)
  BY <1>1 DEF phaseOf, replyOf
<1>3. CASE wire'[r] = "refused"
  BY <1>1, <1>2, <1>3, Stutters
<1>4. CASE wire'[r] = "accepted"
  <2>1. {q \in Requests : wire[q] = "accepted"}' = {q \in Requests : wire[q] = "accepted"} \cup {r}
    BY <1>1, <1>4
  <2>2. {q \in Requests : wire[q] # "none"}' = {q \in Requests : wire[q] # "none"}
    BY <1>1, <1>4
  <2>3. /\ [q \in Requests |-> phaseOf(q)]' = [q \in Requests |-> phaseOf(q)]
        /\ [q \in Requests |-> replyOf(q)]' = [q \in Requests |-> replyOf(q)]
    BY <1>2
  <2>4. {k \in Keys : Authentic(k)}' = {k \in Keys : Authentic(k)}
    BY <1>1 DEF Authentic, KeyFaults, registry
  <2> QED
    BY <1>1, <2>1, <2>2, <2>3, <2>4 DEF Gateway!Keep
<1> QED
  BY <1>1, <1>3, <1>4

\* The reply says what became of the batch.
LEMMA RespondMaps ==
  ASSUME GatewayInv, NEW r \in Requests, Respond(r)
  PROVE  Gateway!Reply(r)
<1>1. /\ pc[r] = "reply" /\ pc'[r] = "answered" /\ UNCHANGED <<registry, seen, ask, answer, wire>>
      /\ \A q \in Requests \ {r} : pc'[q] = pc[q]
  BY DEF Respond, At, GoTo, forwarded, GatewayInv, TypeInv, TypeOK
<1>2. Answered(r) /\ answer[r] \in Statuses
  BY <1>1 DEF GatewayInv, TrailInv, Told, Answered
<1>3. /\ phaseOf(r) = "open" /\ phaseOf(r)' = "closed"
      /\ \A q \in Requests \ {r} : phaseOf(q)' = phaseOf(q) /\ replyOf(q)' = replyOf(q)
  BY <1>1 DEF phaseOf, replyOf
<1>4. /\ replyOf(r)' \in {"ok", "refused", "doubt"}
      /\ replyOf(r)' = "ok" => wire[r] = "accepted"
      /\ replyOf(r)' = "refused" => wire[r] = "none"
  <2>1. CASE answer[r] = 202
    BY <1>1, <1>2, <2>1 DEF replyOf, Answered
  <2>2. CASE answer[r] = 502
    BY <1>1, <1>2, <2>2 DEF replyOf
  <2>3. CASE answer[r] \notin {202, 502}
    BY <1>1, <1>2, <2>3 DEF replyOf, Answered
  <2> QED
    BY <2>1, <2>2, <2>3
<1>5. [q \in Requests |-> phaseOf(q)]' = [[q \in Requests |-> phaseOf(q)] EXCEPT ![r] = "closed"]
  BY <1>3
<1>6. PICK x \in {"ok", "refused", "doubt"} : x = replyOf(r)'
  BY <1>4
<1>7. [q \in Requests |-> replyOf(q)]' = [[q \in Requests |-> replyOf(q)] EXCEPT ![r] = x]
  BY <1>3, <1>6
<1>8. {k \in Keys : Authentic(k)}' = {k \in Keys : Authentic(k)}
  BY <1>1 DEF Authentic, KeyFaults, registry
<1>9. /\ x = "ok" => r \in {q \in Requests : wire[q] = "accepted"}
      /\ x = "refused" => r \notin {q \in Requests : wire[q] # "none"}
  BY <1>4, <1>6
<1> QED
  BY <1>1, <1>3, <1>5, <1>6, <1>7, <1>8, <1>9 DEF Gateway!Reply

\* The handler's other steps show nothing to the client.
LEMMA HandleMaps ==
  ASSUME GatewayInv, NEW r \in Requests, Handle(r) \/ ForwardBreaks(r)
  PROVE  Gateway!PassOn(r) \/ Gateway!Reply(r) \/ UNCHANGED Gateway!vars
<1>1. CASE LookupCredential(r) \/ Verify(r) \/ ReadFails(r) \/ ForwardSucceeds(r) \/ ForwardRefused(r)
           \/ ForwardTimesOut(r) \/ ForwardBreaks(r) \/ InsertAudit(r) \/ AuditFails(r)
  <2>1. UNCHANGED <<registry, seen, ask>>
    BY <1>1 DEF LookupCredential, Verify, ReadFails, ForwardSucceeds, ForwardRefused, ForwardTimesOut,
                ForwardBreaks, FailForward, InsertAudit, AuditFails, AuditInsertRejected
  <2>2. pc[r] \in Pending
    BY <1>1 DEF LookupCredential, Verify, ReadFails, ForwardSucceeds, ForwardRefused, ForwardTimesOut,
                ForwardBreaks, FailForward, InsertAudit, AuditFails, AuditInsertRejected, At, Pending
  <2>3. pc'[r] \in Pending /\ \A q \in Requests \ {r} : pc'[q] = pc[q]
    BY <1>1 DEF LookupCredential, Verify, ReadFails, ForwardSucceeds, ForwardRefused, ForwardTimesOut,
                ForwardBreaks, FailForward, InsertAudit, AuditFails, AuditInsertRejected, Reject, Conclude,
                GoTo, Pending, GatewayInv, TypeInv, TypeOK
  <2>4. \A q \in Requests \ {r} : answer'[q] = answer[q]
    BY <1>1 DEF LookupCredential, Verify, ReadFails, ForwardSucceeds, ForwardRefused, ForwardTimesOut,
                ForwardBreaks, FailForward, InsertAudit, AuditFails, AuditInsertRejected, Reject, Conclude,
                GatewayInv, TypeInv, TypeOK
  <2>5. \A q \in Requests : /\ (wire'[q] = "none") <=> (wire[q] = "none")
                            /\ (wire'[q] = "accepted") <=> (wire[q] = "accepted")
    BY <1>1 DEF LookupCredential, Verify, ReadFails, ForwardSucceeds, ForwardRefused, ForwardTimesOut,
                ForwardBreaks, FailForward, InsertAudit, AuditFails, AuditInsertRejected, forwarded,
                GatewayInv, TypeInv, TypeOK
  <2> QED
    BY <2>1, <2>2, <2>3, <2>4, <2>5, InnerSteps
<1> QED
  BY <1>1, ResolveRouteMaps, RespondMaps DEF Handle

\* The registry changes what keys are good for, and so whom it entitles.
LEMMA RegistryMaps ==
  ASSUME GatewayInv, RegistryChanges
  PROVE  Gateway!Registry
<1>1. /\ UNCHANGED <<pc, ask, answer, wire>>
      /\ seen' = [r \in Requests |-> IF pc[r] \in Pending THEN seen[r] \cup Facts(r)' ELSE seen[r]]
  BY DEF RegistryChanges, Observe, handler, forwarded
<1>2. \A r \in Requests : phaseOf(r)' = phaseOf(r) /\ replyOf(r)' = replyOf(r)
  BY <1>1 DEF phaseOf, replyOf
<1>3. \A r \in Requests : phaseOf(r) = "open" <=> pc[r] \in Pending
  BY DEF phaseOf, Pending, Done, GatewayInv, TypeInv, TypeOK
<1>4. ASSUME NEW r \in Requests, pc[r] \in Pending
      PROVE  /\ "authentic" \in Facts(r)' <=> ask[r].key \in {k \in Keys : Authentic(k)}'
             /\ ask[r] # None
  <2>1. ask[r] \in Asks
    BY <1>4 DEF GatewayInv, TypeInv, Stages, Stage, Pending
  <2>2. ask[r] # None /\ ask[r].key \in Keys \cup {NoKey}
    BY <2>1, RowAssumption DEF Asks
  <2>3. "authentic" \in Facts(r)' <=> ask[r].key # NoKey /\ Authentic(ask[r].key)'
    BY <1>1 DEF Facts, KeyFaults, Authentic
  <2>4. ask[r].key \in {k \in Keys : Authentic(k)}' <=> ask[r].key \in Keys /\ Authentic(ask[r].key)'
    BY <1>1 DEF Authentic, KeyFaults
  <2> QED
    BY <2>2, <2>3, <2>4, NullAssumption, Zenon
<1>5. {r \in Requests : "authentic" \in seen[r]}'
        = {r \in Requests : "authentic" \in seen[r]}
            \cup {r \in Requests : /\ phaseOf(r) = "open"
                                   /\ (IF ask[r] = None THEN NoKey ELSE ask[r].key) \in {k \in Keys : Authentic(k)}'}
  BY <1>1, <1>3, <1>4
<1>6. /\ [r \in Requests |-> phaseOf(r)]' = [r \in Requests |-> phaseOf(r)]
      /\ [r \in Requests |-> replyOf(r)]' = [r \in Requests |-> replyOf(r)]
  BY <1>2
<1> QED
  BY <1>1, <1>5, <1>6 DEF Gateway!Registry

\* A crash loses every open request.
LEMMA CrashMaps ==
  ASSUME GatewayInv, Crash
  PROVE  Gateway!Lose
<1>1. /\ UNCHANGED <<registry, ask, answer, wire, seen>>
      /\ pc' = [r \in Requests |-> IF pc[r] \in Pending THEN "lost" ELSE pc[r]]
  BY DEF Crash, forwarded
<1>2. ASSUME NEW r \in Requests
      PROVE  /\ phaseOf(r)' = IF phaseOf(r) = "open" THEN "lost" ELSE phaseOf(r)
             /\ replyOf(r)' = replyOf(r)
  BY <1>1 DEF phaseOf, replyOf, Pending, Done, GatewayInv, TypeInv, TypeOK
<1>3. [r \in Requests |-> phaseOf(r)]'
        = [r \in Requests |-> IF phaseOf(r) = "open" THEN "lost" ELSE phaseOf(r)]
  BY <1>2
<1>4. [r \in Requests |-> replyOf(r)]' = [r \in Requests |-> replyOf(r)]
  BY <1>2
<1>5. {k \in Keys : Authentic(k)}' = {k \in Keys : Authentic(k)}
  BY <1>1 DEF Authentic, KeyFaults, registry
<1> QED
  BY <1>1, <1>3, <1>4, <1>5 DEF Gateway!Lose

\* A touch of last_used_at and a restart are nothing to the gateway.
LEMMA QuietMaps ==
  ASSUME (\E k \in Keys : TouchCredential(k)) \/ Restart \/ UNCHANGED vars
  PROVE  UNCHANGED Gateway!vars
<1>1. UNCHANGED <<registry, ask, answer, wire, seen, pc>>
  BY DEF TouchCredential, Restart, vars, handler, forwarded
<1> QED
  BY <1>1, Stutters DEF phaseOf, replyOf

\* Every step of the handlers is one of the gateway, or a stutter.
LEMMA StepMaps ==
  ASSUME GatewayInv, [Next]_vars
  PROVE  Gateway!Next \/ UNCHANGED Gateway!vars
<1>1. ASSUME NEW r \in Requests, Receive(r) \/ Handle(r) \/ ForwardBreaks(r) \/ CollectorReceives(r)
      PROVE  Gateway!Next \/ UNCHANGED Gateway!vars
  BY <1>1, ReceiveOpens, HandleMaps, CollectorMaps DEF Gateway!Next
<1>2. CASE RegistryChanges \/ Crash
  BY <1>2, RegistryMaps, CrashMaps DEF Gateway!Next
<1>3. CASE (\E k \in Keys : TouchCredential(k)) \/ Restart \/ UNCHANGED vars
  BY <1>3, QuietMaps
<1> QED
  BY <1>1, <1>2, <1>3 DEF Next

\* The refinement.  Whatever the registry, the Collector, the network, crashes and the order of
\* steps do, no behaviour of the handlers leaves what the gateway promises: one reply or
\* none to each request, a batch passed on only for a request that was entitled, a reply
\* that tells what became of it.
THEOREM KeepsThePromiseSafely == Spec => Gateway!Init /\ [][Gateway!Next]_Gateway!vars
<1>1. GatewayInv /\ [Next]_vars => [Gateway!Next]_Gateway!vars
  BY StepMaps
<1>2. GatewayInv /\ [Next]_vars => Unseen'
  BY UnseenStep
<1>3. TypeInv /\ Entitled /\ TrailInv /\ Unseen <=> GatewayInv
  BY DEF GatewayInv
<1> QED
  BY <1>1, <1>2, <1>3, InitMaps, InitUnseen, TypeInvariant, EntitledInvariant, TrailInvariant, PTL DEF Spec

===============================================================================
