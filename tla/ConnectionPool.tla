----------------------------- MODULE ConnectionPool -----------------------------
(***************************************************************************)
(* The one pool of PostgreSQL connections of a process (db/client.ts over  *)
(* the Pool of pg): a statement takes a connection if one is left, or      *)
(* waits in line, without a time limit.  A pool that is being ended takes  *)
(* no statement and serves none that waits.                                *)
(***************************************************************************)
EXTENDS Naturals, FiniteSets, Sequences

CONSTANTS Statements,
          MaxConnections   \* DATABASE_POOL_MAX

ASSUME MaxAssumption == MaxConnections \in Nat \ {0}

VARIABLES
  running,   \* the statements that hold a connection
  waiting,   \* those in line for one
  outcome,   \* what the issuer of each has learnt of it
  pool       \* is pool.end() called, and resolved

poolVars == <<running, waiting, outcome, pool>>

PoolInit ==
  /\ running = {} /\ waiting = <<>>
  /\ outcome = [s \in Statements |-> "none"]
  /\ pool = "open"

HasRoom == Cardinality(running) < MaxConnections

\* pool.query(): the statement is in line, in order, before the caller goes on.
Query(s) ==
  /\ outcome' = [outcome EXCEPT ![s] = IF pool = "open" THEN "asked" ELSE "rejected"]
  /\ running' = IF pool = "open" /\ HasRoom THEN running \cup {s} ELSE running
  /\ waiting' = IF pool = "open" /\ ~HasRoom THEN Append(waiting, s) ELSE waiting
  /\ UNCHANGED pool

\* Mutant: a connection that is given back wakes no one.
FreedOnly(s) == running' = running \ {s} /\ UNCHANGED waiting

HandOver(s) ==
  IF pool = "open" /\ waiting # <<>>
  THEN running' = (running \ {s}) \cup {Head(waiting)} /\ waiting' = Tail(waiting)
  ELSE running' = running \ {s} /\ UNCHANGED waiting

\* PostgreSQL answers, or the connection breaks; whether the issuer still cares or not,
\* only now is the connection free for another.
Settle(s) ==
  /\ s \in running
  /\ \E how \in {"done", "rejected"} : outcome' = [outcome EXCEPT ![s] = how]
  /\ HandOver(s)
  /\ UNCHANGED pool

\* Mutant: the end is waited for by those in line too, whom nobody serves any more.
LineEmpty == running = {} /\ waiting = <<>>

\* Mutant: the end is not waited for.
NotWaitedFor == TRUE

\* What pool.end() waits for
Idle == running = {}

PoolTypeOK ==
  /\ running \subseteq Statements
  /\ waiting \in Seq(Statements)
  /\ outcome \in [Statements -> {"none", "asked", "done", "rejected"}]
  /\ pool \in {"open", "ending"}

\* No connection too many is taken, and none is idle while a statement waits; a statement
\* waits or runs at most once, and until then its issuer has learnt nothing.
PoolCoherent ==
  /\ Cardinality(running) <= MaxConnections
  /\ pool = "open" /\ waiting # <<>> => ~HasRoom
  /\ \A i, j \in 1..Len(waiting) : waiting[i] = waiting[j] => i = j
  /\ \A s \in Statements :
       outcome[s] = "asked" <=> s \in running \/ \E i \in 1..Len(waiting) : waiting[i] = s
===============================================================================
