------------------------------- MODULE Redaction -------------------------------
(***************************************************************************)
(* Redaction of the metadata of an audit event, and the row written of it. *)
(* Metadata is a graph in memory: a node is an object (its keys lead to    *)
(* leaves and nodes) or an array (the one item kept stands for any), and   *)
(* may be reached twice or contain itself.  A key is a sequence of         *)
(* fragments and separators; case is abstracted.                           *)
(***************************************************************************)
EXTENDS Naturals, FiniteSets, SequencesExt

CONSTANTS Nodes,          \* the objects and arrays in memory
          Root,           \* the one given as metadata
          Keys,           \* keys an object may have
          SensitiveWords, \* DEFAULT_SENSITIVE_KEYS, normalised
          Separators,     \* white space, "_" and "-"
          MaxDepth,       \* MAX_REDACTION_DEPTH
          None            \* no metadata

ASSUME RootAssumption  == IsFiniteSet(Nodes) /\ Root \in Nodes /\ None \notin Nodes
ASSUME KeyAssumption   == \A k \in Keys : k \in Seq(STRING) /\ k # <<>>
ASSUME WordAssumption  == \A w \in SensitiveWords : /\ w \in Seq(STRING) /\ w # <<>>
                                                    /\ \A i \in 1..Len(w) : w[i] \notin Separators
ASSUME DepthAssumption == MaxDepth \in Nat

VARIABLES
  heap,      \* what each node holds
  metadata,  \* the metadata of the event
  rows,      \* the metadata column of the audit_events rows written
  rejected,  \* history: the insert was rejected
  done

vars == <<heap, metadata, rows, rejected, done>>

\* Values: a string, number, boolean or null; "[REDACTED]"; a node; a copy of one.
Leaf     == [kind |-> "leaf"]
Redacted == [kind |-> "redacted"]
Ref(n)   == [kind |-> "node", node |-> n]
Copy(f)  == [kind |-> "copy", fields |-> f]

Item    == <<>>                   \* where an array's item is; no key is empty
Targets == {Ref(n) : n \in Nodes} \cup {Leaf}
Objects == UNION {[K -> Targets] : K \in SUBSET Keys}
Arrays  == [{Item} -> Targets]

Init ==
  /\ heap \in [Nodes -> Objects \cup Arrays]
  /\ heap[Root] \in Objects
  /\ metadata \in {None, Root}
  /\ rows = <<>> /\ rejected = FALSE /\ done = FALSE

normalizeKey(key) ==
  LET kept[i \in 0..Len(key)] ==
        IF i = 0 THEN <<>>
        ELSE IF key[i] \in Separators THEN kept[i - 1]
        ELSE Append(kept[i - 1], key[i])
  IN kept[Len(key)]

isSensitiveKey(key) == \E word \in SensitiveWords : word \in SubSeqs(normalizeKey(key))

\* Mutant: the depth limit is reached one level early.
DeepEarly(depth) == depth >= MaxDepth

TooDeep(depth) == depth > MaxDepth

\* Mutant: a key masks plain values only, objects and arrays are descended into.
LeavesOnly(n, k, copy) ==
  IF DOMAIN heap[n] # {Item} /\ isSensitiveKey(k) /\ heap[n][k] = Leaf THEN Redacted ELSE copy

Entry(n, k, copy) ==
  IF DOMAIN heap[n] # {Item} /\ isSensitiveKey(k) THEN Redacted ELSE copy

\* redactObject: a copy down to the depth limit, whose ends are the nodes themselves
redactObject[depth \in 0..(MaxDepth + 1)] ==
  [v \in Targets |->
     IF TooDeep(depth) \/ v = Leaf THEN v
     ELSE Copy([k \in DOMAIN heap[v.node] |->
                  Entry(v.node, k, redactObject[depth + 1][heap[v.node][k]])])]

-----------------------------------------------------------------------------
(* JSON.stringify: it visits a value level by level, each value by its path, *)
(* and throws on what contains itself.                                       *)

IsBranch(t) == t.kind \in {"node", "copy"}
Fields(t)   == IF t.kind = "node" THEN heap[t.node] ELSE t.fields

\* Nested deeper than the copy and all the nodes below one another: a cycle.
Deepest == MaxDepth + 1 + Cardinality(Nodes)

Below(level) ==
  UNION {{<<Append(e[1], k), Fields(e[2])[k]>> : k \in DOMAIN Fields(e[2])} :
           e \in {e \in level : IsBranch(e[2])}}

Visit(t) ==
  LET level[n \in 0..Deepest] == IF n = 0 THEN {<<(<<>>), t>>} ELSE Below(level[n - 1])
  IN level

Cyclic(t) == \E e \in Visit(t)[Deepest] : IsBranch(e[2])

\* What the text shows of a value: that it is an object or array and with which keys.
Shown(t) == IF IsBranch(t) THEN <<"branch", DOMAIN Fields(t)>> ELSE <<t.kind, {}>>

Everything(t) == UNION {Visit(t)[n] : n \in 0..Deepest}
Stringify(t)  == {<<e[1], Shown(e[2])>> : e \in Everything(t)}

\* recordAuditEvent: no metadata is written as {}, and whatever is thrown is only logged.
recordAuditEvent ==
  /\ ~done /\ done' = TRUE
  /\ LET copy == IF metadata = None THEN Copy(<<>>) ELSE redactObject[0][Ref(metadata)]
     IN \/ /\ ~Cyclic(copy)
           /\ rows' = Append(rows, Stringify(copy)) /\ UNCHANGED rejected
        \/ /\ ~Cyclic(copy)
           /\ rejected' = TRUE /\ UNCHANGED rows
        \/ /\ Cyclic(copy)
           /\ UNCHANGED <<rows, rejected>>
  /\ UNCHANGED <<heap, metadata>>

Next == recordAuditEvent

Spec == Init /\ [][Next]_vars

-----------------------------------------------------------------------------
(* Properties.  The reference speaks of paths in the metadata, where the code *)
(* copies level by level.                                                     *)

\* A key spells a word if the word's characters follow one another in it with nothing but
\* separators in between.
Spells(key, word) ==
  \E place \in [1..Len(word) -> 1..Len(key)] :
    /\ \A i \in 1..Len(word) : key[place[i]] = word[i]
    /\ \A i \in 1..(Len(word) - 1) :
         /\ place[i] < place[i + 1]
         /\ \A m \in (place[i] + 1)..(place[i + 1] - 1) : key[m] \in Separators

Masks(path) ==
  \E i \in 1..Len(path) : i <= MaxDepth + 1 /\ \E word \in SensitiveWords : Spells(path[i], word)

\* The values in the metadata that no key masks the way to.
Reached == {e \in Everything(Ref(Root)) : ~Masks(Front(e[1]))}

\* A row holds all of the metadata, each value at its place, with exactly what lies under
\* a sensitive key masked, however the key is spelled, through arrays and through nodes
\* that are shared or contain themselves, down to the depth limit.  Below it sensitive values
\* are written as they are, although redaction-policy.service.ts:42 says "Safe for arbitrary
\* nested objects/arrays", data-model.md:247 "Metadata must not contain raw telemetry payloads
\* or secrets" and README.md:417 that they are redacted from anything Ophir stores.  The
\* metadata that the callers of today build is flat.
RowIsRedactedCopy ==
  metadata = Root =>
    \A i \in 1..Len(rows) :
      rows[i] = {<<e[1], IF Masks(e[1]) THEN <<"redacted", {}>> ELSE Shown(e[2])>> : e \in Reached}
===============================================================================
