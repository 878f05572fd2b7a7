---------------------------- MODULE RedactionProofs ----------------------------
(* Theorems about Redaction, for every graph of any finite size, any keys, any words *)
(* and any depth limit. *)
EXTENDS Redaction, FiniteSetTheorems, SequenceTheorems, WellFoundedInduction, TLAPS

-----------------------------------------------------------------------------
(* Induction.  The least number principle, from the well-foundedness of <, in a  *)
(* form that names sets rather than predicates.                                  *)

\* A relation that is well founded and contains < has a least number in each set.
LEMMA LeastUnder ==
  ASSUME NEW R, IsWellFoundedOn(R, Nat), NEW T, T \subseteq Nat, T # {}
  PROVE  (\A x, y \in Nat : x < y => <<x, y>> \in R) => \E x \in T : \A y \in T : x <= y
<1>1. PICK x \in T : \A y \in T : ~(<<y, x>> \in R)
  BY WFMin
<1>2. HAVE \A a, b \in Nat : a < b => <<a, b>> \in R
<1>3. \A y \in T : ~(y < x)
  BY <1>1, <1>2, Zenon
<1>4. \A y \in T : x <= y
  <2> TAKE y \in T
  <2>1. ~(y < x) /\ y \in Nat /\ x \in Nat
    BY <1>3
  <2> QED
    BY <2>1
<1> QED
  BY <1>4

\* Every set of naturals that is not empty has a least member.
LEMMA LeastMember ==
  ASSUME NEW T, T \subseteq Nat, T # {}
  PROVE  \E x \in T : \A y \in T : x <= y
<1>1. IsWellFoundedOn(OpToRel(<, Nat), Nat)
  BY NatLessThanWellFounded
<1>2. \A x, y \in Nat : x < y => <<x, y>> \in OpToRel(<, Nat)
  BY DEF OpToRel
<1> QED
  BY <1>1, <1>2, LeastUnder, Zenon

\* A set that has 0 and the successor of each member up to a bound has all up to the bound.
LEMMA InductionTo ==
  ASSUME NEW N \in Nat, NEW S, 0 \in S, \A n \in 0..(N - 1) : n \in S => n + 1 \in S
  PROVE  \A n \in 0..N : n \in S
<1> SUFFICES ASSUME 0..N \ S # {} PROVE FALSE
  OBVIOUS
<1> DEFINE T == 0..N \ S
<1>1. PICK m \in T : \A k \in T : m <= k
  <2>1. T \subseteq Nat /\ T # {}
    OBVIOUS
  <2> HIDE DEF T
  <2> QED
    BY <2>1, LeastMember, Zenon
<1>2. m - 1 \in 0..(N - 1)
  BY <1>1
<1>3. m - 1 \in S
  BY <1>1, <1>2
<1> QED
  BY <1>1, <1>2, <1>3

-----------------------------------------------------------------------------
(* What JSON.stringify visits *)

\* There are finitely many levels to look at.
LEMMA DeepestIsNat == Deepest \in Nat /\ Deepest > MaxDepth /\ Deepest > Cardinality(Nodes)
<1>1. Cardinality(Nodes) \in Nat
  BY RootAssumption, FS_CardinalityType
<1>2. Cardinality(Nodes) # 0
  BY RootAssumption, FS_EmptySet
<1> QED
  BY <1>1, <1>2, DepthAssumption DEF Deepest

\* The levels of a value down to any depth exist.
LEMMA LevelsExist ==
  ASSUME NEW t
  PROVE  \E g : g = [n \in 0..Deepest |-> IF n = 0 THEN {<<(<<>>), t>>} ELSE Below(g[n - 1])]
<1> DEFINE Levels(g, m) ==
             g = [n \in 0..m |-> IF n = 0 THEN {<<(<<>>), t>>} ELSE Below(g[n - 1])]
           S == {m \in 0..Deepest : \E g : Levels(g, m)}
<1>1. 0 \in S
  <2> DEFINE g == [n \in 0..0 |-> {<<(<<>>), t>>}]
  <2>1. Levels(g, 0)
    OBVIOUS
  <2>2. 0 \in 0..Deepest
    BY DeepestIsNat
  <2> HIDE DEF g, Levels
  <2> QED
    BY <2>1, <2>2
<1>2. ASSUME NEW m \in 0..(Deepest - 1), m \in S
      PROVE  m + 1 \in S
  <2>1. PICK g : Levels(g, m)
    BY <1>2
  <2> DEFINE h == [n \in 0..(m + 1) |-> IF n = 0 THEN {<<(<<>>), t>>} ELSE Below(g[n - 1])]
  <2>2. \A n \in 0..m : h[n] = g[n]
    <3> DEFINE G == [n \in 0..m |-> IF n = 0 THEN {<<(<<>>), t>>} ELSE Below(g[n - 1])]
    <3>1. g = G
      BY <2>1, Zenon
    <3>2. \A n \in 0..m : h[n] = G[n]
      BY DeepestIsNat
    <3> HIDE DEF G, h
    <3> QED
      BY <3>1, <3>2, Zenon
  <2>3. Levels(h, m + 1)
    <3>1. \A n \in 0..(m + 1) : n # 0 => h[n - 1] = g[n - 1]
      <4>1. \A n \in 0..(m + 1) : n # 0 => n - 1 \in 0..m
        BY DeepestIsNat
      <4> HIDE DEF h
      <4> QED
        BY <2>2, <4>1, Zenon
    <3> DEFINE H == [n \in 0..(m + 1) |-> IF n = 0 THEN {<<(<<>>), t>>} ELSE Below(h[n - 1])]
    <3>2. ASSUME NEW n \in 0..(m + 1)
          PROVE  (IF n = 0 THEN {<<(<<>>), t>>} ELSE Below(g[n - 1]))
                   = IF n = 0 THEN {<<(<<>>), t>>} ELSE Below(h[n - 1])
      <4> HIDE DEF h
      <4> QED
        BY <3>1, Zenon
    <3>3. h = H
      BY <3>2, Zenon
    <3> HIDE DEF h
    <3> QED
      BY <3>3, Zenon
  <2>4. m + 1 \in 0..Deepest
    BY DeepestIsNat
  <2> HIDE DEF h, Levels
  <2> QED
    BY <2>3, <2>4
<1> HIDE DEF S
<1>3. \A n \in 0..Deepest : n \in S
  BY <1>1, <1>2, DeepestIsNat, InductionTo
<1>4. Deepest \in S
  BY <1>3, DeepestIsNat
<1> QED
  BY <1>4 DEF S

\* So the levels a value is visited by are those of its definition.
LEMMA VisitLevels ==
  ASSUME NEW t
  PROVE  /\ Visit(t)[0] = {<<(<<>>), t>>}
         /\ \A n \in 1..Deepest : Visit(t)[n] = Below(Visit(t)[n - 1])
<1>1. Visit(t) = [n \in 0..Deepest |->
                    IF n = 0 THEN {<<(<<>>), t>>} ELSE Below(Visit(t)[n - 1])]
  BY LevelsExist DEF Visit
<1> DEFINE V == Visit(t)
           G == [n \in 0..Deepest |-> IF n = 0 THEN {<<(<<>>), t>>} ELSE Below(V[n - 1])]
<1>2. V = G
  BY <1>1, Zenon
<1> HIDE DEF V
<1>3. G[0] = {<<(<<>>), t>>} /\ \A n \in 1..Deepest : G[n] = Below(V[n - 1])
  BY DeepestIsNat
<1> HIDE DEF G
<1>4. V[0] = {<<(<<>>), t>>} /\ \A n \in 1..Deepest : V[n] = Below(V[n - 1])
  BY <1>2, <1>3, Zenon
<1> QED
  BY <1>4 DEF V

-----------------------------------------------------------------------------
(* What redactObject returns *)

HeapOK == heap \in [Nodes -> Objects \cup Arrays]

\* Where a node may lead, by a key or as the item of an array.
Steps == Keys \cup {Item}

\* What a node holds are values, each by a key, or by the place of an array's item.
LEMMA NodesHoldTargets ==
  ASSUME HeapOK, NEW n \in Nodes
  PROVE  DOMAIN heap[n] \subseteq Steps /\ \A k \in DOMAIN heap[n] : heap[n][k] \in Targets
<1>1. heap[n] \in Objects \cup Arrays
  BY DEF HeapOK
<1>2. CASE heap[n] \in Arrays
  BY <1>2 DEF Arrays, Steps
<1>3. CASE heap[n] \in Objects
  <2>1. PICK K \in SUBSET Keys : heap[n] \in [K -> Targets]
    BY <1>3 DEF Objects
  <2> QED
    BY <2>1 DEF Steps
<1> QED
  BY <1>1, <1>2, <1>3

\* A value is a leaf or refers to a node, never both.
LEMMA TargetKinds ==
  /\ Leaf \in Targets /\ ~IsBranch(Leaf) /\ Leaf.kind = "leaf"
  /\ \A v \in Targets : v # Leaf =>
       IsBranch(v) /\ v.kind = "node" /\ v.node \in Nodes /\ v = Ref(v.node)
BY DEF Targets, Leaf, Ref, IsBranch

\* The body of redactObject, of what the next level returns.
Body(next, depth) ==
  [v \in Targets |->
     IF TooDeep(depth) \/ v = Leaf THEN v
     ELSE Copy([k \in DOMAIN heap[v.node] |-> Entry(v.node, k, next[heap[v.node][k]])])]

\* Beyond the depth limit nothing depends on the next level.
LEMMA LastBody ==
  ASSUME NEW f, NEW g, NEW depth, depth = MaxDepth + 1
  PROVE  Body(f, depth) = Body(g, depth)
<1>1. TooDeep(depth)
  BY DepthAssumption DEF TooDeep
<1> QED
  BY <1>1 DEF Body

\* So a function that is its own body at every depth exists: one is found from the depth
\* limit upwards.
LEMMA RedactionExists ==
  \E g : g = [depth \in 0..(MaxDepth + 1) |-> Body(g[depth + 1], depth)]
<1> DEFINE N == MaxDepth + 1
           Step(g) == [depth \in 0..N |-> Body(g[depth + 1], depth)]
           Fixed(m, g) == \A depth \in (N - m)..N : Step(g)[depth] = g[depth]
           S == {m \in 0..N : \E g : Fixed(m, g)}
<1> N \in Nat
  BY DepthAssumption
<1>0. \A g : \A depth \in 0..N : Step(g)[depth] = Body(g[depth + 1], depth)
  OBVIOUS
<1>1. 0 \in S
  <2> DEFINE g == [depth \in 0..N |-> Body({}, depth)]
  <2>1. Step(g)[N] = g[N]
    <3>1. Body(g[N + 1], N) = Body({}, N)
      BY LastBody
    <3>2. Step(g)[N] = Body(g[N + 1], N) /\ g[N] = Body({}, N)
      OBVIOUS
    <3> HIDE DEF g, Step
    <3> QED
      BY <3>1, <3>2
  <2> HIDE DEF g, Step
  <2> QED
    BY <2>1
<1>2. ASSUME NEW m \in 0..(N - 1), m \in S
      PROVE  m + 1 \in S
  <2>1. PICK g : Fixed(m, g)
    BY <1>2
  <2> DEFINE h == Step(g)
  <2>2. ASSUME NEW depth \in (N - (m + 1))..N
        PROVE  Step(h)[depth] = h[depth]
    <3>1. Step(h)[depth] = Body(h[depth + 1], depth) /\ h[depth] = Body(g[depth + 1], depth)
      <4> HIDE DEF Step
      <4> QED
        BY <1>0
    <3>2. CASE depth = N
      <4>1. Body(h[depth + 1], depth) = Body(g[depth + 1], depth)
        BY <3>2, LastBody, Zenon
      <4> QED
        BY <3>1, <4>1, Zenon
    <3>3. CASE depth # N
      <4>1. depth + 1 \in (N - m)..N
        BY <3>3
      <4>2. h[depth + 1] = g[depth + 1]
        BY <2>1, <4>1, Zenon
      <4> QED
        BY <3>1, <4>2, Zenon
    <3> QED
      BY <3>2, <3>3
  <2>3. m + 1 \in 0..N
    OBVIOUS
  <2>4. Fixed(m + 1, h)
    BY <2>2, Zenon
  <2> HIDE DEF h, Fixed
  <2> QED
    BY <2>3, <2>4
<1>3. N \in S
  <2>1. \A n \in 0..N : n \in S
    <3> HIDE DEF S, N
    <3> QED
      BY <1>1, <1>2, InductionTo
  <2> HIDE DEF S
  <2> QED
    BY <2>1
<1>4. PICK g : Fixed(N, g)
  <2> HIDE DEF Fixed
  <2> QED
    BY <1>3
<1> DEFINE h == Step(g)
<1>5. \A depth \in 0..N : h[depth] = g[depth]
  <2> TAKE depth \in 0..N
  <2>1. depth \in (N - N)..N
    OBVIOUS
  <2> QED
    BY <1>4, <2>1, Zenon
<1>6. \A depth \in 0..N : Body(g[depth + 1], depth) = Body(h[depth + 1], depth)
  <2> TAKE depth \in 0..N
  <2>1. CASE depth = N
    BY <2>1, LastBody, Zenon
  <2>2. CASE depth # N
    <3>1. depth + 1 \in 0..N
      BY <2>2
    <3>2. h[depth + 1] = g[depth + 1]
      BY <1>5, <3>1, Zenon
    <3> QED
      BY <3>2, Zenon
  <2> QED
    BY <2>1, <2>2
<1>7. h = Step(h)
  BY <1>6, Zenon
<1> HIDE DEF h
<1> QED
  BY <1>7, Zenon

\* So redactObject is the function its definition says.
LEMMA RedactObjectIs ==
  ASSUME NEW depth \in 0..(MaxDepth + 1)
  PROVE  redactObject[depth] = Body(redactObject[depth + 1], depth)
<1> DEFINE f == redactObject
           F == [d \in 0..(MaxDepth + 1) |-> Body(f[d + 1], d)]
<1>1. f = F
  BY RedactionExists DEF redactObject, Body
<1> HIDE DEF f
<1>2. F[depth] = Body(f[depth + 1], depth)
  OBVIOUS
<1> HIDE DEF F
<1>3. f[depth] = Body(f[depth + 1], depth)
  BY <1>1, <1>2, Zenon
<1> QED
  BY <1>3 DEF f

-----------------------------------------------------------------------------
(* Which keys are sensitive *)

\* What a character adds to the characters kept before it.
Kept(s, c) == IF c \in Separators THEN s ELSE Append(s, c)

\* The characters kept of each beginning of a key exist.
LEMMA KeptExists ==
  ASSUME NEW key, NEW N \in Nat
  PROVE  \E g : g = [i \in 0..N |-> IF i = 0 THEN <<>> ELSE Kept(g[i - 1], key[i])]
<1> DEFINE Keeps(g, m) == g = [i \in 0..m |-> IF i = 0 THEN <<>> ELSE Kept(g[i - 1], key[i])]
           S == {m \in 0..N : \E g : Keeps(g, m)}
<1>1. 0 \in S
  <2> DEFINE g == [i \in 0..0 |-> <<>>]
  <2>1. Keeps(g, 0)
    OBVIOUS
  <2> HIDE DEF g, Keeps
  <2> QED
    BY <2>1
<1>2. ASSUME NEW m \in 0..(N - 1), m \in S
      PROVE  m + 1 \in S
  <2>1. PICK g : Keeps(g, m)
    BY <1>2
  <2> DEFINE h == [i \in 0..(m + 1) |-> IF i = 0 THEN <<>> ELSE Kept(g[i - 1], key[i])]
  <2>2. \A i \in 0..m : h[i] = g[i]
    <3> DEFINE G == [i \in 0..m |-> IF i = 0 THEN <<>> ELSE Kept(g[i - 1], key[i])]
    <3>1. g = G
      BY <2>1, Zenon
    <3>2. \A i \in 0..m : h[i] = G[i]
      OBVIOUS
    <3> HIDE DEF G, h
    <3> QED
      BY <3>1, <3>2, Zenon
  <2>3. \A i \in 0..(m + 1) : i # 0 => h[i - 1] = g[i - 1]
    <3>1. \A i \in 0..(m + 1) : i # 0 => i - 1 \in 0..m
      OBVIOUS
    <3> HIDE DEF h
    <3> QED
      BY <2>2, <3>1, Zenon
  <2>4. Keeps(h, m + 1)
    <3> DEFINE H == [i \in 0..(m + 1) |-> IF i = 0 THEN <<>> ELSE Kept(h[i - 1], key[i])]
    <3>1. ASSUME NEW i \in 0..(m + 1)
          PROVE  (IF i = 0 THEN <<>> ELSE Kept(g[i - 1], key[i]))
                   = IF i = 0 THEN <<>> ELSE Kept(h[i - 1], key[i])
      <4> HIDE DEF h
      <4> QED
        BY <2>3, Zenon
    <3>2. h = H
      BY <3>1, Zenon
    <3> HIDE DEF h
    <3> QED
      BY <3>2, Zenon
  <2>5. m + 1 \in 0..N
    OBVIOUS
  <2> HIDE DEF h, Keeps
  <2> QED
    BY <2>4, <2>5
<1> HIDE DEF S
<1>3. \A m \in 0..N : m \in S
  BY <1>1, <1>2, InductionTo
<1> QED
  BY <1>3 DEF S

\* So a normalised key is what is kept, character by character.
LEMMA NormalizedBySteps ==
  ASSUME NEW key \in Seq(STRING)
  PROVE  \E kept : /\ kept[0] = <<>>
                   /\ \A i \in 1..Len(key) : kept[i] = Kept(kept[i - 1], key[i])
                   /\ normalizeKey(key) = kept[Len(key)]
<1> DEFINE Fix(g) == g = [i \in 0..Len(key) |-> IF i = 0 THEN <<>> ELSE Kept(g[i - 1], key[i])]
           kept == CHOOSE g : Fix(g)
<1>1. Fix(kept)
  <2>1. \E g : Fix(g)
    BY KeptExists
  <2> HIDE DEF Fix
  <2> QED
    BY <2>1, Zenon
<1>2. normalizeKey(key) = kept[Len(key)]
  BY DEF normalizeKey, Kept
<1> HIDE DEF kept
<1> DEFINE G == [i \in 0..Len(key) |-> IF i = 0 THEN <<>> ELSE Kept(kept[i - 1], key[i])]
<1>3. kept = G
  BY <1>1, Zenon
<1>4. G[0] = <<>> /\ \A i \in 1..Len(key) : G[i] = Kept(kept[i - 1], key[i])
  OBVIOUS
<1> HIDE DEF G
<1>5. kept[0] = <<>> /\ \A i \in 1..Len(key) : kept[i] = Kept(kept[i - 1], key[i])
  BY <1>3, <1>4, Zenon
<1> QED
  BY <1>2, <1>5

\* Where the characters kept of the first n of a key come from: their places increase, and
\* what is between them are separators.
Places(key, n, s, at) ==
  /\ s \in Seq(STRING) /\ at \in [1..Len(s) -> 1..n]
  /\ \A i \in 1..Len(s) : key[at[i]] = s[i] /\ key[at[i]] \notin Separators
  /\ \A i, j \in 1..Len(s) : i < j => at[i] < at[j]
  /\ \A m \in 1..n : key[m] \notin Separators => \E i \in 1..Len(s) : at[i] = m

\* One character more.
LEMMA OneMorePlace ==
  ASSUME NEW key \in Seq(STRING), NEW n \in 0..(Len(key) - 1), NEW s, NEW at, Places(key, n, s, at)
  PROVE  \E b : Places(key, n + 1, Kept(s, key[n + 1]), b)
<1>1. key[n + 1] \in STRING
  OBVIOUS
<1>2. CASE key[n + 1] \in Separators
  <2>1. Places(key, n + 1, s, at)
    <3>1. \A m \in 1..(n + 1) : m \in 1..n \/ m = n + 1
      OBVIOUS
    <3>2. \A m \in 1..(n + 1) : key[m] \notin Separators => \E i \in 1..Len(s) : at[i] = m
      BY <1>2, <3>1 DEF Places
    <3>3. s \in Seq(STRING) /\ at \in [1..Len(s) -> 1..n] /\ Len(s) \in Nat
      BY DEF Places
    <3>4. at \in [1..Len(s) -> 1..(n + 1)]
      BY <3>3
    <3> QED
      BY <3>2, <3>3, <3>4 DEF Places
  <2> QED
    BY <1>2, <2>1 DEF Kept
<1>3. CASE key[n + 1] \notin Separators
  <2> DEFINE t == Append(s, key[n + 1])
             b == [i \in 1..(Len(s) + 1) |-> IF i <= Len(s) THEN at[i] ELSE n + 1]
  <2>1. /\ t \in Seq(STRING) /\ Len(t) = Len(s) + 1 /\ t[Len(s) + 1] = key[n + 1]
        /\ \A i \in 1..Len(s) : t[i] = s[i]
    <3>1. s \in Seq(STRING)
      BY DEF Places
    <3> QED
      BY <1>1, <3>1, AppendProperties
  <2>2. /\ Len(s) \in Nat /\ b \in [1..(Len(s) + 1) -> 1..(n + 1)] /\ b[Len(s) + 1] = n + 1
        /\ \A i \in 1..Len(s) : b[i] = at[i] /\ at[i] \in 1..n
    <3>1. Len(s) \in Nat /\ at \in [1..Len(s) -> 1..n] /\ n \in Nat
      BY DEF Places
    <3>2. /\ DOMAIN b = 1..(Len(s) + 1) /\ b[Len(s) + 1] = n + 1
          /\ \A i \in 1..Len(s) : b[i] = at[i] /\ at[i] \in 1..n
      BY <3>1
    <3>3. \A i \in 1..(Len(s) + 1) : b[i] \in 1..(n + 1)
      BY <3>1
    <3> QED
      BY <3>1, <3>2, <3>3
  <2> HIDE DEF t, b
  <2>3. Places(key, n + 1, t, b)
    <3>1. t \in Seq(STRING) /\ b \in [1..Len(t) -> 1..(n + 1)]
      BY <2>1, <2>2
    <3>2. \A i \in 1..Len(t) : key[b[i]] = t[i] /\ key[b[i]] \notin Separators
      <4> TAKE i \in 1..Len(t)
      <4>1. CASE i \in 1..Len(s)
        BY <2>1, <2>2, <4>1 DEF Places
      <4>2. CASE i = Len(s) + 1
        BY <1>3, <2>1, <2>2, <4>2
      <4> QED
        BY <2>1, <2>2, <4>1, <4>2
    <3>3. \A i, j \in 1..Len(t) : i < j => b[i] < b[j]
      <4> SUFFICES ASSUME NEW i \in 1..Len(t), NEW j \in 1..Len(t), i < j
                   PROVE  b[i] < b[j]
        OBVIOUS
      <4>1. i \in 1..Len(s)
        BY <2>1, <2>2
      <4>2. CASE j \in 1..Len(s)
        <5>1. at[i] < at[j]
          BY <4>1, <4>2 DEF Places
        <5> QED
          BY <2>2, <4>1, <4>2, <5>1
      <4>3. CASE j = Len(s) + 1
        BY <2>2, <4>1, <4>3
      <4>4. j \in 1..Len(s) \/ j = Len(s) + 1
        <5>1. Len(t) = Len(s) + 1 /\ Len(s) \in Nat
          BY <2>1, <2>2
        <5> QED
          BY <5>1
      <4> QED
        BY <4>2, <4>3, <4>4
    <3>4. \A m \in 1..(n + 1) : key[m] \notin Separators => \E i \in 1..Len(t) : b[i] = m
      <4> SUFFICES ASSUME NEW m \in 1..(n + 1), key[m] \notin Separators
                   PROVE  \E i \in 1..Len(t) : b[i] = m
        OBVIOUS
      <4>1. CASE m \in 1..n
        <5>1. PICK i \in 1..Len(s) : at[i] = m
          BY <4>1 DEF Places
        <5> QED
          BY <2>1, <2>2, <5>1
      <4>2. CASE m = n + 1
        BY <2>1, <2>2, <4>2
      <4> QED
        BY <4>1, <4>2
    <3> QED
      BY <3>1, <3>2, <3>3, <3>4 DEF Places
  <2> QED
    BY <1>3, <2>3 DEF Kept, t
<1> QED
  BY <1>2, <1>3

\* A normalised key is the key without its separators, in its order.
LEMMA NormalizedPlaces ==
  ASSUME NEW key \in Seq(STRING)
  PROVE  \E at : Places(key, Len(key), normalizeKey(key), at)
<1>1. PICK kept : /\ kept[0] = <<>>
                  /\ \A i \in 1..Len(key) : kept[i] = Kept(kept[i - 1], key[i])
                  /\ normalizeKey(key) = kept[Len(key)]
  BY NormalizedBySteps, Zenon
<1> DEFINE S == {n \in 0..Len(key) : \E at : Places(key, n, kept[n], at)}
<1>2. 0 \in S
  <2>1. Places(key, 0, <<>>, <<>>)
    BY DEF Places
  <2> HIDE DEF Places
  <2> QED
    BY <1>1, <2>1
<1>3. ASSUME NEW n \in 0..(Len(key) - 1), n \in S
      PROVE  n + 1 \in S
  <2>1. PICK at : Places(key, n, kept[n], at)
    BY <1>3
  <2>2. \E b : Places(key, n + 1, Kept(kept[n], key[n + 1]), b)
    BY <2>1, OneMorePlace
  <2>3. n + 1 \in 1..Len(key) /\ (n + 1) - 1 = n
    OBVIOUS
  <2>4. kept[n + 1] = Kept(kept[n], key[n + 1])
    BY <1>1, <2>3
  <2> QED
    BY <2>2, <2>3, <2>4
<1> HIDE DEF S
<1>4. \A n \in 0..Len(key) : n \in S
  BY <1>2, <1>3, InductionTo
<1>5. Len(key) \in S
  BY <1>4
<1> QED
  BY <1>1, <1>5 DEF S

\* Nothing but separators lies between two characters that are kept one after the other.
LEMMA OnlySeparatorsBetween ==
  ASSUME NEW key, NEW n \in Nat, NEW s, NEW at, Places(key, n, s, at),
         NEW i \in 1..(Len(s) - 1), NEW m \in (at[i] + 1)..(at[i + 1] - 1)
  PROVE  key[m] \in Separators
<1>1. Len(s) \in Nat
  BY DEF Places
<1>2. i \in 1..Len(s) /\ i + 1 \in 1..Len(s)
  BY <1>1
<1>3. at[i] \in 1..n /\ at[i + 1] \in 1..n
  BY <1>2 DEF Places
<1> SUFFICES ASSUME key[m] \notin Separators PROVE FALSE
  OBVIOUS
<1>4. m \in 1..n /\ at[i] < m /\ m < at[i + 1]
  BY <1>3
<1>5. PICK q \in 1..Len(s) : at[q] = m
  BY <1>4 DEF Places
<1>6. \A x, y \in 1..Len(s) : x < y => at[x] < at[y]
  BY DEF Places
<1>7. q <= i \/ i + 1 <= q
  BY <1>1
<1>8. CASE q <= i
  <2>1. q = i \/ q < i
    BY <1>8
  <2> QED
    BY <2>1, <1>2, <1>3, <1>4, <1>5, <1>6
<1>9. CASE i + 1 <= q
  <2>1. q = i + 1 \/ i + 1 < q
    BY <1>9
  <2> QED
    BY <2>1, <1>2, <1>3, <1>4, <1>5, <1>6
<1> QED
  BY <1>7, <1>8, <1>9

\* A word found in the normalised key is spelled by the key.
LEMMA FoundIsSpelled ==
  ASSUME NEW key \in Seq(STRING), NEW word \in SensitiveWords,
         word \in SubSeqs(normalizeKey(key))
  PROVE  Spells(key, word)
<1> DEFINE s == normalizeKey(key)
<1>1. PICK at : Places(key, Len(key), s, at)
  BY NormalizedPlaces
<1>2. PICK a \in 0..Len(s), b \in 0..Len(s) : word = SubSeq(s, a + 1, b)
  BY DEF SubSeqs
<1> HIDE DEF s
<1> DEFINE L == Len(word)
<1>3. s \in Seq(STRING) /\ Len(s) \in Nat /\ word \in Seq(STRING) /\ word # <<>> /\ Len(key) \in Nat
  BY <1>1, WordAssumption DEF Places
<1>4. a + 1 <= b /\ L = b - a /\ L \in Nat
  <2>1. L \in Nat /\ L # 0
    BY <1>3
  <2>2. Len(SubSeq(s, a + 1, b)) = IF a + 1 <= b THEN b - (a + 1) + 1 ELSE 0
    BY <1>2, <1>3
  <2> HIDE DEF s
  <2> QED
    BY <1>2, <2>1, <2>2
<1>5. \A i \in 1..L : a + i \in 1..Len(s) /\ word[i] = s[a + i]
  <2> TAKE i \in 1..L
  <2>1. a + i \in 1..Len(s) /\ i \in 1..(b - (a + 1) + 1) /\ (a + 1) + i - 1 = a + i
    BY <1>3, <1>4
  <2>2. SubSeq(s, a + 1, b)[i] = s[(a + 1) + i - 1]
    BY <1>2, <1>3, <2>1
  <2> QED
    BY <1>2, <2>1, <2>2
<1> DEFINE place == [i \in 1..L |-> at[a + i]]
<1> HIDE DEF L
<1>6. /\ at \in [1..Len(s) -> 1..Len(key)]
      /\ \A i \in 1..Len(s) : key[at[i]] = s[i]
      /\ \A i, j \in 1..Len(s) : i < j => at[i] < at[j]
  BY <1>1 DEF Places
<1>7. place \in [1..L -> 1..Len(key)]
  BY <1>5, <1>6
<1>8. \A i \in 1..L : key[place[i]] = word[i]
  BY <1>5, <1>6
<1>9. ASSUME NEW i \in 1..(L - 1)
      PROVE  /\ place[i] < place[i + 1]
             /\ \A m \in (place[i] + 1)..(place[i + 1] - 1) : key[m] \in Separators
  <2>1. i \in 1..L /\ i + 1 \in 1..L /\ a + (i + 1) = (a + i) + 1 /\ a + i < (a + i) + 1
    BY <1>2, <1>4
  <2>2. place[i] = at[a + i] /\ place[i + 1] = at[(a + i) + 1]
    BY <2>1
  <2>3. a + i \in 1..Len(s) /\ (a + i) + 1 \in 1..Len(s)
    BY <1>5, <2>1
  <2>4. a + i \in 1..(Len(s) - 1)
    BY <2>3, <1>3
  <2>5. \A m \in (at[a + i] + 1)..(at[(a + i) + 1] - 1) : key[m] \in Separators
    BY <1>1, <1>3, <2>4, OnlySeparatorsBetween
  <2> HIDE DEF place
  <2> QED
    BY <1>6, <2>1, <2>2, <2>3, <2>5
<1> HIDE DEF place
<1> QED
  BY <1>7, <1>8, <1>9 DEF Spells, L

\* A word the key spells is found in the normalised key.
LEMMA SpelledIsFound ==
  ASSUME NEW key \in Seq(STRING), NEW word \in SensitiveWords, Spells(key, word)
  PROVE  word \in SubSeqs(normalizeKey(key))
<1> DEFINE s == normalizeKey(key)
           L == Len(word)
<1>1. PICK at : Places(key, Len(key), s, at)
  BY NormalizedPlaces
<1>2. PICK place \in [1..L -> 1..Len(key)] :
        /\ \A i \in 1..L : key[place[i]] = word[i]
        /\ \A i \in 1..(L - 1) :
             /\ place[i] < place[i + 1]
             /\ \A m \in (place[i] + 1)..(place[i + 1] - 1) : key[m] \in Separators
  BY DEF Spells
<1>3. /\ s \in Seq(STRING) /\ Len(s) \in Nat /\ word \in Seq(STRING) /\ word # <<>> /\ Len(key) \in Nat
      /\ \A i \in 1..L : word[i] \notin Separators
  BY <1>1, WordAssumption DEF Places
<1>4. L \in Nat /\ L >= 1
  BY <1>3
<1> HIDE DEF s, L
<1>5. /\ at \in [1..Len(s) -> 1..Len(key)]
      /\ \A i \in 1..Len(s) : key[at[i]] = s[i] /\ key[at[i]] \notin Separators
      /\ \A i, j \in 1..Len(s) : i < j => at[i] < at[j]
      /\ \A m \in 1..Len(key) : key[m] \notin Separators => \E i \in 1..Len(s) : at[i] = m
  BY <1>1 DEF Places
<1>6. \A i \in 1..L : \E q \in 1..Len(s) : at[q] = place[i]
  BY <1>2, <1>3, <1>5
<1>7. PICK q \in 1..Len(s) : at[q] = place[1]
  BY <1>4, <1>6
<1> DEFINE S == {n \in 0..(L - 1) : q + n \in 1..Len(s) /\ at[q + n] = place[n + 1]}
<1>8. 0 \in S
  BY <1>4, <1>7
<1>9. ASSUME NEW n \in 0..((L - 1) - 1), n \in S
      PROVE  n + 1 \in S
  <2>1. /\ n + 1 \in 1..(L - 1) /\ n + 1 \in 1..L /\ (n + 1) + 1 \in 1..L /\ n + 1 \in 0..(L - 1)
        /\ q + n \in 1..Len(s) /\ at[q + n] = place[n + 1]
    BY <1>4, <1>9
  <2>2. PICK r \in 1..Len(s) : at[r] = place[(n + 1) + 1]
    BY <1>6, <2>1
  <2>3. place[n + 1] < place[(n + 1) + 1]
    BY <1>2, <2>1
  <2>4. at[q + n] \in 1..Len(key) /\ at[r] \in 1..Len(key) /\ at[q + n] < at[r]
    BY <1>5, <2>1, <2>2, <2>3
  <2>5. q + n < r
    <3> SUFFICES ASSUME r <= q + n PROVE FALSE
      BY <2>1, <1>3
    <3>1. r = q + n \/ r < q + n
      BY <2>1
    <3>2. r < q + n => at[r] < at[q + n]
      BY <1>5, <2>1
    <3> QED
      BY <3>1, <3>2, <2>4
  <2>6. (q + n) + 1 \in 1..Len(s)
    BY <2>1, <2>5, <1>3
  <2>7. r = (q + n) + 1
    <3> SUFFICES ASSUME r # (q + n) + 1 PROVE FALSE
      OBVIOUS
    <3>1. (q + n) + 1 < r
      BY <2>5, <2>1
    <3> DEFINE m == at[(q + n) + 1]
    <3>2. m \in 1..Len(key) /\ key[m] \notin Separators
      BY <1>5, <2>6
    <3>3. at[q + n] < m /\ m < at[r]
      <4>1. q + n < (q + n) + 1
        BY <2>1
      <4> QED
        BY <1>5, <2>1, <2>6, <3>1, <4>1
    <3> HIDE DEF m
    <3>4. m \in (place[n + 1] + 1)..(place[(n + 1) + 1] - 1)
      <4>1. m \in (at[q + n] + 1)..(at[r] - 1)
        BY <3>2, <3>3, <2>4
      <4> QED
        BY <4>1, <2>1, <2>2
    <3> QED
      BY <1>2, <2>1, <3>2, <3>4
  <2>8. q + (n + 1) = (q + n) + 1
    BY <2>1
  <2> QED
    BY <2>1, <2>2, <2>6, <2>7, <2>8
<1>10. \A n \in 0..(L - 1) : n \in S
  <2>1. L - 1 \in Nat
    BY <1>4
  <2> HIDE DEF S
  <2> QED
    BY <1>8, <1>9, <2>1, InductionTo
<1> DEFINE a == q - 1
           b == q + (L - 1)
<1>11. a \in 0..Len(s) /\ b \in 0..Len(s) /\ a + 1 = q
  <2>1. L - 1 \in S
    <3>1. L - 1 \in 0..(L - 1)
      BY <1>4
    <3> HIDE DEF S
    <3> QED
      BY <3>1, <1>10
  <2> QED
    BY <2>1, <1>3
<1>12. \A i \in 1..L : (a + 1) + i - 1 \in 1..Len(s) /\ word[i] = s[(a + 1) + i - 1]
  <2> TAKE i \in 1..L
  <2>1. i - 1 \in S
    <3>1. i - 1 \in 0..(L - 1)
      BY <1>4
    <3> HIDE DEF S
    <3> QED
      BY <3>1, <1>10
  <2>2. (i - 1) + 1 = i /\ (a + 1) + i - 1 = q + (i - 1)
    BY <1>11
  <2>3. q + (i - 1) \in 1..Len(s) /\ at[q + (i - 1)] = place[i]
    <3>1. q + (i - 1) \in 1..Len(s) /\ at[q + (i - 1)] = place[(i - 1) + 1]
      BY <2>1
    <3> QED
      BY <2>2, <3>1
  <2>4. key[place[i]] = word[i]
    BY <1>2
  <2>5. key[at[q + (i - 1)]] = s[q + (i - 1)]
    BY <1>5, <2>3
  <2> QED
    BY <2>2, <2>3, <2>4, <2>5
<1>13. word = SubSeq(s, a + 1, b)
  <2>1. b - (a + 1) + 1 = L /\ a + 1 <= b /\ a + 1 \in Int /\ b \in Int
    BY <1>4, <1>11
  <2> DEFINE w == SubSeq(s, a + 1, b)
  <2>2. \A i \in (a + 1)..b : s[i] \in STRING
    BY <1>3, <1>11
  <2>3. w \in Seq(STRING) /\ Len(w) = L /\ \A i \in 1..L : w[i] = s[(a + 1) + i - 1]
    <3> HIDE DEF a, b
    <3>1. /\ w \in Seq(STRING)
          /\ Len(w) = IF a + 1 <= b THEN b - (a + 1) + 1 ELSE 0
          /\ \A i \in 1..(b - (a + 1) + 1) : w[i] = s[(a + 1) + i - 1]
      BY <2>1, <2>2, SubSeqProperties
    <3> HIDE DEF w
    <3> QED
      BY <2>1, <3>1
  <2>4. \A i \in 1..L : w[i] = word[i]
    BY <2>3, <1>12
  <2> HIDE DEF w, a, b
  <2>5. w = word
    BY <2>3, <2>4, <1>3, SeqEqual DEF L
  <2> QED
    BY <2>5 DEF w
<1> HIDE DEF a, b
<1> QED
  BY <1>11, <1>13 DEF SubSeqs, s

\* Removing the separators of a key and looking for a word is as good as reading the word in
\* the key with nothing but separators between its characters.
THEOREM SensitiveKeysAreSpelled ==
  ASSUME NEW key \in Seq(STRING)
  PROVE  isSensitiveKey(key) <=> \E word \in SensitiveWords : Spells(key, word)
BY FoundIsSpelled, SpelledIsFound DEF isSensitiveKey

\* The place of an item is no sensitive key, so an entry is masked if and only if the way to
\* it is by a key that spells a sensitive word.
LEMMA EntryMasks ==
  ASSUME HeapOK, NEW n \in Nodes, NEW k \in DOMAIN heap[n], NEW copy
  PROVE  Entry(n, k, copy) =
           IF \E word \in SensitiveWords : Spells(k, word) THEN Redacted ELSE copy
<1>1. k \in Steps
  BY NodesHoldTargets
<1>2. k \in Seq(STRING)
  <2>1. <<>> \in Seq(STRING)
    BY EmptySeq
  <2>2. CASE k \in Keys
    BY <2>2, KeyAssumption
  <2>3. CASE k = Item
    BY <2>1, <2>3 DEF Item
  <2> QED
    BY <1>1, <2>2, <2>3 DEF Steps
<1>3. isSensitiveKey(k) <=> \E word \in SensitiveWords : Spells(k, word)
  BY <1>2, SensitiveKeysAreSpelled
<1>4. ASSUME DOMAIN heap[n] = {Item}, NEW word \in SensitiveWords, Spells(k, word)
      PROVE  FALSE
  <2>1. k = <<>>
    BY <1>4 DEF Item
  <2>2. Len(word) \in Nat /\ Len(word) # 0
    BY WordAssumption
  <2>3. PICK place \in [1..Len(word) -> 1..Len(k)] : TRUE
    BY <1>4 DEF Spells
  <2> QED
    BY <2>1, <2>2, <2>3
<1> QED
  BY <1>3, <1>4 DEF Entry

-----------------------------------------------------------------------------
(* Paths *)

\* Nothing masks the way to the metadata itself.
LEMMA NothingMasksTheRoot == ~Masks(<<>>)
BY DEF Masks

\* What masks the way to a value masks the way to what is below it.
LEMMA MaskedBelow ==
  ASSUME NEW p \in Seq(Steps), NEW i \in 0..Len(p), Masks(SubSeq(p, 1, i))
  PROVE  Masks(p)
<1>1. Len(SubSeq(p, 1, i)) = i /\ \A j \in 1..i : SubSeq(p, 1, i)[j] = p[j]
  OBVIOUS
<1>2. PICK j \in 1..i :
        j <= MaxDepth + 1 /\ \E word \in SensitiveWords : Spells(SubSeq(p, 1, i)[j], word)
  BY <1>1 DEF Masks
<1>3. j \in 1..Len(p) /\ SubSeq(p, 1, i)[j] = p[j]
  BY <1>1
<1> QED
  BY <1>2, <1>3 DEF Masks

\* One step further: a sensitive key masks down to the depth limit and not below.
LEMMA OneStepMasks ==
  ASSUME NEW p \in Seq(Steps), NEW k \in Steps
  PROVE  /\ Append(p, k) \in Seq(Steps) /\ Len(Append(p, k)) = Len(p) + 1
         /\ Front(Append(p, k)) = p
         /\ \A i \in 0..Len(p) : SubSeq(Append(p, k), 1, i) = SubSeq(p, 1, i)
         /\ SubSeq(Append(p, k), 1, Len(p) + 1) = Append(p, k)
         /\ Masks(Append(p, k)) <=>
              \/ Masks(p)
              \/ Len(p) <= MaxDepth /\ \E word \in SensitiveWords : Spells(k, word)
<1> DEFINE a == Append(p, k)
<1>1. /\ a \in Seq(Steps) /\ Len(a) = Len(p) + 1 /\ Len(p) \in Nat
      /\ a[Len(p) + 1] = k /\ \A i \in 1..Len(p) : a[i] = p[i]
  BY AppendProperties
<1> HIDE DEF a
<1>2. \A i \in 0..Len(p) : SubSeq(a, 1, i) = SubSeq(p, 1, i)
  <2> TAKE i \in 0..Len(p)
  <2>1. /\ SubSeq(a, 1, i) \in Seq(Steps) /\ Len(SubSeq(a, 1, i)) = i
        /\ \A j \in 1..i : SubSeq(a, 1, i)[j] = a[j]
    BY <1>1
  <2>2. /\ SubSeq(p, 1, i) \in Seq(Steps) /\ Len(SubSeq(p, 1, i)) = i
        /\ \A j \in 1..i : SubSeq(p, 1, i)[j] = p[j]
    BY <1>1
  <2>3. \A j \in 1..i : a[j] = p[j]
    BY <1>1
  <2> QED
    BY <2>1, <2>2, <2>3, SeqEqual
<1>3. SubSeq(p, 1, Len(p)) = p /\ SubSeq(a, 1, Len(a)) = a
  BY <1>1, SubSeqFull
<1>4. Front(a) = p
  <2>1. Len(a) - 1 = Len(p) /\ Len(p) \in 0..Len(p)
    BY <1>1
  <2> QED
    BY <2>1, <1>2, <1>3 DEF Front
<1>5. ASSUME Masks(a)
      PROVE  Masks(p) \/ (Len(p) <= MaxDepth /\ \E word \in SensitiveWords : Spells(k, word))
  <2>1. PICK i \in 1..Len(a) : i <= MaxDepth + 1 /\ \E word \in SensitiveWords : Spells(a[i], word)
    BY <1>5 DEF Masks
  <2>2. CASE i = Len(p) + 1
    BY <1>1, <2>1, <2>2, DepthAssumption
  <2>3. CASE i \in 1..Len(p)
    BY <1>1, <2>1, <2>3 DEF Masks
  <2>4. i = Len(p) + 1 \/ i \in 1..Len(p)
    <3>1. Len(a) = Len(p) + 1 /\ Len(p) \in Nat
      BY <1>1
    <3> QED
      BY <3>1
  <2> QED
    BY <2>2, <2>3, <2>4
<1>6. ASSUME Masks(p)
      PROVE  Masks(a)
  <2>1. PICK i \in 1..Len(p) : i <= MaxDepth + 1 /\ \E word \in SensitiveWords : Spells(p[i], word)
    BY <1>6 DEF Masks
  <2>2. i \in 1..Len(a) /\ a[i] = p[i]
    BY <1>1
  <2> QED
    BY <2>1, <2>2 DEF Masks
<1>7. ASSUME Len(p) <= MaxDepth, \E word \in SensitiveWords : Spells(k, word)
      PROVE  Masks(a)
  <2>1. Len(p) + 1 \in 1..Len(a) /\ Len(p) + 1 <= MaxDepth + 1
    BY <1>1, <1>7, DepthAssumption
  <2> QED
    BY <1>1, <1>7, <2>1 DEF Masks
<1> QED
  BY <1>1, <1>2, <1>3, <1>4, <1>5, <1>6, <1>7 DEF a

-----------------------------------------------------------------------------
(* The levels of the metadata *)

Levels == Visit(Ref(Root))

\* What is below a level are the entries of its branches.
LEMMA BelowIs ==
  ASSUME NEW level, NEW e
  PROVE  e \in Below(level) <=>
           \E d \in level : /\ IsBranch(d[2])
                            /\ \E k \in DOMAIN Fields(d[2]) :
                                 e = <<Append(d[1], k), Fields(d[2])[k]>>
BY DEF Below

\* The values of a level of the metadata, each by a path as long as the level is deep.
LevelOK(n) ==
  \A e \in Levels[n] : /\ e = <<e[1], e[2]>>
                       /\ e[1] \in Seq(Steps) /\ Len(e[1]) = n /\ e[2] \in Targets

\* The fields of a value of the metadata.
LEMMA FieldsOfTarget ==
  ASSUME HeapOK, NEW v \in Targets, IsBranch(v)
  PROVE  /\ v # Leaf /\ v.node \in Nodes /\ v = Ref(v.node)
         /\ Fields(v) = heap[v.node] /\ DOMAIN heap[v.node] \subseteq Steps
         /\ \A k \in DOMAIN heap[v.node] : heap[v.node][k] \in Targets
<1>1. v # Leaf
  BY TargetKinds
<1>2. v.kind = "node" /\ v.node \in Nodes /\ v = Ref(v.node)
  BY <1>1, TargetKinds
<1> QED
  BY <1>1, <1>2, NodesHoldTargets DEF Fields

\* A value below the first level is where a key of a branch of the level above leads.
LEMMA EntryOfLevel ==
  ASSUME HeapOK, NEW n \in 0..(Deepest - 1), LevelOK(n), NEW e \in Levels[n + 1]
  PROVE  \E d \in Levels[n] :
           /\ IsBranch(d[2])
           /\ \E k \in DOMAIN heap[d[2].node] :
                 k \in Steps /\ e = <<Append(d[1], k), heap[d[2].node][k]>>
<1>1. n + 1 \in 1..Deepest /\ (n + 1) - 1 = n
  BY DeepestIsNat
<1>2. Levels[n + 1] = Below(Levels[n])
  <2>1. \A m \in 1..Deepest : Levels[m] = Below(Levels[m - 1])
    BY VisitLevels DEF Levels
  <2> QED
    BY <1>1, <2>1
<1>3. PICK d \in Levels[n] : /\ IsBranch(d[2])
                             /\ \E k \in DOMAIN Fields(d[2]) :
                                  e = <<Append(d[1], k), Fields(d[2])[k]>>
  BY <1>2, BelowIs
<1>4. d[2] \in Targets
  BY DEF LevelOK
<1>5. Fields(d[2]) = heap[d[2].node] /\ DOMAIN heap[d[2].node] \subseteq Steps
  BY <1>3, <1>4, FieldsOfTarget
<1> QED
  BY <1>3, <1>5

\* And each key of a branch leads to a value of the level below.
LEMMA LevelOfEntry ==
  ASSUME HeapOK, NEW n \in 0..(Deepest - 1), LevelOK(n), NEW d \in Levels[n], IsBranch(d[2]),
         NEW k \in DOMAIN heap[d[2].node]
  PROVE  <<Append(d[1], k), heap[d[2].node][k]>> \in Levels[n + 1]
<1>1. n + 1 \in 1..Deepest /\ (n + 1) - 1 = n
  BY DeepestIsNat
<1>2. Levels[n + 1] = Below(Levels[n])
  <2>1. \A m \in 1..Deepest : Levels[m] = Below(Levels[m - 1])
    BY VisitLevels DEF Levels
  <2> QED
    BY <1>1, <2>1
<1>3. d[2] \in Targets
  BY DEF LevelOK
<1>4. Fields(d[2]) = heap[d[2].node]
  BY <1>3, FieldsOfTarget
<1> DEFINE e == <<Append(d[1], k), heap[d[2].node][k]>>
<1>5. \E l \in DOMAIN Fields(d[2]) : e = <<Append(d[1], l), Fields(d[2])[l]>>
  BY <1>4
<1> HIDE DEF e
<1>6. e \in Below(Levels[n])
  BY <1>5, BelowIs
<1> QED
  BY <1>2, <1>6 DEF e

\* Every level of the metadata is such.
LEMMA LevelsOK ==
  ASSUME HeapOK
  PROVE  \A n \in 0..Deepest : LevelOK(n)
<1> DEFINE S == {n \in 0..Deepest : LevelOK(n)}
<1>1. 0 \in S
  <2>1. Levels[0] = {<<(<<>>), Ref(Root)>>}
    BY VisitLevels DEF Levels
  <2>2. Ref(Root) \in Targets /\ <<>> \in Seq(Steps) /\ Len(<<>>) = 0 /\ 0 \in 0..Deepest
    <3>1. Ref(Root) \in Targets
      BY RootAssumption DEF Targets
    <3>2. <<>> \in Seq(Steps) /\ Len(<<>>) = 0
      BY EmptySeq
    <3>3. 0 \in 0..Deepest
      BY DeepestIsNat
    <3> QED
      BY <3>1, <3>2, <3>3
  <2>3. LevelOK(0)
    <3>1. ASSUME NEW e \in Levels[0]
          PROVE  e = <<e[1], e[2]>> /\ e[1] = <<>> /\ e[2] = Ref(Root)
      BY <2>1
    <3> QED
      BY <2>2, <3>1 DEF LevelOK
  <2> QED
    BY <2>2, <2>3
<1>2. ASSUME NEW n \in 0..(Deepest - 1), n \in S
      PROVE  n + 1 \in S
  <2>1. LevelOK(n)
    BY <1>2
  <2>2. ASSUME NEW e \in Levels[n + 1]
        PROVE  e = <<e[1], e[2]>> /\ e[1] \in Seq(Steps) /\ Len(e[1]) = n + 1 /\ e[2] \in Targets
    <3>5. PICK d \in Levels[n] :
            /\ IsBranch(d[2])
            /\ \E k \in DOMAIN heap[d[2].node] :
                  k \in Steps /\ e = <<Append(d[1], k), heap[d[2].node][k]>>
      BY <2>1, <2>2, EntryOfLevel
    <3>1. PICK k \in DOMAIN heap[d[2].node] :
            IsBranch(d[2]) /\ k \in Steps /\ e = <<Append(d[1], k), heap[d[2].node][k]>>
      BY <3>5
    <3>2. d[1] \in Seq(Steps) /\ Len(d[1]) = n /\ d[2] \in Targets
      BY <2>1 DEF LevelOK
    <3>3. heap[d[2].node][k] \in Targets
      BY <3>1, <3>2, FieldsOfTarget
    <3>4. Append(d[1], k) \in Seq(Steps) /\ Len(Append(d[1], k)) = n + 1
      BY <3>1, <3>2, AppendProperties
    <3> QED
      BY <3>1, <3>3, <3>4
  <2>3. n + 1 \in 0..Deepest
    BY DeepestIsNat
  <2> QED
    BY <2>2, <2>3 DEF LevelOK
<1> HIDE DEF S
<1>3. \A n \in 0..Deepest : n \in S
  BY <1>1, <1>2, DeepestIsNat, InductionTo
<1> QED
  BY <1>3 DEF S

-----------------------------------------------------------------------------
(* The levels of the copy *)

\* What the copy holds where the metadata holds v by path p.
Copied(p, v) ==
  IF Masks(p) THEN Redacted ELSE IF Len(p) <= MaxDepth THEN redactObject[Len(p)][v] ELSE v

\* What nothing masks is copied as a branch if it is one, with the same keys, each leading to
\* what is copied of what it led to.
LEMMA CopiedBranch ==
  ASSUME HeapOK, NEW p \in Seq(Steps), NEW v \in Targets, ~Masks(p)
  PROVE  /\ IsBranch(Copied(p, v)) <=> IsBranch(v)
         /\ ~IsBranch(v) => Copied(p, v) = v
         /\ IsBranch(v) => /\ DOMAIN Fields(Copied(p, v)) = DOMAIN heap[v.node]
                           /\ \A k \in DOMAIN heap[v.node] :
                                Fields(Copied(p, v))[k] = Copied(Append(p, k), heap[v.node][k])
<1>1. Len(p) \in Nat
  OBVIOUS
<1>2. CASE Len(p) > MaxDepth
  <2>1. Copied(p, v) = v
    BY <1>1, <1>2, DepthAssumption DEF Copied
  <2>2. ASSUME IsBranch(v)
        PROVE  /\ DOMAIN Fields(v) = DOMAIN heap[v.node]
               /\ \A k \in DOMAIN heap[v.node] :
                    Fields(v)[k] = Copied(Append(p, k), heap[v.node][k])
    <3>1. Fields(v) = heap[v.node] /\ DOMAIN heap[v.node] \subseteq Steps
      BY <2>2, FieldsOfTarget
    <3>2. ASSUME NEW k \in DOMAIN heap[v.node]
          PROVE  Copied(Append(p, k), heap[v.node][k]) = heap[v.node][k]
      <4>1. k \in Steps
        BY <3>1
      <4>2. ~Masks(Append(p, k)) /\ Len(Append(p, k)) = Len(p) + 1
        BY <1>1, <1>2, <4>1, DepthAssumption, OneStepMasks
      <4> QED
        BY <1>1, <1>2, <4>2, DepthAssumption DEF Copied
    <3> QED
      BY <3>1, <3>2
  <2> QED
    BY <2>1, <2>2
<1>3. CASE Len(p) <= MaxDepth
  <2> DEFINE depth == Len(p)
             next == redactObject[depth + 1]
  <2>1. depth \in 0..MaxDepth /\ depth \in 0..(MaxDepth + 1) /\ depth + 1 \in 0..(MaxDepth + 1)
    BY <1>1, <1>3, DepthAssumption
  <2>2. Copied(p, v) = redactObject[depth][v] /\ redactObject[depth] = Body(next, depth)
    <3>1. redactObject[depth] = Body(redactObject[depth + 1], depth)
      BY <2>1, RedactObjectIs
    <3> QED
      BY <1>3, <3>1 DEF Copied
  <2> HIDE DEF next
  <2>3. Body(next, depth)[v]
          = IF v = Leaf THEN v
            ELSE Copy([k \in DOMAIN heap[v.node] |-> Entry(v.node, k, next[heap[v.node][k]])])
    BY <2>1, DepthAssumption DEF Body, TooDeep
  <2>4. CASE v = Leaf
    BY <2>2, <2>3, <2>4, TargetKinds
  <2>5. CASE v # Leaf
    <3> DEFINE f == [k \in DOMAIN heap[v.node] |-> Entry(v.node, k, next[heap[v.node][k]])]
    <3>1. IsBranch(v) /\ v.node \in Nodes
      BY <2>5, TargetKinds
    <3>2. Copied(p, v) = Copy(f)
      BY <2>2, <2>3, <2>5
    <3>3. DOMAIN f = DOMAIN heap[v.node]
      OBVIOUS
    <3>4. ASSUME NEW k \in DOMAIN heap[v.node]
          PROVE  f[k] = Copied(Append(p, k), heap[v.node][k])
      <4> DEFINE w == heap[v.node][k]
      <4>1. k \in Steps /\ w \in Targets
        BY <3>1, FieldsOfTarget
      <4>2. f[k] = IF \E word \in SensitiveWords : Spells(k, word) THEN Redacted ELSE next[w]
        BY <3>1, EntryMasks
      <4>3. /\ Masks(Append(p, k)) <=> \E word \in SensitiveWords : Spells(k, word)
            /\ Len(Append(p, k)) = depth + 1
        BY <1>3, <4>1, OneStepMasks
      <4>4. ASSUME depth + 1 > MaxDepth
            PROVE  next[w] = w
        <5>1. next = Body(redactObject[(depth + 1) + 1], depth + 1)
          BY <2>1, RedactObjectIs DEF next
        <5>2. TooDeep(depth + 1)
          BY <4>4 DEF TooDeep
        <5> HIDE DEF w
        <5> QED
          BY <4>1, <5>1, <5>2 DEF Body
      <4>5. depth + 1 > MaxDepth \/ depth + 1 <= MaxDepth
        BY <2>1, DepthAssumption
      <4> HIDE DEF f, w
      <4>6. f[k] = Copied(Append(p, k), w)
        BY <4>2, <4>3, <4>4, <4>5, DepthAssumption, <2>1 DEF Copied, next
      <4> QED
        BY <4>6 DEF w
    <3> HIDE DEF f
    <3>5. IsBranch(Copy(f)) /\ Fields(Copy(f)) = f
      BY DEF IsBranch, Fields, Copy
    <3> QED
      BY <3>1, <3>2, <3>3, <3>4, <3>5
  <2> QED
    BY <2>4, <2>5
<1> QED
  BY <1>1, <1>2, <1>3, DepthAssumption

Unmasked(n) == {e \in Levels[n] : ~Masks(Front(e[1]))}
CopyOf      == redactObject[0][Ref(Root)]

\* Of the copy and the metadata, level n corresponds.
Corresponds(n) == Visit(CopyOf)[n] = {<<e[1], Copied(e[1], e[2])>> : e \in Unmasked(n)}

\* The way to a value that nothing masks is masked nowhere above it.
LEMMA UnmaskedAbove ==
  ASSUME NEW p \in Seq(Steps), ~Masks(p)
  PROVE  ~Masks(Front(p))
<1>1. CASE p = <<>>
  <2>1. Len(p) - 1 < 1 /\ Len(p) - 1 \in Int
    BY <1>1
  <2>2. Front(p) = <<>>
    BY <2>1, SubSeqEmpty DEF Front
  <2> QED
    BY <2>2, NothingMasksTheRoot
<1>2. CASE p # <<>>
  <2>1. Len(p) \in Nat /\ Len(p) # 0
    BY <1>2
  <2>2. Len(p) - 1 \in 0..Len(p)
    BY <2>1
  <2> QED
    BY <2>2, MaskedBelow DEF Front
<1> QED
  BY <1>1, <1>2

\* What is below an unmasked branch of a level, in the copy and in the metadata.
LEMMA OneLevelMore ==
  ASSUME HeapOK, NEW n \in 0..(Deepest - 1), Corresponds(n)
  PROVE  Corresponds(n + 1)
<1>1. LevelOK(n) /\ LevelOK(n + 1) /\ n + 1 \in 1..Deepest /\ (n + 1) - 1 = n
  <2>1. n \in 0..Deepest /\ n + 1 \in 0..Deepest /\ n + 1 \in 1..Deepest /\ (n + 1) - 1 = n
    BY DeepestIsNat
  <2> QED
    BY <2>1, LevelsOK
<1>2. Visit(CopyOf)[n + 1] = Below(Visit(CopyOf)[n])
  <2>1. \A m \in 1..Deepest : Visit(CopyOf)[m] = Below(Visit(CopyOf)[m - 1])
    BY VisitLevels
  <2> QED
    BY <1>1, <2>1
<1> DEFINE Image == {<<e[1], Copied(e[1], e[2])>> : e \in Unmasked(n + 1)}
<1>3. ASSUME NEW x \in Visit(CopyOf)[n + 1]
      PROVE  x \in Image
  <2>1. PICK c \in Visit(CopyOf)[n] :
          /\ IsBranch(c[2])
          /\ \E k \in DOMAIN Fields(c[2]) : x = <<Append(c[1], k), Fields(c[2])[k]>>
    BY <1>2, BelowIs
  <2>2. PICK k \in DOMAIN Fields(c[2]) : x = <<Append(c[1], k), Fields(c[2])[k]>>
    BY <2>1
  <2>3. PICK d \in Unmasked(n) : c = <<d[1], Copied(d[1], d[2])>>
    BY DEF Corresponds
  <2>4. c[1] = d[1] /\ c[2] = Copied(d[1], d[2])
    BY <2>3
  <2>5. d \in Levels[n] /\ d[1] \in Seq(Steps) /\ d[2] \in Targets
    BY <1>1 DEF Unmasked, LevelOK
  <2>6. ~Masks(d[1])
    BY <2>1, <2>4 DEF Copied, IsBranch, Redacted
  <2>7. /\ IsBranch(d[2]) /\ k \in DOMAIN heap[d[2].node]
        /\ Fields(c[2])[k] = Copied(Append(d[1], k), heap[d[2].node][k])
    BY <2>1, <2>2, <2>4, <2>5, <2>6, CopiedBranch
  <2> DEFINE e == <<Append(d[1], k), heap[d[2].node][k]>>
  <2>8. e \in Levels[n + 1]
    BY <1>1, <2>5, <2>7, LevelOfEntry
  <2>9. k \in Steps
    BY <2>5, <2>7, FieldsOfTarget
  <2>10. Front(e[1]) = d[1]
    BY <2>5, <2>9, OneStepMasks
  <2>11. x = <<e[1], Copied(e[1], e[2])>>
    BY <2>2, <2>4, <2>7
  <2> HIDE DEF e
  <2> QED
    BY <2>6, <2>8, <2>10, <2>11 DEF Unmasked
<1>4. ASSUME NEW x \in Image
      PROVE  x \in Visit(CopyOf)[n + 1]
  <2>1. PICK e \in Unmasked(n + 1) : x = <<e[1], Copied(e[1], e[2])>>
    OBVIOUS
  <2>2. e \in Levels[n + 1] /\ ~Masks(Front(e[1]))
    BY DEF Unmasked
  <2>3. PICK d \in Levels[n] :
          /\ IsBranch(d[2])
          /\ \E k \in DOMAIN heap[d[2].node] :
               k \in Steps /\ e = <<Append(d[1], k), heap[d[2].node][k]>>
    BY <1>1, <2>2, EntryOfLevel
  <2>4. PICK k \in DOMAIN heap[d[2].node] :
          k \in Steps /\ e = <<Append(d[1], k), heap[d[2].node][k]>>
    BY <2>3
  <2>5. d[1] \in Seq(Steps) /\ d[2] \in Targets
    BY <1>1 DEF LevelOK
  <2>6. e[1] = Append(d[1], k) /\ e[2] = heap[d[2].node][k] /\ Front(e[1]) = d[1]
    BY <2>4, <2>5, OneStepMasks
  <2>7. ~Masks(d[1]) /\ d \in Unmasked(n)
    BY <2>2, <2>5, <2>6, UnmaskedAbove DEF Unmasked
  <2> DEFINE c == <<d[1], Copied(d[1], d[2])>>
  <2>8. c \in Visit(CopyOf)[n]
    BY <2>7 DEF Corresponds
  <2>9. /\ c[1] = d[1] /\ IsBranch(c[2]) /\ k \in DOMAIN Fields(c[2])
        /\ Fields(c[2])[k] = Copied(Append(d[1], k), heap[d[2].node][k])
    BY <2>3, <2>5, <2>7, CopiedBranch
  <2>10. x = <<Append(c[1], k), Fields(c[2])[k]>>
    BY <2>1, <2>6, <2>9
  <2> HIDE DEF c
  <2>11. \E l \in DOMAIN Fields(c[2]) : x = <<Append(c[1], l), Fields(c[2])[l]>>
    BY <2>9, <2>10
  <2>12. x \in Below(Visit(CopyOf)[n])
    BY <2>8, <2>9, <2>11, BelowIs
  <2> QED
    BY <1>2, <2>12
<1> HIDE DEF Image
<1>5. Visit(CopyOf)[n + 1] = Image
  BY <1>3, <1>4
<1> QED
  BY <1>5 DEF Corresponds, Image

\* The copy corresponds to the metadata at every level.
LEMMA CopyCorresponds ==
  ASSUME HeapOK
  PROVE  \A n \in 0..Deepest : Corresponds(n)
<1> DEFINE S == {n \in 0..Deepest : Corresponds(n)}
<1>1. 0 \in S
  <2>1. /\ Levels[0] = {<<(<<>>), Ref(Root)>>}
        /\ Visit(CopyOf)[0] = {<<(<<>>), CopyOf>>}
    BY VisitLevels DEF Levels
  <2>2. Copied(<<>>, Ref(Root)) = CopyOf
    BY NothingMasksTheRoot, DepthAssumption DEF Copied, CopyOf
  <2>3. ~Masks(Front(<<>>))
    BY EmptySeq, NothingMasksTheRoot, UnmaskedAbove
  <2>4. Unmasked(0) = {<<(<<>>), Ref(Root)>>}
    BY <2>1, <2>3 DEF Unmasked
  <2>5. Corresponds(0)
    <3>1. \A e \in Unmasked(0) : e[1] = <<>> /\ e[2] = Ref(Root)
      BY <2>4
    <3>2. {<<e[1], Copied(e[1], e[2])>> : e \in Unmasked(0)} = {<<(<<>>), CopyOf>>}
      <4>1. Unmasked(0) # {}
        BY <2>4
      <4> QED
        BY <2>2, <3>1, <4>1
    <3> QED
      BY <2>1, <3>2 DEF Corresponds
  <2> QED
    BY <2>5, DeepestIsNat
<1>2. ASSUME NEW n \in 0..(Deepest - 1), n \in S
      PROVE  n + 1 \in S
  BY <1>2, DeepestIsNat, OneLevelMore
<1> HIDE DEF S
<1>3. \A n \in 0..Deepest : n \in S
  BY <1>1, <1>2, DeepestIsNat, InductionTo
<1> QED
  BY <1>3 DEF S

-----------------------------------------------------------------------------
(* What is written of the copy *)

\* The row that RowIsRedactedCopy asks for.
Expected ==
  {<<e[1], IF Masks(e[1]) THEN <<"redacted", {}>> ELSE Shown(e[2])>> : e \in Reached}

\* What is reached are the unmasked values of the levels.
LEMMA ReachedIs ==
  ASSUME NEW e
  PROVE  e \in Reached <=> \E n \in 0..Deepest : e \in Unmasked(n)
BY DEF Reached, Everything, Unmasked, Levels

\* What the text shows of a copied value.
LEMMA CopyShown ==
  ASSUME HeapOK, NEW p \in Seq(Steps), NEW v \in Targets
  PROVE  Shown(Copied(p, v)) = IF Masks(p) THEN <<"redacted", {}>> ELSE Shown(v)
<1>1. CASE Masks(p)
  <2>1. Copied(p, v) = Redacted
    BY <1>1 DEF Copied
  <2>2. ~IsBranch(Redacted) /\ Redacted.kind = "redacted"
    BY DEF IsBranch, Redacted
  <2> QED
    BY <1>1, <2>1, <2>2 DEF Shown
<1>2. CASE ~Masks(p) /\ IsBranch(v)
  <2>1. IsBranch(Copied(p, v)) /\ DOMAIN Fields(Copied(p, v)) = DOMAIN heap[v.node]
    BY <1>2, CopiedBranch
  <2>2. Fields(v) = heap[v.node]
    BY <1>2, FieldsOfTarget
  <2> QED
    BY <1>2, <2>1, <2>2 DEF Shown
<1>3. CASE ~Masks(p) /\ ~IsBranch(v)
  <2>1. Copied(p, v) = v
    BY <1>3, CopiedBranch
  <2> QED
    BY <1>3, <2>1
<1> QED
  BY <1>1, <1>2, <1>3

\* The text of the copy is the row that is asked for.
LEMMA CopyIsExpected ==
  ASSUME HeapOK
  PROVE  Stringify(CopyOf) = Expected
<1> DEFINE Text(x) == <<x[1], Shown(x[2])>>
           Asked(e) == <<e[1], IF Masks(e[1]) THEN <<"redacted", {}>> ELSE Shown(e[2])>>
<1>1. ASSUME NEW n \in 0..Deepest, NEW e \in Unmasked(n)
      PROVE  Text(<<e[1], Copied(e[1], e[2])>>) = Asked(e)
  <2>1. e[1] \in Seq(Steps) /\ e[2] \in Targets
    BY LevelsOK DEF Unmasked, LevelOK
  <2> QED
    BY <2>1, CopyShown
<1>2. ASSUME NEW x \in Everything(CopyOf)
      PROVE  Text(x) \in Expected
  <2>1. PICK n \in 0..Deepest : x \in Visit(CopyOf)[n]
    BY DEF Everything
  <2>2. PICK e \in Unmasked(n) : x = <<e[1], Copied(e[1], e[2])>>
    BY <2>1, CopyCorresponds DEF Corresponds
  <2>3. e \in Reached
    BY ReachedIs
  <2>4. Text(x) = Asked(e)
    BY <1>1, <2>2
  <2> HIDE DEF Text
  <2> QED
    BY <2>3, <2>4 DEF Expected
<1>3. ASSUME NEW e \in Reached
      PROVE  \E x \in Everything(CopyOf) : Text(x) = Asked(e)
  <2>1. PICK n \in 0..Deepest : e \in Unmasked(n)
    BY ReachedIs
  <2>2. Visit(CopyOf)[n] = {<<d[1], Copied(d[1], d[2])>> : d \in Unmasked(n)}
    BY CopyCorresponds DEF Corresponds
  <2> DEFINE x == <<e[1], Copied(e[1], e[2])>>
  <2> HIDE DEF Text, Asked
  <2>4. Text(x) = Asked(e)
    BY <1>1, <2>1, Zenon
  <2>3. x \in Visit(CopyOf)[n]
    BY <2>1, <2>2, Zenon
  <2> HIDE DEF x
  <2>5. x \in Everything(CopyOf)
    BY <2>3 DEF Everything
  <2> QED
    BY <2>4, <2>5
<1>4. Stringify(CopyOf) = {Text(x) : x \in Everything(CopyOf)}
  BY DEF Stringify
<1>5. Expected = {Asked(e) : e \in Reached}
  BY DEF Expected
<1> HIDE DEF Text, Asked
<1> QED
  BY <1>2, <1>3, <1>4, <1>5

\* The copy of no metadata has nothing below it.
LEMMA NoMetadataIsNotCyclic == ~Cyclic(Copy(<<>>))
<1> DEFINE V == Visit(Copy(<<>>))
           S == {n \in 0..(Deepest - 1) : V[n + 1] = {}}
<1>1. /\ V[0] = {<<(<<>>), Copy(<<>>)>>}
      /\ \A n \in 1..Deepest : V[n] = Below(V[n - 1])
  BY VisitLevels
<1> HIDE DEF V
<1>2. Deepest \in Nat /\ Deepest - 1 \in Nat
  BY DeepestIsNat, DepthAssumption
<1>3. 0 \in S
  <2>1. \A d \in V[0] : Fields(d[2]) = <<>>
    BY <1>1 DEF Fields, Copy
  <2>2. \A d \in V[0] : DOMAIN Fields(d[2]) = {}
    BY <2>1
  <2>3. \A e : e \notin Below(V[0])
    BY <2>2, BelowIs
  <2>4. 1 \in 1..Deepest /\ 1 - 1 = 0 /\ 0 + 1 = 1
    BY <1>2
  <2>5. V[0 + 1] = Below(V[0])
    BY <1>1, <2>4
  <2> QED
    BY <1>2, <2>3, <2>5
<1>4. ASSUME NEW n \in 0..((Deepest - 1) - 1), n \in S
      PROVE  n + 1 \in S
  <2>1. (n + 1) + 1 \in 1..Deepest /\ ((n + 1) + 1) - 1 = n + 1 /\ n + 1 \in 0..(Deepest - 1)
    BY <1>2
  <2>2. V[(n + 1) + 1] = Below(V[n + 1])
    BY <1>1, <2>1
  <2>3. V[n + 1] = {}
    BY <1>4
  <2>4. Below({}) = {}
    BY DEF Below
  <2> QED
    BY <2>1, <2>2, <2>3, <2>4
<1>5. \A n \in 0..(Deepest - 1) : n \in S
  <2> HIDE DEF S
  <2> QED
    BY <1>2, <1>3, <1>4, InductionTo
<1>6. Deepest - 1 \in 0..(Deepest - 1) /\ (Deepest - 1) + 1 = Deepest
  BY <1>2
<1>7. V[Deepest] = {}
  <2>1. Deepest - 1 \in S
    <3> HIDE DEF S
    <3> QED
      BY <1>5, <1>6
  <2> QED
    BY <1>6, <2>1
<1> QED
  BY <1>7 DEF Cyclic, V

-----------------------------------------------------------------------------
(* The way to a value, and loops *)

\* The values w on the way to e, a value of level n, each at its path and each a branch whose
\* key leads to the next.
Way(e, n, w) ==
  /\ w \in [0..n -> Targets] /\ w[n] = e[2]
  /\ \A i \in 0..n : <<SubSeq(e[1], 1, i), w[i]>> \in Levels[i]
  /\ \A i \in 0..(n - 1) : /\ IsBranch(w[i]) /\ e[1][i + 1] \in DOMAIN heap[w[i].node]
                           /\ heap[w[i].node][e[1][i + 1]] = w[i + 1]

\* One value further.
LEMMA OneStepOfWay ==
  ASSUME HeapOK, NEW n \in 0..(Deepest - 1), NEW d \in Levels[n], NEW w, Way(d, n, w),
         IsBranch(d[2]), NEW k \in DOMAIN heap[d[2].node], k \in Steps,
         NEW e \in Levels[n + 1], e = <<Append(d[1], k), heap[d[2].node][k]>>
  PROVE  \E u : Way(e, n + 1, u)
<1>1. n \in Nat /\ n \in 0..Deepest /\ n + 1 \in 0..Deepest
  BY DeepestIsNat
<1>2. LevelOK(n) /\ LevelOK(n + 1)
  BY <1>1, LevelsOK
<1>3. d[1] \in Seq(Steps) /\ Len(d[1]) = n /\ d[2] \in Targets
  BY <1>2 DEF LevelOK
<1>4. e[1] \in Seq(Steps) /\ Len(e[1]) = n + 1 /\ e[2] \in Targets /\ e = <<e[1], e[2]>>
  BY <1>2 DEF LevelOK
<1>5. e[1] = Append(d[1], k) /\ e[2] = heap[d[2].node][k]
  OBVIOUS
<1>6. /\ SubSeq(e[1], 1, n + 1) = e[1]
      /\ \A i \in 0..n : SubSeq(e[1], 1, i) = SubSeq(d[1], 1, i)
  BY <1>3, <1>5, OneStepMasks
<1>7. e[1][n + 1] = k /\ \A i \in 1..n : e[1][i] = d[1][i]
  BY <1>3, <1>5, AppendProperties
<1> DEFINE u == [i \in 0..(n + 1) |-> IF i <= n THEN w[i] ELSE e[2]]
<1>8. /\ w \in [0..n -> Targets] /\ w[n] = d[2]
      /\ \A i \in 0..n : <<SubSeq(d[1], 1, i), w[i]>> \in Levels[i]
      /\ \A i \in 0..(n - 1) : /\ IsBranch(w[i]) /\ d[1][i + 1] \in DOMAIN heap[w[i].node]
                               /\ heap[w[i].node][d[1][i + 1]] = w[i + 1]
  BY DEF Way
<1>9. /\ u \in [0..(n + 1) -> Targets] /\ u[n + 1] = e[2]
      /\ \A i \in 0..n : u[i] = w[i]
  BY <1>1, <1>4, <1>8
<1> HIDE DEF u
<1>10. ASSUME NEW i \in 0..(n + 1)
       PROVE  <<SubSeq(e[1], 1, i), u[i]>> \in Levels[i]
  <2>1. CASE i \in 0..n
    <3>1. <<SubSeq(d[1], 1, i), w[i]>> \in Levels[i]
      BY <1>8, <2>1
    <3>2. SubSeq(e[1], 1, i) = SubSeq(d[1], 1, i) /\ u[i] = w[i]
      BY <1>6, <1>9, <2>1
    <3> QED
      BY <3>1, <3>2
  <2>2. CASE i = n + 1
    <3>1. <<SubSeq(e[1], 1, i), u[i]>> = e
      BY <1>4, <1>6, <1>9, <2>2
    <3> QED
      BY <2>2, <3>1
  <2>3. i \in 0..n \/ i = n + 1
    BY <1>1
  <2> QED
    BY <2>1, <2>2, <2>3
<1>11. ASSUME NEW i \in 0..((n + 1) - 1)
       PROVE  /\ IsBranch(u[i]) /\ e[1][i + 1] \in DOMAIN heap[u[i].node]
              /\ heap[u[i].node][e[1][i + 1]] = u[i + 1]
  <2>1. CASE i \in 0..(n - 1)
    <3>1. i \in 0..n /\ i + 1 \in 0..n /\ i + 1 \in 1..n
      BY <1>1, <2>1
    <3>2. u[i] = w[i] /\ u[i + 1] = w[i + 1] /\ e[1][i + 1] = d[1][i + 1]
      BY <1>7, <1>9, <3>1
    <3>3. /\ IsBranch(w[i]) /\ d[1][i + 1] \in DOMAIN heap[w[i].node]
          /\ heap[w[i].node][d[1][i + 1]] = w[i + 1]
      BY <1>8, <2>1
    <3> QED
      BY <3>2, <3>3
  <2>2. CASE i = n
    <3>1. n \in 0..n
      BY <1>1
    <3>2. u[n] = d[2]
      BY <1>8, <1>9, <3>1
    <3> QED
      BY <1>5, <1>7, <1>9, <2>2, <3>2
  <2>3. i \in 0..(n - 1) \/ i = n
    BY <1>1
  <2> QED
    BY <2>1, <2>2, <2>3
<1>12. Way(e, n + 1, u)
  BY <1>9, <1>10, <1>11 DEF Way
<1> QED
  BY <1>12

\* There is a way to every value of the metadata.
LEMMA WayToEach ==
  ASSUME HeapOK
  PROVE  \A n \in 0..Deepest : \A e \in Levels[n] : \E w : Way(e, n, w)
<1> DEFINE S == {n \in 0..Deepest : \A e \in Levels[n] : \E w : Way(e, n, w)}
<1>1. 0 \in S
  <2>1. 0 \in 0..Deepest
    BY DeepestIsNat
  <2>2. LevelOK(0) /\ Levels[0] = {<<(<<>>), Ref(Root)>>}
    BY <2>1, LevelsOK, VisitLevels DEF Levels
  <2>3. ASSUME NEW e \in Levels[0]
        PROVE  \E w : Way(e, 0, w)
    <3> DEFINE w == [i \in 0..0 |-> e[2]]
    <3>1. e = <<e[1], e[2]>> /\ e[1] \in Seq(Steps) /\ Len(e[1]) = 0 /\ e[2] \in Targets
      BY <2>2 DEF LevelOK
    <3>2. SubSeq(e[1], 1, 0) = e[1]
      BY <3>1, SubSeqFull
    <3>3. w \in [0..0 -> Targets] /\ w[0] = e[2]
      BY <3>1
    <3> HIDE DEF w
    <3>4. \A i \in 0..0 : <<SubSeq(e[1], 1, i), w[i]>> \in Levels[i]
      <4>1. <<SubSeq(e[1], 1, 0), w[0]>> = e
        BY <3>1, <3>2, <3>3
      <4> QED
        BY <4>1
    <3>5. Way(e, 0, w)
      BY <3>3, <3>4 DEF Way
    <3> QED
      BY <3>5
  <2> QED
    BY <2>1, <2>3
<1>2. ASSUME NEW n \in 0..(Deepest - 1), n \in S
      PROVE  n + 1 \in S
  <2>1. n \in 0..Deepest /\ n + 1 \in 0..Deepest
    BY DeepestIsNat
  <2>2. LevelOK(n)
    BY <2>1, LevelsOK
  <2>3. ASSUME NEW e \in Levels[n + 1]
        PROVE  \E u : Way(e, n + 1, u)
    <3>1. PICK d \in Levels[n] :
            /\ IsBranch(d[2])
            /\ \E k \in DOMAIN heap[d[2].node] :
                 k \in Steps /\ e = <<Append(d[1], k), heap[d[2].node][k]>>
      BY <2>2, <2>3, EntryOfLevel
    <3>2. PICK k \in DOMAIN heap[d[2].node] :
            k \in Steps /\ e = <<Append(d[1], k), heap[d[2].node][k]>>
      BY <3>1
    <3>3. PICK w : Way(d, n, w)
      BY <1>2
    <3> QED
      BY <2>3, <3>1, <3>2, <3>3, OneStepOfWay
  <2> QED
    BY <2>1, <2>3
<1> HIDE DEF S
<1>3. \A n \in 0..Deepest : n \in S
  BY <1>1, <1>2, DeepestIsNat, InductionTo
<1> QED
  BY <1>3 DEF S

\* A node that contains itself, reached with nothing masked.
Loop ==
  \E outer, inner \in Reached :
    /\ IsStrictPrefix(outer[1], inner[1])
    /\ outer[2] = inner[2] /\ inner[2] # Leaf /\ ~Masks(inner[1])

\* A copy that is as deep as there are nodes and more has come to some node twice.
LEMMA CyclesAreLoops ==
  ASSUME HeapOK, Cyclic(CopyOf)
  PROVE  Loop
<1> DEFINE C == Cardinality(Nodes)
<1>1. C \in Nat /\ Deepest \in Nat /\ C < Deepest /\ Deepest \in 0..Deepest
  BY DeepestIsNat, RootAssumption, FS_CardinalityType
<1> HIDE DEF C
<1>2. PICK c \in Visit(CopyOf)[Deepest] : IsBranch(c[2])
  BY DEF Cyclic
<1>3. Corresponds(Deepest) /\ LevelOK(Deepest)
  BY <1>1, CopyCorresponds, LevelsOK
<1>4. PICK e \in Unmasked(Deepest) : c = <<e[1], Copied(e[1], e[2])>>
  BY <1>2, <1>3 DEF Corresponds
<1>5. e \in Levels[Deepest] /\ e[1] \in Seq(Steps) /\ Len(e[1]) = Deepest /\ e[2] \in Targets
  BY <1>3, <1>4 DEF Unmasked, LevelOK
<1>6. ~Masks(e[1])
  BY <1>2, <1>4 DEF Copied, IsBranch, Redacted
<1>7. PICK w : Way(e, Deepest, w)
  BY <1>1, <1>5, WayToEach
<1>8. /\ w \in [0..Deepest -> Targets]
      /\ \A i \in 0..Deepest : <<SubSeq(e[1], 1, i), w[i]>> \in Levels[i]
      /\ \A i \in 0..(Deepest - 1) : IsBranch(w[i])
  BY <1>7 DEF Way
<1>9. \A i \in 0..C : w[i] # Leaf /\ w[i].node \in Nodes /\ w[i] = Ref(w[i].node)
  <2>1. \A i \in 0..C : i \in 0..(Deepest - 1) /\ i \in 0..Deepest
    BY <1>1
  <2> QED
    BY <1>8, <2>1, TargetKinds
<1> DEFINE f == [i \in 0..C |-> w[i].node]
<1>10. PICK x \in 0..C, y \in 0..C : x # y /\ f[x] = f[y]
  <2>1. IsFiniteSet(0..C) /\ Cardinality(0..C) = C + 1
    BY <1>1, FS_Interval
  <2>2. f \in [0..C -> Nodes]
    BY <1>9
  <2>3. IsFiniteSet(Nodes) /\ Cardinality(Nodes) < Cardinality(0..C)
    BY <1>1, <2>1, RootAssumption DEF C
  <2> HIDE DEF f
  <2> QED
    BY <2>1, <2>2, <2>3, FS_PigeonHole
<1>11. w[x] = w[y]
  BY <1>9, <1>10
<1>12. ASSUME NEW a \in 0..C, NEW b \in 0..C, a < b, w[a] = w[b]
       PROVE  Loop
  <2> DEFINE outer == <<SubSeq(e[1], 1, a), w[a]>>
             inner == <<SubSeq(e[1], 1, b), w[b]>>
  <2>1. a \in 0..Deepest /\ b \in 0..Deepest /\ a \in Nat /\ b \in Nat
    BY <1>1
  <2>2. outer \in Levels[a] /\ inner \in Levels[b]
    BY <1>8, <2>1
  <2>3. \A i \in 0..Deepest : /\ SubSeq(e[1], 1, i) \in Seq(Steps)
                              /\ Len(SubSeq(e[1], 1, i)) = i
                              /\ ~Masks(SubSeq(e[1], 1, i))
    <3> TAKE i \in 0..Deepest
    <3>1. i \in 0..Len(e[1])
      BY <1>5
    <3> QED
      BY <1>5, <1>6, <3>1, MaskedBelow
  <2>4. ~Masks(Front(outer[1])) /\ ~Masks(Front(inner[1])) /\ ~Masks(inner[1])
    BY <2>1, <2>3, UnmaskedAbove
  <2>5. outer \in Unmasked(a) /\ inner \in Unmasked(b)
    BY <2>2, <2>4 DEF Unmasked
  <2>6. outer \in Reached /\ inner \in Reached
    <3> HIDE DEF outer, inner
    <3> QED
      BY <2>1, <2>5, ReachedIs
  <2>7. IsStrictPrefix(outer[1], inner[1])
    <3> DEFINE p == SubSeq(e[1], 1, a)
               q == SubSeq(e[1], 1, b)
    <3>1. p \in Seq(Steps) /\ q \in Seq(Steps) /\ Len(p) = a /\ Len(q) = b
      BY <2>1, <2>3
    <3>2. \A i \in 1..a : p[i] = e[1][i] /\ q[i] = e[1][i]
      BY <1>5, <1>12, <2>1
    <3> HIDE DEF p, q
    <3>3. /\ SubSeq(p, 1, a) \in Seq(Steps) /\ Len(SubSeq(p, 1, a)) = a
          /\ SubSeq(q, 1, a) \in Seq(Steps) /\ Len(SubSeq(q, 1, a)) = a
          /\ \A i \in 1..a : SubSeq(p, 1, a)[i] = p[i] /\ SubSeq(q, 1, a)[i] = q[i]
      BY <1>12, <2>1, <3>1
    <3>4. \A i \in 1..a : SubSeq(p, 1, a)[i] = SubSeq(q, 1, a)[i]
      BY <3>2, <3>3
    <3>5. SubSeq(p, 1, a) = SubSeq(q, 1, a)
      BY <3>3, <3>4, SeqEqual
    <3>6. p # q
      BY <1>12, <2>1, <3>1
    <3>7. IsStrictPrefix(p, q)
      BY <1>12, <2>1, <3>1, <3>5, <3>6 DEF IsStrictPrefix, IsPrefix
    <3> QED
      BY <3>7 DEF p, q
  <2>8. outer[2] = inner[2] /\ inner[2] # Leaf
    BY <1>9, <1>12
  <2> HIDE DEF outer, inner
  <2> QED
    BY <2>4, <2>6, <2>7, <2>8 DEF Loop
<1>13. x < y \/ y < x
  BY <1>1, <1>10
<1> QED
  BY <1>11, <1>12, <1>13

\* A path leads to one value.
LEMMA PathsAreSingle ==
  ASSUME HeapOK
  PROVE  \A n \in 0..Deepest : \A d, e \in Levels[n] : d[1] = e[1] => d = e
<1> DEFINE S == {n \in 0..Deepest : \A d, e \in Levels[n] : d[1] = e[1] => d = e}
<1>1. 0 \in S
  <2>1. Levels[0] = {<<(<<>>), Ref(Root)>>} /\ 0 \in 0..Deepest
    BY DeepestIsNat, VisitLevels DEF Levels
  <2> QED
    BY <2>1
<1>2. ASSUME NEW n \in 0..(Deepest - 1), n \in S
      PROVE  n + 1 \in S
  <2>1. n \in 0..Deepest /\ n + 1 \in 0..Deepest /\ LevelOK(n)
    BY DeepestIsNat, LevelsOK
  <2>2. ASSUME NEW d \in Levels[n + 1], NEW e \in Levels[n + 1], d[1] = e[1]
        PROVE  d = e
    <3>1. PICK a \in Levels[n] :
            /\ IsBranch(a[2])
            /\ \E k \in DOMAIN heap[a[2].node] :
                 k \in Steps /\ d = <<Append(a[1], k), heap[a[2].node][k]>>
      BY <2>1, EntryOfLevel
    <3>2. PICK b \in Levels[n] :
            /\ IsBranch(b[2])
            /\ \E k \in DOMAIN heap[b[2].node] :
                 k \in Steps /\ e = <<Append(b[1], k), heap[b[2].node][k]>>
      BY <2>1, EntryOfLevel
    <3>3. PICK k \in DOMAIN heap[a[2].node] :
            k \in Steps /\ d = <<Append(a[1], k), heap[a[2].node][k]>>
      BY <3>1
    <3>4. PICK l \in DOMAIN heap[b[2].node] :
            l \in Steps /\ e = <<Append(b[1], l), heap[b[2].node][l]>>
      BY <3>2
    <3>5. a[1] \in Seq(Steps) /\ b[1] \in Seq(Steps)
      BY <2>1 DEF LevelOK
    <3>6. Append(a[1], k) = Append(b[1], l)
      BY <2>2, <3>3, <3>4
    <3>7. a[1] = b[1] /\ k = l
      <4>1. k \in Steps /\ l \in Steps
        BY <3>3, <3>4
      <4>2. a[1] = b[1]
        <5>1. Front(Append(a[1], k)) = a[1]
          BY <3>5, <4>1, OneStepMasks
        <5>2. Front(Append(b[1], l)) = b[1]
          BY <3>5, <4>1, OneStepMasks
        <5> QED
          BY <3>6, <5>1, <5>2
      <4>3. /\ Append(a[1], k)[Len(a[1]) + 1] = k
            /\ Append(b[1], l)[Len(b[1]) + 1] = l
        BY <3>5, <4>1, AppendProperties
      <4> QED
        BY <3>6, <4>2, <4>3
    <3>8. a = b
      BY <1>2, <3>7
    <3> QED
      BY <3>3, <3>4, <3>7, <3>8
  <2> QED
    BY <2>1, <2>2
<1> HIDE DEF S
<1>3. \A n \in 0..Deepest : n \in S
  BY <1>1, <1>2, DeepestIsNat, InductionTo
<1> QED
  BY <1>3 DEF S

\* The way round a loop goes on for ever: what does not mask it once never does.
LEMMA LoopsAreCycles ==
  ASSUME HeapOK, Loop
  PROVE  Cyclic(CopyOf)
<1>1. PICK outer \in Reached, inner \in Reached :
        /\ IsStrictPrefix(outer[1], inner[1])
        /\ outer[2] = inner[2] /\ inner[2] # Leaf /\ ~Masks(inner[1])
  BY DEF Loop
<1>2. PICK x \in 0..Deepest : outer \in Unmasked(x)
  BY ReachedIs
<1>3. PICK y \in 0..Deepest : inner \in Unmasked(y)
  BY ReachedIs
<1>4. outer \in Levels[x] /\ inner \in Levels[y]
  BY <1>2, <1>3 DEF Unmasked
<1>5. /\ outer = <<outer[1], outer[2]>> /\ outer[1] \in Seq(Steps) /\ Len(outer[1]) = x
      /\ inner[1] \in Seq(Steps) /\ Len(inner[1]) = y
  <2>1. LevelOK(x) /\ LevelOK(y)
    BY LevelsOK
  <2> QED
    BY <1>4, <2>1 DEF LevelOK
<1> DEFINE p == inner[1]
<1>6. PICK w : Way(inner, y, w)
  BY <1>4, WayToEach
<1>7. /\ w \in [0..y -> Targets] /\ w[y] = inner[2]
      /\ \A i \in 0..y : <<SubSeq(p, 1, i), w[i]>> \in Levels[i]
      /\ \A i \in 0..(y - 1) : /\ IsBranch(w[i]) /\ p[i + 1] \in DOMAIN heap[w[i].node]
                               /\ heap[w[i].node][p[i + 1]] = w[i + 1]
  BY <1>6 DEF Way
<1>8. x <= y /\ SubSeq(outer[1], 1, x) = SubSeq(p, 1, x) /\ outer[1] # p
  BY <1>1, <1>5 DEF IsStrictPrefix, IsPrefix
<1>9. SubSeq(outer[1], 1, x) = outer[1] /\ SubSeq(p, 1, y) = p
  BY <1>5, SubSeqFull
<1>10. x \in Nat /\ y \in Nat /\ x < y /\ x \in 0..y
  <2>1. x # y
    BY <1>8, <1>9
  <2>2. x \in Nat /\ y \in Nat
    BY DeepestIsNat
  <2> QED
    BY <1>8, <2>1, <2>2
<1>11. w[x] = w[y]
  <2>1. <<outer[1], w[x]>> \in Levels[x]
    BY <1>7, <1>8, <1>9, <1>10
  <2>2. <<outer[1], w[x]>> = outer
    BY <1>4, <2>1, PathsAreSingle
  <2>3. w[x] = outer[2]
    BY <2>2
  <2> QED
    BY <1>1, <1>7, <2>3
<1> DEFINE Round(e, l) == ~Masks(e[1]) /\ \E j \in 0..(y - 1) : j <= l /\ e[2] = w[j]
           S == {l \in 0..Deepest : \E e \in Levels[l] : Round(e, l)}
<1>12. 0 \in S
  <2>1. Levels[0] = {<<(<<>>), Ref(Root)>>} /\ 0 \in 0..Deepest
    BY DeepestIsNat, VisitLevels DEF Levels
  <2>2. <<SubSeq(p, 1, 0), w[0]>> \in Levels[0] /\ 0 \in 0..(y - 1)
    BY <1>7, <1>10
  <2>3. SubSeq(p, 1, 0) = <<>> /\ w[0] = Ref(Root)
    BY <2>1, <2>2
  <2>4. Round(<<(<<>>), Ref(Root)>>, 0)
    BY <2>2, <2>3, NothingMasksTheRoot
  <2> HIDE DEF Round
  <2> QED
    BY <2>1, <2>4
<1>13. ASSUME NEW l \in 0..(Deepest - 1), l \in S
       PROVE  l + 1 \in S
  <2>1. l \in 0..Deepest /\ l + 1 \in 0..Deepest /\ LevelOK(l) /\ l \in Nat
    BY DeepestIsNat, LevelsOK
  <2>2. PICK e \in Levels[l] : Round(e, l)
    BY <1>13
  <2>3. PICK j \in 0..(y - 1) : j <= l /\ e[2] = w[j]
    BY <2>2
  <2>4. e[1] \in Seq(Steps) /\ Len(e[1]) = l /\ e[2] \in Targets /\ ~Masks(e[1])
    BY <2>1, <2>2 DEF LevelOK
  <2>5. /\ IsBranch(e[2]) /\ p[j + 1] \in DOMAIN heap[e[2].node]
        /\ heap[e[2].node][p[j + 1]] = w[j + 1]
    BY <1>7, <2>3
  <2> DEFINE k == p[j + 1]
             d == <<Append(e[1], k), w[j + 1]>>
  <2>6. d \in Levels[l + 1]
    <3>1. <<Append(e[1], k), heap[e[2].node][k]>> \in Levels[l + 1]
      BY <2>1, <2>5, LevelOfEntry
    <3> QED
      BY <2>5, <3>1
  <2>7. ~Masks(Append(e[1], k))
    <3>1. k \in Steps
      BY <2>4, <2>5, FieldsOfTarget
    <3>2. ASSUME l <= MaxDepth, NEW word \in SensitiveWords, Spells(k, word)
          PROVE  FALSE
      <4>1. j + 1 \in 1..Len(p) /\ j + 1 <= MaxDepth + 1
        BY <1>5, <1>10, <2>1, <2>3, <3>2, DepthAssumption
      <4> QED
        BY <1>1, <3>2, <4>1 DEF Masks
    <3> QED
      BY <2>4, <3>1, <3>2, OneStepMasks
  <2>8. Round(d, l + 1)
    <3>1. CASE j + 1 < y
      <4>1. j + 1 \in 0..(y - 1) /\ j + 1 <= l + 1
        BY <1>10, <2>1, <2>3, <3>1
      <4> QED
        BY <2>7, <4>1
    <3>2. CASE j + 1 = y
      <4>1. x \in 0..(y - 1) /\ x <= l + 1 /\ w[j + 1] = w[x]
        BY <1>10, <1>11, <2>1, <2>3, <3>2
      <4> QED
        BY <2>7, <4>1
    <3> QED
      BY <1>10, <2>3, <3>1, <3>2
  <2> HIDE DEF Round, d
  <2> QED
    BY <2>1, <2>6, <2>8
<1>14. \A l \in 0..Deepest : l \in S
  <2> HIDE DEF S
  <2> QED
    BY <1>12, <1>13, DeepestIsNat, InductionTo
<1>15. Deepest \in 0..Deepest
  BY DeepestIsNat
<1>16. PICK e \in Levels[Deepest] : Round(e, Deepest)
  BY <1>14, <1>15
<1>17. PICK j \in 0..(y - 1) : e[2] = w[j]
  BY <1>16
<1>18. IsBranch(e[2]) /\ ~Masks(e[1])
  BY <1>7, <1>16, <1>17
<1>19. e[1] \in Seq(Steps) /\ e[2] \in Targets
  BY <1>15, LevelsOK DEF LevelOK
<1>20. e \in Unmasked(Deepest) /\ IsBranch(Copied(e[1], e[2]))
  BY <1>18, <1>19, UnmaskedAbove, CopiedBranch DEF Unmasked
<1>21. Visit(CopyOf)[Deepest] = {<<d[1], Copied(d[1], d[2])>> : d \in Unmasked(Deepest)}
  BY <1>15, CopyCorresponds DEF Corresponds
<1> DEFINE c == <<e[1], Copied(e[1], e[2])>>
<1>22. c \in Visit(CopyOf)[Deepest] /\ IsBranch(c[2])
  BY <1>20, <1>21
<1> HIDE DEF c
<1> QED
  BY <1>22 DEF Cyclic

-----------------------------------------------------------------------------
(* Theorems *)

\* What is written is the copy, and it is not written only when it is cyclic.
IInv ==
  /\ HeapOK
  /\ metadata \in {None, Root}
  /\ rows = <<>> \/ (done /\ \E row : rows = <<row>> /\ (metadata = Root => row = Expected))
  /\ done /\ rows = <<>> /\ ~rejected => metadata = Root /\ Cyclic(CopyOf)
  /\ done /\ metadata = Root /\ rows # <<>> => ~Cyclic(CopyOf)

LEMMA InitInv == Init => IInv
<1> SUFFICES ASSUME Init PROVE IInv
  OBVIOUS
<1>1. heap \in [Nodes -> Objects \cup Arrays] /\ metadata \in {None, Root} /\ rows = <<>> /\ ~done
  BY DEF Init
<1> QED
  BY <1>1 DEF IInv, HeapOK

\* What the heap determines stays while the heap does.
LEMMA SameHeap ==
  ASSUME heap' = heap
  PROVE  /\ Expected' = Expected
         /\ Cyclic(CopyOf)' = Cyclic(CopyOf)
<1>1. \A t : Visit(t)' = Visit(t)
  BY DEF Visit, Below, Fields
<1>2. CopyOf' = CopyOf
  <2>1. redactObject' = redactObject
    BY DEF redactObject, Entry
  <2> QED
    BY <2>1 DEF CopyOf
<1>3. Reached' = Reached
  BY DEF Reached, Everything, Visit, Below, Fields
<1>4. Expected' = Expected
  BY <1>3 DEF Expected, Shown, Fields
<1>5. Cyclic(CopyOf)' = Cyclic(CopyOf)
  BY <1>2 DEF Cyclic, Visit, Below, Fields
<1> QED
  BY <1>4, <1>5

LEMMA StepInv == IInv /\ [Next]_vars => IInv'
<1> SUFFICES ASSUME IInv, [Next]_vars PROVE IInv'
  OBVIOUS
<1>1. CASE UNCHANGED vars
  <2>1. /\ heap' = heap /\ metadata' = metadata /\ rows' = rows
        /\ rejected' = rejected /\ done' = done
    BY <1>1 DEF vars
  <2> QED
    BY <2>1, SameHeap DEF IInv, HeapOK
<1>2. CASE recordAuditEvent
  <2> DEFINE copy == IF metadata = None THEN Copy(<<>>) ELSE redactObject[0][Ref(metadata)]
  <2>1. ~done /\ done' = TRUE /\ heap' = heap /\ metadata' = metadata
    BY <1>2 DEF recordAuditEvent
  <2>2. rows = <<>> /\ HeapOK /\ metadata \in {None, Root}
    BY <2>1 DEF IInv
  <2>3. HeapOK'
    BY <2>1, <2>2 DEF HeapOK
  <2>4. /\ metadata = Root => copy = CopyOf
        /\ metadata = None => copy = Copy(<<>>)
    BY RootAssumption DEF CopyOf
  <2>5. \/ ~Cyclic(copy) /\ rows' = Append(rows, Stringify(copy))
        \/ ~Cyclic(copy) /\ rejected' = TRUE /\ rows' = rows
        \/ Cyclic(copy) /\ rows' = rows
    BY <1>2 DEF recordAuditEvent
  <2> HIDE DEF copy
  <2>6. Expected' = Expected /\ Cyclic(CopyOf)' = Cyclic(CopyOf)
    BY <2>1, SameHeap
  <2>7. CASE ~Cyclic(copy) /\ rows' = Append(rows, Stringify(copy))
    <3>1. rows' = <<Stringify(copy)>>
      BY <2>2, <2>7
    <3>2. metadata = Root => Stringify(copy) = Expected
      BY <2>2, <2>4, CopyIsExpected
    <3>3. rows' # <<>>
      BY <3>1
    <3> QED
      BY <2>1, <2>2, <2>3, <2>4, <2>6, <2>7, <3>1, <3>2, <3>3 DEF IInv
  <2>8. CASE ~Cyclic(copy) /\ rejected' = TRUE /\ rows' = rows
    BY <2>1, <2>2, <2>3, <2>6, <2>8 DEF IInv
  <2>9. CASE Cyclic(copy) /\ rows' = rows
    <3>1. metadata = Root
      BY <2>2, <2>4, <2>9, NoMetadataIsNotCyclic
    <3> QED
      BY <2>1, <2>2, <2>3, <2>4, <2>6, <2>9, <3>1 DEF IInv
  <2> QED
    BY <2>5, <2>7, <2>8, <2>9
<1> QED
  BY <1>1, <1>2 DEF Next

\* The inductive invariant, and so each of its consequences, holds of every graph.
LEMMA Invariance == Spec => []IInv
BY InitInv, StepInv, PTL DEF Spec

\* recordAuditEvent: of every graph of objects and arrays, shared and
\* cyclic ones included, of any keys, words and depth limit, the row written shows the whole
\* metadata, each value at its place, with exactly what lies under a sensitive key masked.
THEOREM RowsAreRedactedCopies == Spec => []RowIsRedactedCopy
<1>1. IInv => RowIsRedactedCopy
  <2> SUFFICES ASSUME IInv, metadata = Root, NEW i \in 1..Len(rows)
               PROVE  rows[i] = Expected
    BY DEF RowIsRedactedCopy, Expected
  <2>1. CASE rows = <<>>
    BY <2>1
  <2>2. CASE rows # <<>>
    <3>1. PICK row : rows = <<row>> /\ (metadata = Root => row = Expected)
      BY <2>2 DEF IInv
    <3> QED
      BY <3>1
  <2> QED
    BY <2>1, <2>2
<1> QED
  BY <1>1, Invariance, PTL

\* A row is missing only if PostgreSQL rejected it or a node contains itself by a way that
\* no key masks: a loop closed by a sensitive key never costs the audit row.
RowLostOnlyToLoops ==
  done /\ rows = <<>> /\ ~rejected =>
    \E outer, inner \in Reached :
      /\ IsStrictPrefix(outer[1], inner[1])
      /\ outer[2] = inner[2] /\ inner[2] # Leaf /\ ~Masks(inner[1])

\* recordAuditEvent writes nothing, and PostgreSQL rejected nothing, only if a node contains
\* itself with nothing masked on the way.  No caller of today builds such metadata.
THEOREM RowsAreLostOnlyToLoops == Spec => []RowLostOnlyToLoops
<1>1. IInv => RowLostOnlyToLoops
  <2> SUFFICES ASSUME IInv, done, rows = <<>>, ~rejected PROVE Loop
    BY DEF RowLostOnlyToLoops, Loop
  <2> QED
    BY CyclesAreLoops DEF IInv
<1> QED
  BY <1>1, Invariance, PTL

\* No row is written of metadata with such a loop.
LoopCostsTheRow == done /\ metadata = Root /\ Loop => rows = <<>>

\* The converse: such a loop always costs the row, however far below the depth limit, although
\* redaction-policy.service.ts:42 says "cycles are bounded by depth".
THEOREM LoopsCostTheRow == Spec => []LoopCostsTheRow
<1>1. IInv => LoopCostsTheRow
  BY LoopsAreCycles DEF IInv, LoopCostsTheRow
<1> QED
  BY <1>1, Invariance, PTL
===============================================================================
