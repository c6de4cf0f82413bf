----------------------- MODULE DecisionPipelineProofs -----------------------
(***************************************************************************)
(* Proofs about DecisionPipeline, for any rule codes, packs, incidents,    *)
(* flags, groups and SLA matrix.  The services are functions of the pack,  *)
(* the incident and the order in which the rules come, so most lemmas are  *)
(* about one state; the induction only carries those functions' values     *)
(* from one stage to the next.                                             *)
(***************************************************************************)
EXTENDS DecisionPipeline, FiniteSetTheorems, WellFoundedInduction, TLAPS

(***************************************************************************)
(* Numbers.  Induction over data is by a least counterexample.             *)
(***************************************************************************)
LEMMA LeastNatural ==
    ASSUME NEW T, T \subseteq Nat, T # {}
    PROVE  \E x \in T : \A y \in T : x <= y
<1>1. PICK x \in T : \A y \in T : ~(<<y, x>> \in OpToRel(<, Nat))
  BY NatLessThanWellFounded, WFMin
<1>2. \A y \in T : ~(y < x)
  BY <1>1 DEF OpToRel
<1> QED
  BY <1>2

\* A number that fails what 0 does has a least one of its kind before it.
LEMMA LeastFailure ==
    ASSUME NEW T \in SUBSET Nat, 0 \in T, NEW n \in Nat,
           \A m \in Nat : m < n /\ m \in T => m + 1 \in T
    PROVE  n \in T
<1> SUFFICES ASSUME n \notin T PROVE FALSE
  OBVIOUS
<1> DEFINE B == {m \in 0..n : m \notin T}
<1>1. B \subseteq Nat /\ n \in B
  OBVIOUS
<1>2. PICK x \in B : \A y \in B : x <= y
  <2> HIDE DEF B
  <2> QED  BY <1>1, LeastNatural
<1>3. x \in 0..n /\ x \notin T /\ x # 0
  BY <1>2
<1>4. x - 1 \in Nat /\ x - 1 < n /\ (x - 1) + 1 = x /\ x - 1 \in 0..n
  BY <1>3
<1>5. x - 1 \in T
  BY <1>2, <1>4
<1> QED
  BY <1>3, <1>4, <1>5

\* A finite list of numbers has a first largest one.
LEMMA FirstLargest ==
    ASSUME NEW n \in Nat, n # 0, NEW k \in [1..n -> Int]
    PROVE  \E i \in 1..n : /\ \A j \in 1..n : k[j] <= k[i]
                           /\ \A j \in 1..(i - 1) : k[j] < k[i]
<1> DEFINE T == {m \in Nat : m = 0 \/ m > n \/
                   \E i \in 1..m : /\ \A j \in 1..m : k[j] <= k[i]
                                   /\ \A j \in 1..(i - 1) : k[j] < k[i]}
<1>1. T \in SUBSET Nat /\ 0 \in T
  OBVIOUS
<1>2. ASSUME NEW m \in Nat, m < n, m \in T PROVE m + 1 \in T
  <2>1. CASE m = 0
    <3>1. 1 \in 1..1 /\ \A j \in 1..1 : j = 1
      OBVIOUS
    <3>2. k[1] \in Int
      OBVIOUS
    <3>3. (\A j \in 1..1 : k[j] <= k[1]) /\ (\A j \in 1..(1 - 1) : k[j] < k[1])
      BY <3>2
    <3> QED
      BY <2>1, <3>3
  <2>2. CASE m # 0
    <3>1. PICK i \in 1..m : /\ \A j \in 1..m : k[j] <= k[i]
                            /\ \A j \in 1..(i - 1) : k[j] < k[i]
      BY <1>2, <2>2
    <3>2. k[m + 1] \in Int /\ k[i] \in Int /\ \A j \in 1..m : k[j] \in Int
      BY <1>2
    <3>3. CASE k[m + 1] <= k[i]
      <4>1. \A j \in 1..(m + 1) : k[j] <= k[i]
        BY <3>1, <3>3
      <4> QED
        BY <3>1, <4>1
    <3>4. CASE ~(k[m + 1] <= k[i])
      <4>1. \A j \in 1..m : k[j] < k[m + 1]
        BY <3>1, <3>2, <3>4
      <4>2. \A j \in 1..(m + 1) : k[j] <= k[m + 1]
        BY <3>2, <4>1
      <4>3. \A j \in 1..((m + 1) - 1) : k[j] < k[m + 1]
        BY <4>1
      <4> QED
        BY <4>2, <4>3
    <3> QED
      BY <3>3, <3>4
  <2> QED
    BY <2>1, <2>2
<1>3. n \in T
  <2> HIDE DEF T
  <2> QED  BY <1>1, <1>2, LeastFailure
<1> QED
  BY <1>3
-----------------------------------------------------------------------------
(***************************************************************************)
(* Lists: what a comprehension keeps.                                      *)
(***************************************************************************)
\* The places of s from which t was taken: in order, and every place of cs.
Places(p, t, s, cs, n) ==
    /\ p \in [1..Len(t) -> 1..n]
    /\ \A k \in 1..Len(t) : t[k] = s[p[k]] /\ s[p[k]] \in cs
    /\ \A k, l \in 1..Len(t) : k < l => p[k] < p[l]
    /\ \A i \in 1..n : s[i] \in cs => \E k \in 1..Len(t) : p[k] = i

\* The recursive function of Among exists.
LEMMA KeptExists ==
    ASSUME NEW s, NEW cs, Len(s) \in Nat
    PROVE  \E g : g = [i \in 0..Len(s) |->
                         IF i = 0 THEN <<>>
                         ELSE IF s[i] \in cs THEN Append(g[i - 1], s[i])
                         ELSE g[i - 1]]
<1> DEFINE Step(g, i) == IF i = 0 THEN <<>>
                         ELSE IF s[i] \in cs THEN Append(g[i - 1], s[i])
                         ELSE g[i - 1]
           T == {m \in Nat : \E g : g = [i \in 0..m |-> Step(g, i)]}
<1>1. T \in SUBSET Nat
  OBVIOUS
<1>2. 0 \in T
  <2>1. PICK g : g = [i \in 0..0 |-> <<>>]
    OBVIOUS
  <2>2. \A i \in 0..0 : Step(g, i) = <<>>
    OBVIOUS
  <2>3. g = [i \in 0..0 |-> Step(g, i)]
    BY <2>1, <2>2
  <2> QED
    BY <2>3
<1>3. ASSUME NEW m \in Nat, m \in T PROVE m + 1 \in T
  <2>1. PICK g : g = [i \in 0..m |-> Step(g, i)]
    BY <1>3
  <2>2. PICK h : h = [i \in 0..(m + 1) |-> IF i = m + 1 THEN Step(g, i) ELSE g[i]]
    OBVIOUS
  <2>3. ASSUME NEW i \in 0..(m + 1) PROVE h[i] = Step(h, i)
    <3>1. i # 0 => i - 1 \in 0..m /\ h[i - 1] = g[i - 1]
      BY <2>2
    <3>2. Step(h, i) = Step(g, i)
      BY <3>1
    <3>3. i \in 0..m => g[i] = Step(g, i)
      <4> HIDE DEF Step
      <4> QED  BY <2>1
    <3> QED
      <4> HIDE DEF Step
      <4> QED  BY <2>2, <3>2, <3>3
  <2>4. h = [i \in 0..(m + 1) |-> Step(h, i)]
    <3> HIDE DEF Step
    <3> QED  BY <2>2, <2>3
  <2> QED
    BY <2>4
<1>4. Len(s) \in T
  <2> HIDE DEF T
  <2> QED  BY <1>1, <1>2, <1>3, LeastFailure
<1> QED
  BY <1>4

LEMMA AmongKept ==
    ASSUME NEW s, NEW cs, Len(s) \in Nat
    PROVE  \E k : /\ Among(s, cs) = k[Len(s)]
                  /\ k[0] = <<>>
                  /\ \A i \in 1..Len(s) :
                       k[i] = IF s[i] \in cs THEN Append(k[i - 1], s[i]) ELSE k[i - 1]
<1> DEFINE Step(g, i) == IF i = 0 THEN <<>>
                         ELSE IF s[i] \in cs THEN Append(g[i - 1], s[i])
                         ELSE g[i - 1]
<1>1. PICK g : g = [i \in 0..Len(s) |-> Step(g, i)]
  BY KeptExists
<1>2. PICK k : /\ k = [i \in 0..Len(s) |-> Step(k, i)]
               /\ Among(s, cs) = k[Len(s)]
  BY <1>1 DEF Among
<1>3. \A i \in 0..Len(s) : k[i] = Step(k, i)
  <2> HIDE DEF Step
  <2> QED  BY <1>2
<1>4. ASSUME NEW i \in 1..Len(s)
      PROVE  k[i] = IF s[i] \in cs THEN Append(k[i - 1], s[i]) ELSE k[i - 1]
  <2>1. i \in 0..Len(s) /\ i # 0
    OBVIOUS
  <2> QED
    BY <1>3, <2>1
<1>5. k[0] = <<>>
  <2>1. 0 \in 0..Len(s) /\ Step(k, 0) = <<>>
    OBVIOUS
  <2> HIDE DEF Step
  <2> QED  BY <1>3, <2>1
<1> QED
  <2> HIDE DEF Step
  <2> QED  BY <1>2, <1>4, <1>5

\* One more element.
LEMMA PlacesStep ==
    ASSUME NEW S, NEW s \in Seq(S), NEW cs, NEW n \in Nat, n < Len(s),
           NEW t \in Seq(S), NEW p, Places(p, t, s, cs, n),
           NEW u, u = IF s[n + 1] \in cs THEN Append(t, s[n + 1]) ELSE t
    PROVE  u \in Seq(S) /\ \E q : Places(q, u, s, cs, n + 1)
<1>0. n + 1 \in 1..Len(s) /\ s[n + 1] \in S
  OBVIOUS
<1>1. CASE s[n + 1] \notin cs
  <2>1. u = t
    BY <1>1
  <2>2. p \in [1..Len(t) -> 1..(n + 1)]
    BY DEF Places
  <2>3. ASSUME NEW i \in 1..(n + 1), s[i] \in cs
        PROVE  \E k \in 1..Len(t) : p[k] = i
    <3>1. i \in 1..n
      BY <1>1, <2>3
    <3> QED
      BY <2>3, <3>1 DEF Places
  <2>4. Places(p, t, s, cs, n + 1)
    BY <2>2, <2>3 DEF Places
  <2> QED
    BY <2>1, <2>4
<1>2. CASE s[n + 1] \in cs
  <2>1. u = Append(t, s[n + 1]) /\ u \in Seq(S)
    BY <1>0, <1>2
  <2>2. PICK m \in Nat : m = Len(t)
    OBVIOUS
  <2>3. Len(u) = m + 1 /\ u[m + 1] = s[n + 1] /\ \A k \in 1..m : u[k] = t[k]
    <3>1. PICK x \in S : x = s[n + 1]
      BY <1>0
    <3>2. u = Append(t, x)
      BY <2>1, <3>1
    <3>3. Len(Append(t, x)) = Len(t) + 1
      OBVIOUS
    <3>4. Append(t, x)[Len(t) + 1] = x
      OBVIOUS
    <3>5. \A k \in 1..Len(t) : Append(t, x)[k] = t[k]
      OBVIOUS
    <3> QED
      BY <2>2, <3>1, <3>2, <3>3, <3>4, <3>5
  <2>4. PICK q : q = [k \in 1..(m + 1) |-> IF k = m + 1 THEN n + 1 ELSE p[k]]
    OBVIOUS
  <2>5. \A k \in 1..m : p[k] \in 1..n /\ q[k] = p[k]
    <3>1. p \in [1..m -> 1..n]
      BY <2>2 DEF Places
    <3>2. \A k \in 1..m : k \in 1..(m + 1) /\ k # m + 1
      OBVIOUS
    <3> QED
      BY <2>4, <3>1, <3>2
  <2>6. q[m + 1] = n + 1
    BY <2>4
  <2>7. q \in [1..(m + 1) -> 1..(n + 1)]
    <3>1. ASSUME NEW k \in 1..(m + 1) PROVE q[k] \in 1..(n + 1)
      <4>1. k = m + 1 \/ k \in 1..m
        OBVIOUS
      <4> QED
        BY <2>5, <2>6, <4>1
    <3> QED
      BY <2>4, <3>1
  <2>8. \A k \in 1..(m + 1) : u[k] = s[q[k]] /\ s[q[k]] \in cs
    BY <1>2, <2>2, <2>3, <2>5, <2>6 DEF Places
  <2>9. ASSUME NEW k \in 1..(m + 1), NEW l \in 1..(m + 1), k < l PROVE q[k] < q[l]
    <3>1. k \in 1..m /\ q[k] = p[k] /\ p[k] \in 1..n
      BY <2>5, <2>9
    <3>2. CASE l = m + 1
      BY <2>6, <3>1, <3>2
    <3>3. CASE l # m + 1
      <4>1. l \in 1..m
        BY <3>3
      <4>2. p[k] < p[l]
        BY <2>2, <2>9, <3>1, <4>1 DEF Places
      <4> QED
        BY <2>5, <3>1, <4>1, <4>2
    <3> QED
      BY <3>2, <3>3
  <2>10. ASSUME NEW i \in 1..(n + 1), s[i] \in cs
         PROVE  \E k \in 1..(m + 1) : q[k] = i
    <3>1. CASE i = n + 1
      BY <2>6, <3>1
    <3>2. CASE i # n + 1
      <4>1. PICK k \in 1..m : p[k] = i
        <5>1. i \in 1..n
          BY <3>2
        <5> QED
          BY <2>2, <2>10, <5>1 DEF Places
      <4>2. k \in 1..(m + 1)
        OBVIOUS
      <4>3. q[k] = i
        BY <2>5, <4>1
      <4> QED
        BY <4>2, <4>3
    <3> QED
      BY <3>1, <3>2
  <2>11. Places(q, u, s, cs, n + 1)
    BY <2>3, <2>7, <2>8, <2>9, <2>10 DEF Places
  <2> QED
    BY <2>1, <2>11
<1> QED
  BY <1>1, <1>2

\* A comprehension takes the elements of cs, from left to right.
LEMMA AmongPlaces ==
    ASSUME NEW S, NEW s \in Seq(S), NEW cs
    PROVE  /\ Among(s, cs) \in Seq(S)
           /\ \E p : Places(p, Among(s, cs), s, cs, Len(s))
<1>0. Len(s) \in Nat
  OBVIOUS
<1>1. PICK k : /\ Among(s, cs) = k[Len(s)]
               /\ k[0] = <<>>
               /\ \A i \in 1..Len(s) :
                    k[i] = IF s[i] \in cs THEN Append(k[i - 1], s[i]) ELSE k[i - 1]
  BY <1>0, AmongKept
<1> DEFINE T == {m \in Nat : k[m] \in Seq(S) /\ \E p : Places(p, k[m], s, cs, m)}
<1>2. 0 \in T
  <2>1. k[0] \in Seq(S) /\ Len(k[0]) = 0
    BY <1>1
  <2>2. PICK p : p = [j \in 1..0 |-> j]
    OBVIOUS
  <2>3. p \in [1..0 -> 1..0]
    BY <2>2
  <2>4. Places(p, k[0], s, cs, 0)
    BY <2>1, <2>3 DEF Places
  <2> QED
    BY <2>1, <2>4
<1>3. ASSUME NEW m \in Nat, m < Len(s), m \in T PROVE m + 1 \in T
  <2>1. PICK p : Places(p, k[m], s, cs, m)
    BY <1>3
  <2>2. PICK t \in Seq(S) : t = k[m]
    BY <1>3
  <2>3. PICK u : u = IF s[m + 1] \in cs THEN Append(t, s[m + 1]) ELSE t
    OBVIOUS
  <2>4. m + 1 \in 1..Len(s) /\ (m + 1) - 1 = m
    BY <1>0, <1>3
  <2>5. k[m + 1] = u
    BY <1>1, <2>2, <2>3, <2>4
  <2>6. Places(p, t, s, cs, m)
    BY <2>1, <2>2
  <2>7. u \in Seq(S) /\ \E q : Places(q, u, s, cs, m + 1)
    BY <1>3, <2>3, <2>6, PlacesStep
  <2> QED
    BY <2>5, <2>7
<1>4. Len(s) \in T
  <2>1. T \in SUBSET Nat
    OBVIOUS
  <2> HIDE DEF T
  <2> QED  BY <1>0, <1>2, <1>3, <2>1, LeastFailure
<1> QED
  BY <1>1, <1>4

LEMMA AmongElements ==
    ASSUME NEW S, NEW s \in Seq(S), NEW cs
    PROVE  Elements(Among(s, cs)) = Elements(s) \cap cs
<1>1. PICK t \in Seq(S) : t = Among(s, cs)
  BY AmongPlaces
<1>2. PICK p : Places(p, t, s, cs, Len(s))
  BY <1>1, AmongPlaces
<1>3. ASSUME NEW c \in Elements(t) PROVE c \in Elements(s) /\ c \in cs
  <2>1. PICK k \in 1..Len(t) : c = t[k]
    BY DEF Elements
  <2> QED
    BY <1>2, <2>1 DEF Places, Elements
<1>4. ASSUME NEW c \in Elements(s), c \in cs PROVE c \in Elements(t)
  <2>1. PICK i \in 1..Len(s) : c = s[i]
    BY DEF Elements
  <2>2. PICK k \in 1..Len(t) : p[k] = i
    BY <1>2, <1>4, <2>1 DEF Places
  <2> QED
    BY <1>2, <2>1, <2>2 DEF Places, Elements
<1> QED
  BY <1>1, <1>3, <1>4

LEMMA ElementsType ==
    ASSUME NEW S, NEW s \in Seq(S)
    PROVE  Elements(s) \subseteq S /\ (s = <<>> <=> Elements(s) = {})
<1>1. Elements(s) \subseteq S
  BY DEF Elements
<1>2. ASSUME s # <<>> PROVE Elements(s) # {}
  <2>1. 1 \in 1..Len(s)
    BY <1>2
  <2> QED
    BY <2>1 DEF Elements
<1>3. ASSUME s = <<>> PROVE Elements(s) = {}
  <2>1. Len(s) = 0
    BY <1>3
  <2> QED
    BY <2>1 DEF Elements
<1> QED
  BY <1>1, <1>2, <1>3

LEMMA AmongEmpty ==
    ASSUME NEW S, NEW s \in Seq(S), NEW cs
    PROVE  Among(s, cs) = <<>> <=> Elements(s) \cap cs = {}
<1>1. PICK t \in Seq(S) : t = Among(s, cs)
  BY AmongPlaces
<1>2. t = <<>> <=> Elements(t) = {}
  BY ElementsType
<1> QED
  BY <1>1, <1>2, AmongElements

-----------------------------------------------------------------------------
(***************************************************************************)
(* The lists of the resolver and the sets of section 3b.                   *)
(***************************************************************************)
Loaded == pack \in Packs /\ incident \in Incidents

LEMMA RuleTypes ==
    ASSUME Loaded, NEW c \in RuleCode
    PROVE  /\ Weight(c) \in Int /\ pack[c].leaves \in Nat
           /\ pack[c].familyOrder \in Nat
           /\ pack[c].floor \in Band \cup {Unknown, Absent}
           /\ \A f \in Field : Does(c, f) \in Value(f) \cup {Absent}
<1>1. IsRule(pack[c])
  BY PipelineConstants DEF Loaded
<1>2. IsActions(pack[c].actions)
  BY <1>1 DEF IsRule
<1>3. \A f \in Field : Does(c, f) \in Value(f) \cup {Absent}
  BY <1>2 DEF IsActions, Does
<1> QED
  BY <1>1, <1>3 DEF IsRule, Weight

LEMMA ValueTypes ==
    /\ Value("priority") = Band \cup {Unknown}
    /\ Value("targetSLA") = Duration
    /\ Value("routeToTeam") = Teams
    /\ \A f \in Flags : Value(f) = BOOLEAN
    /\ \A f \in Field : Absent \notin Value(f)
    /\ Absent \notin Band \cup {Unknown} /\ Absent \notin Groups
<1>1. \A f \in Flags : f \notin {"priority", "targetSLA", "routeToTeam"}
  BY PipelineConstants
<1>2. "priority" \in Field
  BY DEF Field
<1>3. Value("priority") = Band \cup {Unknown}
  BY DEF Value
<1>4. \A f \in Field : Absent \notin Value(f)
  BY PipelineConstants
<1>5. Value("targetSLA") = Duration
  BY DEF Value
<1>6. Value("routeToTeam") = Teams
  BY DEF Value
<1>7. \A f \in Flags : Value(f) = BOOLEAN
  BY <1>1 DEF Value
<1> QED
  BY <1>2, <1>3, <1>4, <1>5, <1>6, <1>7, PipelineConstants

\* A list of all active rules, each once.
LEMMA OrderIs ==
    ASSUME NEW s \in Orders
    PROVE  /\ s \in Seq(RuleCode) /\ Elements(s) = ActiveCodes
           /\ \A i, j \in 1..Len(s) : s[i] = s[j] => i = j
           /\ \A i, j \in 1..Len(s) : i < j => Before(s[i], s[j])
<1>1. IsFiniteSet(ActiveCodes) /\ ActiveCodes \subseteq RuleCode
  <2>1. ActiveCodes \in SUBSET RuleCode
    BY DEF ActiveCodes
  <2> QED
    BY <2>1, PipelineConstants, FS_Subset
<1>2. PICK n \in Nat : n = Cardinality(ActiveCodes)
  BY <1>1, FS_CardinalityType
<1>3. /\ s \in [1..n -> ActiveCodes] /\ Elements(s) = ActiveCodes
      /\ \A i, j \in DOMAIN s : i < j => Before(s[i], s[j])
  BY <1>2 DEF Orders
<1>4. s \in Seq(RuleCode) /\ Len(s) = n
  BY <1>1, <1>3
<1>5. s \in Surjection(1..n, ActiveCodes)
  BY <1>3, <1>4 DEF Surjection, Elements
<1>6. IsFiniteSet(1..n) /\ Cardinality(1..n) = n
  BY FS_Interval
<1>7. s \in Injection(1..n, ActiveCodes)
  BY <1>2, <1>5, <1>6, FS_SurjSameCardinalityImpliesInj
<1>8. \A i, j \in 1..n : s[i] = s[j] => i = j
  BY <1>7 DEF Injection, IsInjective
<1> QED
  BY <1>3, <1>4, <1>8

LEMMA MatchedIs ==
    ASSUME NEW s \in Orders
    PROVE  /\ Matched(s) \in Seq(RuleCode)
           /\ Elements(Matched(s)) = MatchedSet
<1>1. s \in Seq(RuleCode) /\ Elements(s) = ActiveCodes
  BY OrderIs
<1>2. PICK cs : cs = {c \in RuleCode : /\ ~pack[c].compliance
                                      /\ ~incident.outcome[c].vetoed
                                      /\ incident.outcome[c].met}
  OBVIOUS
<1>3. Matched(s) = Among(s, cs)
  BY <1>2 DEF Matched
<1>4. Among(s, cs) \in Seq(RuleCode) /\ Elements(Among(s, cs)) = ActiveCodes \cap cs
  BY <1>1, AmongPlaces, AmongElements
<1>5. ActiveCodes \cap cs = MatchedSet
  BY <1>2 DEF ActiveCodes, MatchedSet
<1> QED
  BY <1>3, <1>4, <1>5

LEMMA WritersAre ==
    ASSUME NEW s \in Orders, NEW f
    PROVE  /\ Writers(f, s) \in Seq(RuleCode)
           /\ Elements(Writers(f, s)) = WriterSet(f)
           /\ WriterSet(f) \subseteq RuleCode
<1>1. Matched(s) \in Seq(RuleCode) /\ Elements(Matched(s)) = MatchedSet
  BY MatchedIs
<1>2. PICK cs : cs = {c \in RuleCode : Does(c, f) # Absent}
  OBVIOUS
<1>3. Writers(f, s) = Among(Matched(s), cs)
  BY <1>2 DEF Writers
<1>4. /\ Among(Matched(s), cs) \in Seq(RuleCode)
      /\ Elements(Among(Matched(s), cs)) = MatchedSet \cap cs
  BY <1>1, AmongPlaces, AmongElements
<1>5. MatchedSet \cap cs = WriterSet(f)
  BY <1>2 DEF ActiveCodes, MatchedSet, WriterSet
<1> QED
  BY <1>2, <1>3, <1>4, <1>5

LEMMA SuppressorsAre ==
    ASSUME NEW s \in Orders, NEW f
    PROVE  /\ Suppressors(Writers(f, s)) \in Seq(RuleCode)
           /\ Elements(Suppressors(Writers(f, s))) = SuppressorSet(f)
           /\ Suppressors(Writers(f, s)) = <<>> <=> SuppressorSet(f) = {}
           /\ Silenced(Writers(f, s)) <=> SuppressorSet(f) # {} /\ ~Immune(f)
<1>1. PICK w \in Seq(RuleCode) : w = Writers(f, s) /\ Elements(w) = WriterSet(f)
  BY WritersAre
<1>2. PICK cs : cs = {c \in RuleCode : pack[c].suppressor}
  OBVIOUS
<1>3. Suppressors(w) = Among(w, cs)
  BY <1>2 DEF Suppressors
<1>4. /\ Among(w, cs) \in Seq(RuleCode)
      /\ Elements(Among(w, cs)) = WriterSet(f) \cap cs
      /\ Among(w, cs) = <<>> <=> WriterSet(f) \cap cs = {}
  BY <1>1, AmongPlaces, AmongElements, AmongEmpty
<1>5. WriterSet(f) \cap cs = SuppressorSet(f)
  BY <1>2, WritersAre DEF SuppressorSet
<1>6. /\ Suppressors(w) \in Seq(RuleCode) /\ Elements(Suppressors(w)) = SuppressorSet(f)
      /\ Suppressors(w) = <<>> <=> SuppressorSet(f) = {}
  BY <1>3, <1>4, <1>5
<1>7. Silenced(w) <=> SuppressorSet(f) # {} /\ ~Immune(f)
  BY <1>1, <1>6 DEF Silenced, Immune
<1> QED
  BY <1>1, <1>6, <1>7

\* max(rules, key=priority_weight)
LEMMA FirstHeaviest ==
    ASSUME Loaded, NEW t \in Seq(RuleCode), t # <<>>
    PROVE  \E i \in 1..Len(t) :
             /\ FirstBest(t, Weight) = t[i]
             /\ \A j \in 1..Len(t) : Weight(t[j]) <= Weight(t[i])
             /\ \A j \in 1..(i - 1) : Weight(t[j]) < Weight(t[i])
<1>1. PICK n \in Nat : n = Len(t) /\ n # 0
  OBVIOUS
<1>2. PICK k : k = [j \in 1..n |-> Weight(t[j])]
  OBVIOUS
<1>3. k \in [1..n -> Int]
  BY <1>1, <1>2, RuleTypes
<1>4. PICK i \in 1..n : /\ \A j \in 1..n : k[j] <= k[i]
                        /\ \A j \in 1..(i - 1) : k[j] < k[i]
  BY <1>1, <1>3, FirstLargest
<1>5. \A j \in 1..n : k[j] = Weight(t[j])
  BY <1>2
<1>6. \A j \in 1..(i - 1) : j \in 1..n
  OBVIOUS
<1>7. \E x \in 1..Len(t) : /\ \A j \in 1..Len(t) : Weight(t[j]) <= Weight(t[x])
                           /\ \A j \in 1..(x - 1) : Weight(t[j]) < Weight(t[x])
  BY <1>1, <1>4, <1>5, <1>6
<1> QED
  BY <1>7 DEF FirstBest

LEMMA FirstHeaviestIn ==
    ASSUME Loaded, NEW t \in Seq(RuleCode), t # <<>>
    PROVE  FirstBest(t, Weight) \in Heaviest(Elements(t))
<1>1. PICK i \in 1..Len(t) : /\ FirstBest(t, Weight) = t[i]
                             /\ \A j \in 1..Len(t) : Weight(t[j]) <= Weight(t[i])
  BY FirstHeaviest
<1>2. \A d \in Elements(t) : d \in RuleCode /\ Weight(d) \in Int
  BY RuleTypes DEF Elements
<1>3. t[i] \in Elements(t)
  BY DEF Elements
<1>4. ASSUME NEW d \in Elements(t) PROVE Weight(t[i]) >= Weight(d)
  <2>1. PICK j \in 1..Len(t) : d = t[j]
    BY DEF Elements
  <2> QED
    BY <1>1, <1>2, <1>3, <2>1
<1> QED
  BY <1>1, <1>3, <1>4 DEF Heaviest

\* _apply_suppression: one suppressor, or the survivors.
LEMMA EffectiveIs ==
    ASSUME Loaded, NEW s \in Orders, NEW f
    PROVE  /\ Effective(f, s) \in Seq(RuleCode)
           /\ Elements(Effective(f, s)) \subseteq WriterSet(f)
           /\ SuppressorSet(f) # {} /\ ~Immune(f) =>
                LET w == FirstBest(Suppressors(Writers(f, s)), Weight)
                IN /\ Effective(f, s) = <<w>> /\ Elements(Effective(f, s)) = {w}
                   /\ w \in Heaviest(SuppressorSet(f))
           /\ ~(SuppressorSet(f) # {} /\ ~Immune(f)) =>
                Elements(Effective(f, s)) = Survivors(f)
<1>1. PICK w \in Seq(RuleCode) : w = Writers(f, s) /\ Elements(w) = WriterSet(f)
  BY WritersAre
<1>2. WriterSet(f) \subseteq RuleCode
  BY WritersAre
<1>3. PICK u \in Seq(RuleCode) : u = Suppressors(w) /\ Elements(u) = SuppressorSet(f)
  BY <1>1, SuppressorsAre
<1>4. /\ u = <<>> <=> SuppressorSet(f) = {}
      /\ Silenced(w) <=> SuppressorSet(f) # {} /\ ~Immune(f)
  BY <1>1, <1>3, SuppressorsAre
<1>5. SuppressorSet(f) \subseteq WriterSet(f)
  BY DEF SuppressorSet
<1>6. CASE SuppressorSet(f) # {} /\ ~Immune(f)
  <2>1. FirstBest(u, Weight) \in Heaviest(SuppressorSet(f))
    BY <1>3, <1>4, <1>6, FirstHeaviestIn
  <2>2. PICK c : c = FirstBest(u, Weight)
    OBVIOUS
  <2>3. c \in SuppressorSet(f) /\ c \in WriterSet(f) /\ c \in RuleCode
    BY <1>2, <1>5, <2>1, <2>2 DEF Heaviest
  <2>4. Effective(f, s) = <<FirstBest(u, Weight)>>
    BY <1>1, <1>3, <1>4, <1>6 DEF Effective
  <2>5. Effective(f, s) = <<c>>
    BY <2>2, <2>4
  <2>6. <<c>> \in Seq(RuleCode) /\ Elements(<<c>>) = {c}
    BY <2>3 DEF Elements
  <2>7. c = FirstBest(Suppressors(Writers(f, s)), Weight)
    BY <1>1, <1>3, <2>2
  <2> QED
    BY <1>6, <2>1, <2>2, <2>3, <2>5, <2>6, <2>7
<1>7. CASE SuppressorSet(f) = {}
  <2>1. Effective(f, s) = w
    BY <1>1, <1>3, <1>4, <1>7 DEF Effective
  <2>2. Survivors(f) = WriterSet(f)
    BY <1>7 DEF Survivors
  <2> QED
    BY <1>1, <1>7, <2>1, <2>2
<1>8. CASE SuppressorSet(f) # {} /\ Immune(f)
  <2>1. PICK cs : cs = {c \in RuleCode : ~pack[c].suppressor}
    OBVIOUS
  <2>2. Effective(f, s) = Among(w, cs)
    BY <1>1, <1>3, <1>4, <1>8, <2>1 DEF Effective
  <2>3. Among(w, cs) \in Seq(RuleCode) /\ Elements(Among(w, cs)) = WriterSet(f) \cap cs
    BY <1>1, AmongPlaces, AmongElements
  <2>4. WriterSet(f) \cap cs = Survivors(f)
    BY <1>2, <1>8, <2>1 DEF Survivors, SuppressorSet
  <2> QED
    BY <1>8, <2>2, <2>3, <2>4
<1> QED
  BY <1>6, <1>7, <1>8

\* The elements of a list of rules, and the heaviest of them, are ranked.
LEMMA HeavyExists ==
    ASSUME Loaded, NEW e \in Seq(RuleCode), e # <<>>
    PROVE  \E c \in Elements(e) : \A d \in Elements(e) : Weight(d) <= Weight(c)
<1>1. FirstBest(e, Weight) \in Heaviest(Elements(e))
  BY FirstHeaviestIn
<1>2. PICK c : c = FirstBest(e, Weight)
  OBVIOUS
<1>3. c \in Elements(e) /\ \A d \in Elements(e) : Weight(c) >= Weight(d)
  BY <1>1, <1>2 DEF Heaviest
<1>4. \A d \in Elements(e) : Weight(d) \in Int
  BY RuleTypes, ElementsType
<1> QED
  BY <1>3, <1>4

LEMMA NarrowExists ==
    ASSUME Loaded, NEW e \in Seq(RuleCode), NEW H, H \subseteq Elements(e), H # {}
    PROVE  \E c \in H : \A d \in H : pack[d].leaves <= pack[c].leaves
<1>1. PICK n \in Nat : n = Len(e)
  OBVIOUS
<1>2. \A j \in 1..n : e[j] \in RuleCode
  BY <1>1
<1>3. PICK k : k = [j \in 1..n |-> IF e[j] \in H THEN pack[e[j]].leaves ELSE -1]
  OBVIOUS
<1>4. k \in [1..n -> Int]
  <2>1. \A j \in 1..n : pack[e[j]].leaves \in Int
    BY <1>2, RuleTypes
  <2> QED
    BY <1>3, <2>1
<1>5. PICK c \in H : TRUE
  OBVIOUS
<1>6. PICK j \in 1..n : c = e[j]
  BY <1>1 DEF Elements
<1>7. PICK i \in 1..n : \A l \in 1..n : k[l] <= k[i]
  <2>1. n # 0
    BY <1>6
  <2>2. PICK i \in 1..n : /\ \A l \in 1..n : k[l] <= k[i]
                          /\ \A l \in 1..(i - 1) : k[l] < k[i]
    BY <1>4, <2>1, FirstLargest
  <2> QED
    BY <2>2
<1>8. k[j] = pack[c].leaves /\ pack[c].leaves \in Nat
  BY <1>2, <1>3, <1>5, <1>6, RuleTypes
<1>9. e[i] \in H
  <2>1. k[i] >= 0
    BY <1>4, <1>7, <1>8
  <2> QED
    BY <1>3, <2>1
<1>10. ASSUME NEW d \in H PROVE pack[d].leaves <= pack[e[i]].leaves
  <2>1. PICK l \in 1..n : d = e[l]
    BY <1>1 DEF Elements
  <2>2. k[l] = pack[d].leaves /\ k[i] = pack[e[i]].leaves
    BY <1>3, <1>9, <2>1
  <2> QED
    BY <1>7, <2>2
<1> QED
  BY <1>9, <1>10

\* _resolve_conflict_group: the winner outranks every other rule.
LEMMA GroupWinnerOutranks ==
    ASSUME Loaded, NEW e \in Seq(RuleCode), e # <<>>
    PROVE  /\ GroupWinner(e) \in Elements(e)
           /\ \A d \in Elements(e) \ {GroupWinner(e)} : Outranks(GroupWinner(e), d)
<1>1. PICK heavy : heavy = {c \in Elements(e) :
                             \A d \in Elements(e) : Weight(d) <= Weight(c)}
  OBVIOUS
<1>2. heavy # {} /\ heavy \subseteq Elements(e)
  BY <1>1, HeavyExists
<1>3. PICK narrow : narrow = {c \in heavy :
                               \A d \in heavy : pack[d].leaves <= pack[c].leaves}
  OBVIOUS
<1>4. narrow # {} /\ narrow \subseteq heavy
  BY <1>2, <1>3, NarrowExists
<1>5. Elements(e) \subseteq RuleCode /\ RuleCode \subseteq Nat
  BY ElementsType, PipelineConstants
<1>6. PICK m \in narrow : \A y \in narrow : m <= y
  <2>1. narrow \subseteq Nat
    BY <1>2, <1>4, <1>5
  <2> QED
    BY <1>4, <2>1, LeastNatural
<1>7. Min(narrow) \in narrow /\ \A y \in narrow : Min(narrow) <= y
  BY <1>6 DEF Min
<1>8. GroupWinner(e) = Min(narrow)
  BY <1>1, <1>3 DEF GroupWinner
<1>9. PICK w : w = GroupWinner(e)
  OBVIOUS
<1>10. w \in narrow /\ w \in heavy /\ w \in Elements(e) /\ \A y \in narrow : w <= y
  BY <1>2, <1>4, <1>7, <1>8, <1>9
<1>11. ASSUME NEW d \in Elements(e), d # w PROVE Outranks(w, d)
  <2>1. /\ Weight(d) \in Int /\ Weight(w) \in Int
        /\ pack[d].leaves \in Nat /\ pack[w].leaves \in Nat /\ d \in Nat /\ w \in Nat
    BY <1>5, <1>10, RuleTypes
  <2>2. Weight(d) <= Weight(w)
    BY <1>1, <1>10
  <2>3. CASE Weight(d) = Weight(w)
    <3>1. d \in heavy
      BY <1>1, <1>10, <2>3
    <3>2. pack[d].leaves <= pack[w].leaves
      BY <1>3, <1>10, <3>1
    <3>3. pack[d].leaves = pack[w].leaves => d \in narrow
      BY <1>3, <1>10, <3>1
    <3>4. pack[d].leaves = pack[w].leaves => w < d
      BY <1>10, <1>11, <2>1, <3>3
    <3> QED
      BY <2>1, <2>3, <3>2, <3>4 DEF Outranks
  <2>4. CASE Weight(d) # Weight(w)
    BY <2>1, <2>2, <2>4 DEF Outranks
  <2> QED
    BY <2>3, <2>4
<1> QED
  BY <1>9, <1>10, <1>11

\* _merge_field, field by field.
LEMMA MergedPriority ==
    ASSUME Loaded, NEW e \in Seq(RuleCode), e # <<>>,
           \A c \in Elements(e) : Does(c, "priority") # Absent
    PROVE  LET v == MergedField("priority", e)
           IN /\ \E c \in Elements(e) : Does(c, "priority") = v
              /\ \A c \in Elements(e) : Does(c, "priority") <= v
<1>1. PICK V : V = {Does(c, "priority") : c \in Elements(e)}
  OBVIOUS
<1>2. V \subseteq 0..4
  <2>1. ASSUME NEW c \in Elements(e) PROVE Does(c, "priority") \in 0..4
    <3>1. c \in RuleCode /\ "priority" \in Field
      BY ElementsType DEF Field
    <3>2. Does(c, "priority") \in Value("priority")
      BY <3>1, RuleTypes
    <3> QED
      BY <3>2, ValueTypes DEF Band, Unknown
  <2> QED
    BY <1>1, <2>1
<1>3. V # {}
  BY <1>1, ElementsType
<1>4. \E x \in V : \A y \in V : x >= y
  <2>1. PICK T : T = {4 - y : y \in V}
    OBVIOUS
  <2>2. T \subseteq Nat /\ T # {}
    <3>1. \A y \in V : 4 - y \in Nat
      BY <1>2
    <3> QED
      BY <1>3, <2>1, <3>1
  <2>3. PICK z \in T : \A y \in T : z <= y
    BY <2>2, LeastNatural
  <2>4. PICK x \in V : z = 4 - x
    BY <2>1
  <2>5. \A y \in V : 4 - y \in T
    BY <2>1
  <2>6. \A y \in V : x >= y
    BY <1>2, <2>3, <2>4, <2>5
  <2> QED
    BY <2>6
<1>5. Max(V) \in V /\ \A y \in V : Max(V) >= y
  BY <1>4 DEF Max
<1>6. MergedField("priority", e) = Max(V)
  BY <1>1, PipelineConstants DEF MergedField
<1>7. PICK v : v = Max(V)
  OBVIOUS
<1>8. \E c \in Elements(e) : Does(c, "priority") = v
  BY <1>1, <1>5, <1>7
<1>9. ASSUME NEW c \in Elements(e) PROVE Does(c, "priority") <= v
  <2>1. Does(c, "priority") \in V
    BY <1>1
  <2> QED
    BY <1>2, <1>5, <1>7, <2>1
<1>10. v = MergedField("priority", e)
  BY <1>6, <1>7
<1> QED
  BY <1>8, <1>9, <1>10

LEMMA MinutesType ==
    ASSUME NEW d \in Duration
    PROVE  Minutes(d) \in Nat
  BY DEF Minutes, Duration

LEMMA MergedTarget ==
    ASSUME Loaded, NEW e \in Seq(RuleCode), e # <<>>,
           \A c \in Elements(e) : Does(c, "targetSLA") # Absent
    PROVE  LET v == MergedField("targetSLA", e)
           IN /\ \E c \in Elements(e) : Does(c, "targetSLA") = v
              /\ \A c \in Elements(e) : Minutes(Does(c, "targetSLA")) >= Minutes(v)
<1>1. \A c \in Elements(e) : Does(c, "targetSLA") \in Duration
  <2>1. Elements(e) \subseteq RuleCode /\ "targetSLA" \in Field
    BY ElementsType DEF Field
  <2> QED
    BY <2>1, RuleTypes, ValueTypes
<1>2. \A c \in Elements(e) : Minutes(Does(c, "targetSLA")) \in Nat
  BY <1>1, MinutesType
<1>3. PICK n \in Nat : n = Len(e) /\ n # 0
  OBVIOUS
<1>4. \A j \in 1..n : e[j] \in Elements(e)
  BY <1>3 DEF Elements
<1>5. PICK k : k = [j \in 1..n |-> -Minutes(Does(e[j], "targetSLA"))]
  OBVIOUS
<1>6. k \in [1..n -> Int]
  BY <1>2, <1>4, <1>5
<1>7. PICK i \in 1..n : /\ \A j \in 1..n : k[j] <= k[i]
                        /\ \A j \in 1..(i - 1) : k[j] < k[i]
  BY <1>3, <1>6, FirstLargest
<1>8. /\ \A j \in 1..n : k[j] = -Minutes(Does(e[j], "targetSLA"))
      /\ \A j \in 1..(i - 1) : j \in 1..n
  BY <1>5
<1>9. \E x \in 1..Len(e) :
        /\ \A j \in 1..Len(e) : -Minutes(Does(e[j], "targetSLA"))
                                  <= -Minutes(Does(e[x], "targetSLA"))
        /\ \A j \in 1..(x - 1) : -Minutes(Does(e[j], "targetSLA"))
                                   < -Minutes(Does(e[x], "targetSLA"))
  BY <1>3, <1>7, <1>8
<1>10. PICK x \in 1..Len(e) :
         /\ MergedField("targetSLA", e) = Does(e[x], "targetSLA")
         /\ \A j \in 1..Len(e) : -Minutes(Does(e[j], "targetSLA"))
                                   <= -Minutes(Does(e[x], "targetSLA"))
  BY <1>9, PipelineConstants DEF MergedField, FirstBest
<1>11. e[x] \in Elements(e)
  BY DEF Elements
<1>12. ASSUME NEW c \in Elements(e)
       PROVE  Minutes(Does(c, "targetSLA")) >= Minutes(Does(e[x], "targetSLA"))
  <2>1. PICK j \in 1..Len(e) : c = e[j]
    BY DEF Elements
  <2> QED
    BY <1>2, <1>10, <1>11, <2>1
<1> QED
  BY <1>10, <1>11, <1>12

LEMMA MergedFlag ==
    ASSUME NEW e, NEW f \in Flags
    PROVE  MergedField(f, e) = \E c \in Elements(e) : Does(c, f)
<1>1. f \notin {"priority", "targetSLA", "routeToTeam"}
  BY PipelineConstants
<1> QED
  BY <1>1 DEF MergedField

LEMMA MergedTeam ==
    ASSUME Loaded, NEW e \in Seq(RuleCode), e # <<>>
    PROVE  \E c \in Heaviest(Elements(e)) :
             Does(c, "routeToTeam") = MergedField("routeToTeam", e)
<1>1. "routeToTeam" \notin Flags
  BY PipelineConstants
<1>2. FirstBest(e, Weight) \in Heaviest(Elements(e))
  BY FirstHeaviestIn
<1>3. MergedField("routeToTeam", e) = Does(FirstBest(e, Weight), "routeToTeam")
  BY <1>1 DEF MergedField
<1> QED
  BY <1>2, <1>3

\* A merged value is the value of one of the rules.
LEMMA MergedIsWritten ==
    ASSUME Loaded, NEW e \in Seq(RuleCode), e # <<>>, NEW f \in Field,
           \A c \in Elements(e) : Does(c, f) # Absent
    PROVE  \E c \in Elements(e) : Does(c, f) = MergedField(f, e)
<1>1. CASE f = "priority"
  BY <1>1, MergedPriority
<1>2. CASE f = "targetSLA"
  BY <1>2, MergedTarget
<1>3. CASE f = "routeToTeam"
  BY <1>3, MergedTeam DEF Heaviest
<1>4. CASE f \in Flags
  <2>1. \A c \in Elements(e) : Does(c, f) \in BOOLEAN
    BY <1>4, RuleTypes, ValueTypes, ElementsType
  <2>2. MergedField(f, e) = \E c \in Elements(e) : Does(c, f)
    BY <1>4, MergedFlag
  <2>3. PICK d : d \in Elements(e)
    BY ElementsType
  <2>4. CASE \E c \in Elements(e) : Does(c, f)
    <3>1. PICK c \in Elements(e) : Does(c, f)
      BY <2>4
    <3> QED
      BY <2>1, <2>2, <3>1, Zenon
  <2>5. CASE ~\E c \in Elements(e) : Does(c, f)
    <3>1. Does(d, f) = FALSE
      BY <2>1, <2>3, <2>5, Zenon
    <3> QED
      BY <2>2, <2>3, <2>5, <3>1, Zenon
  <2> QED
    BY <2>4, <2>5
<1> QED
  BY <1>1, <1>2, <1>3, <1>4 DEF Field

-----------------------------------------------------------------------------
(***************************************************************************)
(* What a field is given.                                                  *)
(***************************************************************************)
\* A decided value is written by a rule that is not listed as suppressed.
LEMMA FieldValueIsWritten ==
    ASSUME Loaded, NEW s \in Orders, NEW f \in Field, FieldValue(f, s) # Absent
    PROVE  \E c \in WriterSet(f) : Does(c, f) = FieldValue(f, s) /\ c \notin Losers(f, s)
<1>1. PICK e \in Seq(RuleCode) : e = Effective(f, s) /\ Elements(e) \subseteq WriterSet(f)
  BY EffectiveIs
<1>2. e # <<>>
  BY <1>1 DEF FieldValue
<1>3. \A c \in Elements(e) : Does(c, f) # Absent
  BY <1>1 DEF WriterSet
<1>4. CASE Agree(f, e)
  <2>1. e[1] \in Elements(e)
    BY <1>2 DEF Elements
  <2>2. FieldValue(f, s) = Does(e[1], f)
    BY <1>1, <1>2, <1>4 DEF FieldValue
  <2>3. e[1] \notin Losers(f, s)
    BY <1>1, <1>4, <2>1 DEF Losers
  <2> QED
    BY <1>1, <2>1, <2>2, <2>3
<1>5. CASE ~Agree(f, e) /\ OneGroup(e)
  <2>1. GroupWinner(e) \in Elements(e)
    BY <1>2, GroupWinnerOutranks
  <2>2. FieldValue(f, s) = Does(GroupWinner(e), f)
    BY <1>1, <1>2, <1>5 DEF FieldValue
  <2>3. GroupWinner(e) \notin Losers(f, s)
    BY <1>1, <1>5, <2>1 DEF Losers
  <2> QED
    BY <1>1, <2>1, <2>2, <2>3
<1>6. CASE ~Agree(f, e) /\ ~OneGroup(e)
  <2>1. PICK c \in Elements(e) : Does(c, f) = MergedField(f, e)
    BY <1>2, <1>3, MergedIsWritten
  <2>2. FieldValue(f, s) = MergedField(f, e)
    BY <1>1, <1>2, <1>6 DEF FieldValue
  <2>3. c \notin Losers(f, s)
    BY <1>1, <1>6 DEF Losers
  <2> QED
    BY <1>1, <2>1, <2>2, <2>3
<1> QED
  BY <1>4, <1>5, <1>6

LEMMA LosersWrote ==
    ASSUME Loaded, NEW s \in Orders, NEW f
    PROVE  Losers(f, s) \subseteq WriterSet(f)
<1>1. Elements(Writers(f, s)) = WriterSet(f) /\ Elements(Effective(f, s)) \subseteq WriterSet(f)
  BY WritersAre, EffectiveIs
<1> QED
  BY <1>1 DEF Losers

\* A resolution whose targets can be merged fails over bands only.
LEMMA RaisesOnBands ==
    ASSUME Loaded, NEW s \in Orders, Raises(s), ~CannotMerge(s)
    PROVE  \E c \in MatchedSet : pack[c].floor = Unknown \/ Does(c, "priority") = Unknown
<1>1. Elements(Matched(s)) = MatchedSet /\ MatchedSet \subseteq RuleCode
  BY MatchedIs DEF MatchedSet, ActiveCodes
<1>2. CASE Floors(s) # {} /\ Floors(s) \cap Band = {}
  <2>1. PICK c \in MatchedSet : pack[c].floor # Absent /\ pack[c].floor \in Floors(s)
    BY <1>1, <1>2 DEF Floors
  <2>2. pack[c].floor \in Band \cup {Unknown, Absent}
    BY <1>1, RuleTypes
  <2> QED
    BY <1>2, <2>1, <2>2
<1>3. CASE ~(Floors(s) # {} /\ Floors(s) \cap Band = {})
  <2>1. Current(s) = Unknown
    BY <1>3 DEF Raises, OutOfBand
  <2>2. Unknown # 1 /\ Unknown # Absent
    BY ValueTypes DEF Unknown
  <2>3. FieldValue("priority", s) = Unknown
    BY <2>1, <2>2 DEF Current
  <2>4. "priority" \in Field
    BY DEF Field
  <2>5. PICK c \in WriterSet("priority") : Does(c, "priority") = Unknown
    BY <2>2, <2>3, <2>4, FieldValueIsWritten
  <2> QED
    BY <2>5 DEF WriterSet
<1> QED
  BY <1>2, <1>3

\* Targets that cannot be merged are the survivors' own, differ, and are in
\* no conflict group together.
LEMMA UnmergedAreContested ==
    ASSUME Loaded, NEW s \in Orders, CannotMerge(s)
    PROVE  /\ \E c, d \in Survivors("targetSLA") :
                 /\ ~Readable(Does(c, "targetSLA"))
                 /\ Does(d, "targetSLA") # Does(c, "targetSLA")
           /\ ~\E g \in Groups : \A c \in Survivors("targetSLA") : pack[c].group = g
<1>1. PICK e : e = Effective("targetSLA", s)
  OBVIOUS
<1>2. /\ ~Agree("targetSLA", e) /\ ~OneGroup(e)
      /\ \E c \in Elements(e) : ~Readable(Does(c, "targetSLA"))
  BY <1>1 DEF CannotMerge
<1>3. PICK a, b \in Elements(e) : Does(a, "targetSLA") # Does(b, "targetSLA")
  BY <1>2 DEF Agree
<1>4. ~(SuppressorSet("targetSLA") # {} /\ ~Immune("targetSLA"))
  <2>1. SUFFICES ASSUME SuppressorSet("targetSLA") # {} /\ ~Immune("targetSLA") PROVE FALSE
    OBVIOUS
  <2>2. PICK w : Elements(e) = {w}
    BY <1>1, <2>1, EffectiveIs
  <2> QED
    BY <1>3, <2>2
<1>5. Elements(e) = Survivors("targetSLA")
  BY <1>1, <1>4, EffectiveIs
<1>6. PICK c \in Elements(e) : ~Readable(Does(c, "targetSLA"))
  BY <1>2
<1>7. \E d \in Elements(e) : Does(d, "targetSLA") # Does(c, "targetSLA")
  BY <1>3
<1>8. ~\E g \in Groups : \A x \in Elements(e) : pack[x].group = g
  BY <1>2 DEF OneGroup
<1> QED
  BY <1>5, <1>6, <1>7, <1>8

\* Steps 2 to 5 of section 3b.
LEMMA FieldIsDecided ==
    ASSUME Loaded, NEW s \in Orders, NEW f \in Field
    PROVE  Decides(f, FieldValue(f, s))
<1>1. PICK e \in Seq(RuleCode) : e = Effective(f, s) /\ Elements(e) \subseteq WriterSet(f)
  BY EffectiveIs
<1>2. PICK v : v = FieldValue(f, s)
  OBVIOUS
<1>3. \A c \in Elements(e) : c \in RuleCode /\ Does(c, f) # Absent
  BY <1>1, ElementsType DEF WriterSet
<1>4. e = <<>> <=> Elements(e) = {}
  BY ElementsType
<1>5. CASE SuppressorSet(f) # {} /\ ~Immune(f)
  <2>1. PICK w : /\ w = FirstBest(Suppressors(Writers(f, s)), Weight)
                 /\ e = <<w>> /\ Elements(e) = {w}
                 /\ w \in Heaviest(SuppressorSet(f))
    BY <1>1, <1>5, EffectiveIs
  <2>2. e # <<>> /\ Agree(f, e) /\ e[1] = w
    BY <2>1 DEF Agree
  <2>3. v = Does(w, f)
    BY <1>1, <1>2, <2>2 DEF FieldValue
  <2>4. Survivors(f) # {}
    BY <1>5 DEF Survivors, SuppressorSet
  <2>5. MayDecide(f, v)
    BY <1>5, <2>1, <2>3 DEF MayDecide
  <2> QED
    BY <1>2, <2>4, <2>5 DEF Decides
<1>6. CASE ~(SuppressorSet(f) # {} /\ ~Immune(f)) /\ e = <<>>
  <2>1. Survivors(f) = {}
    BY <1>1, <1>4, <1>6, EffectiveIs
  <2>2. v = Absent
    BY <1>1, <1>2, <1>6 DEF FieldValue
  <2> QED
    BY <1>2, <2>1, <2>2 DEF Decides
<1>7. CASE ~(SuppressorSet(f) # {} /\ ~Immune(f)) /\ e # <<>>
  <2>1. Elements(e) = Survivors(f) /\ Survivors(f) # {}
    BY <1>1, <1>4, <1>7, EffectiveIs
  <2> SUFFICES MayDecide(f, v)
    BY <1>2, <2>1 DEF Decides
  <2>2. CASE Agree(f, e)
    <3>1. e[1] \in Elements(e)
      BY <1>7 DEF Elements
    <3>2. v = Does(e[1], f)
      BY <1>1, <1>2, <1>7, <2>2 DEF FieldValue
    <3>3. \A c \in Survivors(f) : Does(c, f) = v
      BY <2>1, <2>2, <3>1, <3>2 DEF Agree
    <3>4. CASE \E g \in Groups : \A c \in Survivors(f) : pack[c].group = g
      <4>1. \A d \in Survivors(f) : Agree(f, <<e[1], d>>)
        <5>1. ASSUME NEW d \in Survivors(f) PROVE Agree(f, <<e[1], d>>)
          <6>1. \A c \in Elements(<<e[1], d>>) : c = e[1] \/ c = d
            BY DEF Elements
          <6> QED
            BY <2>1, <3>1, <3>3, <6>1 DEF Agree
        <5> QED
          BY <5>1
      <4> QED
        BY <1>7, <2>1, <3>1, <3>2, <3>4, <4>1 DEF MayDecide
    <3>5. CASE ~\E g \in Groups : \A c \in Survivors(f) : pack[c].group = g
      <4>1. CASE f \in Flags
        <5>1. f \notin {"priority", "targetSLA", "routeToTeam"}
          BY <4>1, PipelineConstants
        <5>2. v \in BOOLEAN /\ Does(e[1], f) \in BOOLEAN
          BY <1>3, <3>1, <3>2, <4>1, RuleTypes, ValueTypes
        <5>3. v = \E c \in Survivors(f) : Does(c, f)
          BY <2>1, <3>1, <3>3, <5>2, Zenon
        <5> QED
          BY <1>7, <3>5, <4>1, <5>1, <5>3 DEF MayDecide
      <4>2. CASE f = "routeToTeam"
        <5>1. PICK c \in Heaviest(Survivors(f)) : TRUE
          BY <1>7, <2>1, FirstHeaviestIn
        <5>2. Does(c, f) = v
          BY <3>3, <5>1 DEF Heaviest
        <5> QED
          BY <1>7, <3>5, <4>2, <5>1, <5>2, PipelineConstants DEF MayDecide
      <4>3. CASE f = "priority"
        <5>1. v \in 0..4
          <6>1. v \in Value("priority")
            BY <1>3, <3>1, <3>2, <4>3, RuleTypes
          <6> QED
            BY <6>1, ValueTypes DEF Band, Unknown
        <5>2. \A c \in Survivors(f) : Does(c, f) <= v
          BY <3>3, <5>1
        <5> QED
          BY <1>7, <2>1, <3>1, <3>2, <3>5, <4>3, <5>2, PipelineConstants DEF MayDecide
      <4>4. CASE f = "targetSLA"
        <5>1. v \in Duration
          BY <1>3, <3>1, <3>2, <4>4, RuleTypes, ValueTypes
        <5>2. \A c \in Survivors(f) : Minutes(Does(c, f)) >= Minutes(v)
          BY <3>3, <5>1, MinutesType
        <5> QED
          BY <1>7, <2>1, <3>1, <3>2, <3>5, <4>4, <5>2, PipelineConstants DEF MayDecide
      <4> QED
        BY <4>1, <4>2, <4>3, <4>4 DEF Field
    <3> QED
      BY <3>4, <3>5
  <2>3. CASE ~Agree(f, e) /\ OneGroup(e)
    <3>1. PICK w : w = GroupWinner(e)
      OBVIOUS
    <3>2. w \in Elements(e) /\ \A d \in Elements(e) \ {w} : Outranks(w, d)
      BY <1>7, <3>1, GroupWinnerOutranks
    <3>3. v = Does(w, f)
      BY <1>1, <1>2, <1>7, <2>3, <3>1 DEF FieldValue
    <3>4. \E g \in Groups : \A c \in Survivors(f) : pack[c].group = g
      BY <2>1, <2>3 DEF OneGroup
    <3> QED
      BY <1>7, <2>1, <3>2, <3>3, <3>4 DEF MayDecide
  <2>4. CASE ~Agree(f, e) /\ ~OneGroup(e)
    <3>1. v = MergedField(f, e)
      BY <1>1, <1>2, <1>7, <2>4 DEF FieldValue
    <3>2. ~\E g \in Groups : \A c \in Survivors(f) : pack[c].group = g
      BY <2>1, <2>4 DEF OneGroup
    <3>3. CASE f \in Flags
      <4>1. v = \E c \in Survivors(f) : Does(c, f)
        BY <2>1, <3>1, <3>3, MergedFlag
      <4> QED
        BY <1>7, <3>2, <3>3, <4>1, PipelineConstants DEF MayDecide
    <3>4. CASE f = "routeToTeam"
      <4>1. \E c \in Heaviest(Survivors(f)) : Does(c, f) = v
        BY <1>7, <2>1, <3>1, <3>4, MergedTeam
      <4> QED
        BY <1>7, <3>2, <3>4, <4>1, PipelineConstants DEF MayDecide
    <3>5. CASE f = "priority"
      <4>1. /\ \E c \in Survivors(f) : Does(c, f) = v
            /\ \A c \in Survivors(f) : Does(c, f) <= v
        BY <1>3, <1>7, <2>1, <3>1, <3>5, MergedPriority
      <4> QED
        BY <1>7, <3>2, <3>5, <4>1, PipelineConstants DEF MayDecide
    <3>6. CASE f = "targetSLA"
      <4>1. /\ \E c \in Survivors(f) : Does(c, f) = v
            /\ \A c \in Survivors(f) : Minutes(Does(c, f)) >= Minutes(v)
        BY <1>3, <1>7, <2>1, <3>1, <3>6, MergedTarget
      <4> QED
        BY <1>7, <3>2, <3>6, <4>1, PipelineConstants DEF MayDecide
    <3> QED
      BY <3>3, <3>4, <3>5, <3>6 DEF Field
  <2> QED
    BY <2>2, <2>3, <2>4
<1> QED
  BY <1>5, <1>6, <1>7

\* _apply_priority_postprocessing: floors and bumps.
LEMMA PriorityIsRaised ==
    ASSUME Loaded, NEW s \in Orders, ~Raises(s)
    PROVE  RaisedFrom(FieldValue("priority", s), FinalPriority(s))
<1>1. Elements(Matched(s)) = MatchedSet /\ MatchedSet \subseteq RuleCode
  BY MatchedIs DEF MatchedSet, ActiveCodes
<1>2. PICK v : v = FieldValue("priority", s)
  OBVIOUS
<1>3. PICK w : w = FinalPriority(s)
  OBVIOUS
<1>4. FloorSet = Floors(s) \cap Band
  <2>1. Absent \notin Band
    BY ValueTypes
  <2> QED
    BY <1>1, <2>1 DEF FloorSet, Floors
<1>5. PICK start : start = IF v = Absent /\ FloorSet # {} THEN 1 ELSE v
  OBVIOUS
<1>6. start = Current(s)
  <2>1. CASE Floors(s) = {}
    BY <1>2, <1>4, <1>5, <2>1 DEF Current
  <2>2. CASE Floors(s) # {} /\ FloorSet # {}
    BY <1>2, <1>5, <2>2 DEF Current
  <2>3. CASE Floors(s) # {} /\ FloorSet = {}
    <3>1. Current(s) = Absent
      BY <1>4, <2>3 DEF Raises, OutOfBand
    <3>2. 1 # Absent
      BY ValueTypes DEF Band
    <3> QED
      BY <2>3, <3>1, <3>2 DEF Current
  <2> QED
    BY <2>1, <2>2, <2>3
<1>7. PICK bumps : bumps = {c \in MatchedSet : pack[c].bump}
  OBVIOUS
<1>8. Bumps(s) = Cardinality(bumps) /\ Cardinality(bumps) \in Nat
  <2>1. bumps \in SUBSET RuleCode
    BY <1>1, <1>7
  <2>2. IsFiniteSet(bumps)
    BY <2>1, PipelineConstants, FS_Subset
  <2> QED
    BY <1>1, <1>7, <2>2, FS_CardinalityType DEF Bumps
<1>9. CASE start \notin Band
  <2>1. w = start
    BY <1>3, <1>6, <1>9 DEF FinalPriority
  <2> QED
    BY <1>2, <1>3, <1>5, <1>9, <2>1 DEF RaisedFrom
<1>10. CASE start \in Band
  <2>1. PICK V : V = {start} \cup FloorSet
    OBVIOUS
  <2>2. V \subseteq 1..4 /\ start \in V
    BY <1>4, <1>10, <2>1 DEF Band
  <2>3. \E x \in V : \A y \in V : x >= y
    <3>1. PICK T : T = {4 - y : y \in V}
      OBVIOUS
    <3>2. T \subseteq Nat /\ T # {}
      <4>1. \A y \in V : 4 - y \in Nat
        BY <2>2
      <4> QED
        BY <2>2, <3>1, <4>1
    <3>3. PICK z \in T : \A y \in T : z <= y
      BY <3>2, LeastNatural
    <3>4. PICK x \in V : z = 4 - x
      BY <3>1
    <3>5. \A y \in V : 4 - y \in T
      BY <3>1
    <3>6. \A y \in V : x >= y
      BY <2>2, <3>3, <3>4, <3>5
    <3> QED
      BY <3>6
  <2>4. PICK floored \in V : floored = Max(V) /\ \A y \in V : floored >= y
    BY <2>3 DEF Max
  <2>5. PICK b \in Nat : b = Bumps(s)
    BY <1>8
  <2>6. w = Min({floored + b, 4})
    <3>1. Max({Current(s)} \cup (Floors(s) \cap Band)) = floored
      BY <1>4, <1>6, <2>1, <2>4
    <3> QED
      BY <1>3, <1>6, <1>10, <2>5, <3>1 DEF FinalPriority
  <2>7. floored \in 1..4 /\ floored + b \in Nat
    BY <2>2, <2>4, <2>5
  <2>8. w = IF floored + b <= 4 THEN floored + b ELSE 4
    <3>1. PICK m \in Nat : m = floored + b
      BY <2>7
    <3>2. \E x \in {m, 4} : \A y \in {m, 4} : x =< y
      OBVIOUS
    <3>3. w \in {m, 4} /\ \A y \in {m, 4} : w =< y
      BY <2>6, <3>1, <3>2 DEF Min
    <3> QED
      BY <3>1, <3>3
  <2>9. w \in Band /\ floored <= w
    BY <2>5, <2>7, <2>8 DEF Band
  <2>10. \A x \in FloorSet \cup {start} : w >= x
    <3>1. \A x \in V : w >= x
      BY <2>2, <2>4, <2>7, <2>9 DEF Band
    <3> QED
      BY <2>1, <3>1
  <2>11. \/ w = 4
         \/ \E x \in FloorSet \cup {start} : w = x + Cardinality(bumps)
    BY <1>8, <2>1, <2>4, <2>5, <2>8
  <2> QED
    BY <1>2, <1>3, <1>5, <1>7, <1>10, <2>9, <2>10, <2>11 DEF RaisedFrom
<1> QED
  BY <1>9, <1>10
-----------------------------------------------------------------------------
(***************************************************************************)
(* The execution plan.                                                     *)
(***************************************************************************)
SequencedSet == {c \in MatchedSet : pack[c].sequencing # Absent}

LEMMA AmongInjective ==
    ASSUME NEW S, NEW s \in Seq(S), NEW cs,
           \A i, j \in 1..Len(s) : s[i] = s[j] => i = j
    PROVE  LET t == Among(s, cs)
           IN \A k, l \in 1..Len(t) : t[k] = t[l] => k = l
<1>1. PICK t \in Seq(S) : t = Among(s, cs)
  BY AmongPlaces
<1>2. PICK p : Places(p, t, s, cs, Len(s))
  BY <1>1, AmongPlaces
<1>3. ASSUME NEW k \in 1..Len(t), NEW l \in 1..Len(t), t[k] = t[l] PROVE k = l
  <2>1. p[k] \in 1..Len(s) /\ p[l] \in 1..Len(s) /\ s[p[k]] = s[p[l]]
    BY <1>2, <1>3 DEF Places
  <2>2. p[k] = p[l]
    BY <2>1
  <2>3. ~(p[k] < p[l]) /\ ~(p[l] < p[k])
    BY <2>1, <2>2
  <2>4. ~(k < l) /\ ~(l < k)
    BY <1>2, <2>3 DEF Places
  <2> QED
    BY <2>4
<1> QED
  BY <1>1, <1>3

LEMMA LengthOfDistinct ==
    ASSUME NEW S, NEW t \in Seq(S), \A k, l \in 1..Len(t) : t[k] = t[l] => k = l
    PROVE  Len(t) = Cardinality(Elements(t))
<1>1. PICK n \in Nat : n = Len(t)
  OBVIOUS
<1>2. t \in [1..n -> Elements(t)]
  BY <1>1 DEF Elements
<1>3. t \in Injection(1..n, Elements(t))
  BY <1>1, <1>2 DEF Injection, IsInjective
<1>4. t \in Surjection(1..n, Elements(t))
  BY <1>1, <1>2 DEF Surjection, Elements
<1>5. ExistsBijection(1..n, Elements(t))
  BY <1>3, <1>4 DEF ExistsBijection, Bijection
<1>6. Cardinality(Elements(t)) = n
  BY <1>5, FS_CountingElements
<1> QED
  BY <1>1, <1>6

LEMMA SequencedIs ==
    ASSUME NEW s \in Orders
    PROVE  /\ Sequenced(s) \in Seq(RuleCode)
           /\ Len(Sequenced(s)) = Cardinality(SequencedSet)
<1>1. s \in Seq(RuleCode) /\ \A i, j \in 1..Len(s) : s[i] = s[j] => i = j
  BY OrderIs
<1>2. PICK m \in Seq(RuleCode) : m = Matched(s) /\ Elements(m) = MatchedSet
  BY MatchedIs
<1>3. \A i, j \in 1..Len(m) : m[i] = m[j] => i = j
  BY <1>1, <1>2, AmongInjective DEF Matched
<1>4. PICK cs : cs = {c \in RuleCode : pack[c].sequencing # Absent}
  OBVIOUS
<1>5. PICK t \in Seq(RuleCode) : t = Among(m, cs) /\ Elements(t) = MatchedSet \cap cs
  BY <1>2, AmongPlaces, AmongElements
<1>6. t = Sequenced(s)
  BY <1>2, <1>4, <1>5 DEF Sequenced
<1>7. MatchedSet \cap cs = SequencedSet
  BY <1>4 DEF MatchedSet, ActiveCodes, SequencedSet
<1>8. \A k, l \in 1..Len(t) : t[k] = t[l] => k = l
  BY <1>3, <1>5, AmongInjective
<1>9. Len(t) = Cardinality(Elements(t))
  BY <1>8, LengthOfDistinct
<1> QED
  BY <1>5, <1>6, <1>7, <1>9

LEMMA FiveElements ==
    ASSUME NEW a, NEW b, NEW c, NEW d, NEW e
    PROVE  /\ <<a, b, c, d, e>> \in Seq({a, b, c, d, e})
           /\ Len(<<a, b, c, d, e>>) = 5
<1>1. \A i \in 1..5 : i = 1 \/ i = 2 \/ i = 3 \/ i = 4 \/ i = 5
  OBVIOUS
<1>2. <<a, b, c, d, e>> \in [1..5 -> {a, b, c, d, e}]
  BY <1>1
<1>3. PICK n \in Nat : n = 5
  OBVIOUS
<1>4. <<a, b, c, d, e>> \in [1..n -> {a, b, c, d, e}]
  BY <1>2, <1>3
<1> QED
  BY <1>3, <1>4

Base == {"autoRemediate", "rerouteTraffic", "dispatchEngineer",
         "customerNotification", "notifyNOC"}

LEMMA BaseDistinct ==
    /\ BasePrecedence \in Seq(Base)
    /\ \A i, j \in 1..Len(BasePrecedence) : BasePrecedence[i] = BasePrecedence[j] => i = j
<1>1. BasePrecedence \in Seq(Base) /\ Len(BasePrecedence) = 5
  BY FiveElements, Zenon DEF BasePrecedence, Base
<1>2. /\ BasePrecedence[1] = "autoRemediate" /\ BasePrecedence[2] = "rerouteTraffic"
      /\ BasePrecedence[3] = "dispatchEngineer"
      /\ BasePrecedence[4] = "customerNotification" /\ BasePrecedence[5] = "notifyNOC"
  BY DEF BasePrecedence
<1>3. \A i \in 1..5 : i = 1 \/ i = 2 \/ i = 3 \/ i = 4 \/ i = 5
  OBVIOUS
<1> QED
  BY <1>1, <1>2, <1>3

\* The sequenced steps come first, and the base steps repeat none of them.
LEMMA PlanShape ==
    ASSUME NEW s \in Orders, NEW a
    PROVE  LET p == ExecutionPlan(a, s)
           IN /\ \A f \in Flags \cap Elements(BasePrecedence) :
                   a[f] = TRUE => f \in Elements(p)
              /\ \A i, j \in 1..Len(p) : i < j /\ p[i] = p[j] =>
                   j <= 2 * Cardinality(SequencedSet)
<1>1. PICK m \in Nat : m = Len(Sequenced(s)) /\ m = Cardinality(SequencedSet)
  <2>1. Len(Sequenced(s)) \in Nat
    BY SequencedIs
  <2> QED
    BY <2>1, SequencedIs
<1>2. PICK h : h = HintSteps(s)
  OBVIOUS
<1>3. DOMAIN h = 1..(2 * m) /\ h = [i \in 1..(2 * m) |-> h[i]]
  BY <1>1, <1>2 DEF HintSteps
<1>4. PICK H : H = {h[i] : i \in 1..(2 * m)}
  OBVIOUS
<1>5. PICK S : S = H \cup Base
  OBVIOUS
<1>6. 2 * m \in Nat
  OBVIOUS
<1>7. h \in Seq(S) /\ Len(h) = 2 * m
  <2>1. h \in [1..(2 * m) -> S]
    BY <1>3, <1>4, <1>5
  <2> QED
    BY <1>6, <2>1
<1>8. Elements(h) = H
  BY <1>4, <1>7 DEF Elements
<1>9. PICK cs : cs = {f \in Flags : a[f] = TRUE} \ H
  OBVIOUS
<1>10. BasePrecedence \in Seq(Base)
  BY BaseDistinct
<1>11. PICK b \in Seq(Base) : /\ b = Among(BasePrecedence, cs)
                                /\ Elements(b) = Elements(BasePrecedence) \cap cs
  BY <1>10, AmongPlaces, AmongElements
<1>12. \A k, l \in 1..Len(b) : b[k] = b[l] => k = l
  BY <1>11, BaseDistinct, AmongInjective
<1>13. b \in Seq(S)
  BY <1>5
<1>14. PICK p : p = ExecutionPlan(a, s)
  OBVIOUS
<1>15. p = h \o b
  BY <1>2, <1>8, <1>9, <1>11, <1>14 DEF ExecutionPlan
<1>16. PICK n \in Nat : n = Len(b)
  OBVIOUS
<1>17. Len(p) = 2 * m + n
  <2>1. Len(h \o b) = Len(h) + Len(b)
    BY <1>7, <1>13
  <2> QED
    BY <1>7, <1>15, <1>16, <2>1
<1>18. \A i \in 1..(2 * m) : p[i] = h[i]
  <2>1. \A i \in 1..Len(h) : (h \o b)[i] = h[i]
    BY <1>7, <1>13
  <2> QED
    BY <1>7, <1>15, <2>1
<1>19. \A i \in 1..n : p[2 * m + i] = b[i]
  <2>1. \A i \in 1..Len(b) : (h \o b)[Len(h) + i] = b[i]
    BY <1>7, <1>13
  <2> QED
    BY <1>7, <1>15, <1>16, <2>1
<1>20. ASSUME NEW f \in Flags \cap Elements(BasePrecedence), a[f] = TRUE
       PROVE  f \in Elements(p)
  <2>1. CASE f \in H
    <3>1. PICK i \in 1..(2 * m) : f = h[i]
      BY <1>4, <2>1
    <3>2. i \in 1..Len(p)
      BY <1>17
    <3> QED
      BY <1>18, <3>1, <3>2 DEF Elements
  <2>2. CASE f \notin H
    <3>1. f \in Elements(b)
      BY <1>9, <1>11, <1>20, <2>2
    <3>2. PICK i \in 1..n : f = b[i]
      BY <1>16, <3>1 DEF Elements
    <3>3. 2 * m + i \in 1..Len(p)
      BY <1>17
    <3> QED
      BY <1>19, <3>2, <3>3 DEF Elements
  <2> QED
    BY <2>1, <2>2
<1>21. ASSUME NEW i \in 1..Len(p), NEW j \in 1..Len(p), i < j, p[i] = p[j]
       PROVE  j <= 2 * m
  <2> SUFFICES ASSUME ~(j <= 2 * m) PROVE FALSE
    OBVIOUS
  <2>1. PICK l \in 1..n : j = 2 * m + l
    <3>1. j - 2 * m \in 1..n /\ j = 2 * m + (j - 2 * m)
      BY <1>17
    <3> QED
      BY <3>1
  <2>2. p[j] = b[l] /\ b[l] \in cs
    <3>1. b[l] \in Elements(b)
      BY <1>16 DEF Elements
    <3> QED
      BY <1>11, <1>19, <2>1, <3>1
  <2>3. CASE i <= 2 * m
    <3>1. p[i] \in H
      BY <1>4, <1>18, <2>3
    <3> QED
      BY <1>9, <1>21, <2>2, <3>1
  <2>4. CASE ~(i <= 2 * m)
    <3>1. PICK k \in 1..n : i = 2 * m + k
      <4>1. i - 2 * m \in 1..n /\ i = 2 * m + (i - 2 * m)
        BY <1>17, <2>4
      <4> QED
        BY <4>1
    <3>2. b[k] = b[l]
      BY <1>19, <1>21, <2>2, <3>1
    <3>3. k = l
      BY <1>12, <1>16, <3>2
    <3> QED
      BY <1>21, <2>1, <3>1, <3>3
  <2> QED
    BY <2>3, <2>4
<1> QED
  BY <1>1, <1>14, <1>20, <1>21
-----------------------------------------------------------------------------
(***************************************************************************)
(* The order of the rules.                                                 *)
(***************************************************************************)
\* s lists c somewhere before d.
Precedes(c, d, s) == \E i, j \in 1..Len(s) : i < j /\ s[i] = c /\ s[j] = d

\* Two rules that come in both orders are ordered by nothing.
LEMMA BothWays ==
    ASSUME Loaded, NEW s \in Orders, NEW t \in Orders, NEW c, NEW d,
           Precedes(c, d, s), Precedes(d, c, t)
    PROVE  c \in ActiveCodes /\ d \in ActiveCodes /\ Unordered(c, d)
<1>1. PICK i, j \in 1..Len(s) : i < j /\ s[i] = c /\ s[j] = d
  BY DEF Precedes
<1>2. PICK k, l \in 1..Len(t) : k < l /\ t[k] = d /\ t[l] = c
  BY DEF Precedes
<1>3. Before(c, d) /\ Before(d, c)
  BY <1>1, <1>2, OrderIs
<1>4. c # d
  BY <1>1, OrderIs
<1>5. c \in ActiveCodes /\ d \in ActiveCodes
  BY <1>1, OrderIs DEF Elements
<1>6. c \in RuleCode /\ d \in RuleCode
  BY <1>5 DEF ActiveCodes
<1>7. /\ pack[c].familyOrder \in Nat /\ pack[d].familyOrder \in Nat
      /\ Weight(c) \in Int /\ Weight(d) \in Int
  BY <1>6, RuleTypes
<1> QED
  BY <1>3, <1>4, <1>5, <1>7 DEF Before, Unordered

\* A comprehension keeps the order.
LEMMA AmongPrecedes ==
    ASSUME NEW S, NEW s \in Seq(S), NEW cs, NEW c, NEW d,
           Precedes(c, d, Among(s, cs))
    PROVE  Precedes(c, d, s)
<1>1. PICK t \in Seq(S) : t = Among(s, cs)
  BY AmongPlaces
<1>2. PICK p : Places(p, t, s, cs, Len(s))
  BY <1>1, AmongPlaces
<1>3. PICK k, l \in 1..Len(t) : k < l /\ t[k] = c /\ t[l] = d
  BY <1>1 DEF Precedes
<1>4. /\ p[k] \in 1..Len(s) /\ p[l] \in 1..Len(s) /\ p[k] < p[l]
      /\ s[p[k]] = c /\ s[p[l]] = d
  BY <1>2, <1>3 DEF Places
<1> QED
  BY <1>4 DEF Precedes

LEMMA FirstOfEquals ==
    ASSUME Loaded, NEW u \in Seq(RuleCode), NEW x, NEW y,
           x = FirstBest(u, Weight), y \in Elements(u), y # x, Weight(x) <= Weight(y)
    PROVE  Precedes(x, y, u)
<1>1. u # <<>>
  BY ElementsType
<1>2. PICK i \in 1..Len(u) : /\ x = u[i]
                             /\ \A j \in 1..Len(u) : Weight(u[j]) <= Weight(u[i])
                             /\ \A j \in 1..(i - 1) : Weight(u[j]) < Weight(u[i])
  BY <1>1, FirstHeaviest
<1>3. PICK j \in 1..Len(u) : y = u[j]
  BY DEF Elements
<1>4. Weight(x) \in Int /\ Weight(y) \in Int
  BY <1>2, <1>3, RuleTypes
<1>5. j \notin 1..(i - 1)
  BY <1>2, <1>3, <1>4
<1>6. j # i
  BY <1>2, <1>3
<1>7. i < j
  BY <1>5, <1>6
<1> QED
  BY <1>2, <1>3, <1>7 DEF Precedes

LEMMA SuppressorsPrecede ==
    ASSUME NEW s \in Orders, NEW f, NEW c, NEW d,
           Precedes(c, d, Suppressors(Writers(f, s)))
    PROVE  Precedes(c, d, s)
<1>1. s \in Seq(RuleCode) /\ Matched(s) \in Seq(RuleCode) /\ Writers(f, s) \in Seq(RuleCode)
  BY OrderIs, MatchedIs, WritersAre
<1>2. Precedes(c, d, Writers(f, s))
  BY <1>1, AmongPrecedes DEF Suppressors
<1>3. Precedes(c, d, Matched(s))
  BY <1>1, <1>2, AmongPrecedes DEF Writers
<1> QED
  BY <1>1, <1>3, AmongPrecedes DEF Matched

\* The suppressor that wins a field is the same in every order.
LEMMA SameSuppressor ==
    ASSUME Loaded, ~Tied, NEW s \in Orders, NEW t \in Orders, NEW f \in Field,
           SuppressorSet(f) # {}
    PROVE  FirstBest(Suppressors(Writers(f, s)), Weight)
             = FirstBest(Suppressors(Writers(f, t)), Weight)
<1>1. PICK u \in Seq(RuleCode) : /\ u = Suppressors(Writers(f, s))
                                 /\ Elements(u) = SuppressorSet(f) /\ u # <<>>
  BY SuppressorsAre
<1>2. PICK v \in Seq(RuleCode) : /\ v = Suppressors(Writers(f, t))
                                 /\ Elements(v) = SuppressorSet(f) /\ v # <<>>
  BY SuppressorsAre
<1>3. PICK x : x = FirstBest(u, Weight)
  OBVIOUS
<1>4. PICK y : y = FirstBest(v, Weight)
  OBVIOUS
<1>5. x \in Heaviest(SuppressorSet(f)) /\ y \in Heaviest(SuppressorSet(f))
  BY <1>1, <1>2, <1>3, <1>4, FirstHeaviestIn
<1>6. x \in SuppressorSet(f) /\ y \in SuppressorSet(f)
  BY <1>5 DEF Heaviest
<1>7. x \in RuleCode /\ y \in RuleCode
  BY <1>1, <1>6, ElementsType
<1>8. Weight(x) \in Int /\ Weight(y) \in Int
  BY <1>7, RuleTypes
<1>9. Weight(x) <= Weight(y) /\ Weight(y) <= Weight(x)
  BY <1>5, <1>6, <1>8 DEF Heaviest
<1>10. ASSUME x # y PROVE FALSE
  <2>1. Precedes(x, y, u)
    BY <1>1, <1>3, <1>6, <1>9, <1>10, FirstOfEquals
  <2>2. Precedes(y, x, v)
    BY <1>2, <1>4, <1>6, <1>9, <1>10, FirstOfEquals
  <2>3. Precedes(x, y, s) /\ Precedes(y, x, t)
    BY <1>1, <1>2, <2>1, <2>2, SuppressorsPrecede
  <2>4. x \in ActiveCodes /\ y \in ActiveCodes /\ Unordered(x, y)
    BY <2>3, BothWays
  <2>5. /\ pack[x].suppressor /\ pack[y].suppressor
        /\ Does(x, f) # Absent /\ Does(y, f) # Absent
    BY <1>6 DEF SuppressorSet, WriterSet
  <2> QED
    BY <2>4, <2>5 DEF Tied
<1> QED
  BY <1>1, <1>2, <1>3, <1>4, <1>10

LEMMA SameEffective ==
    ASSUME Loaded, ~Tied, NEW s \in Orders, NEW t \in Orders, NEW f \in Field
    PROVE  Elements(Effective(f, s)) = Elements(Effective(f, t))
<1>1. CASE SuppressorSet(f) # {} /\ ~Immune(f)
  <2>1. PICK x : x = FirstBest(Suppressors(Writers(f, s)), Weight)
    OBVIOUS
  <2>2. PICK y : y = FirstBest(Suppressors(Writers(f, t)), Weight)
    OBVIOUS
  <2>3. x = y
    BY <1>1, <2>1, <2>2, SameSuppressor
  <2>4. Elements(Effective(f, s)) = {x} /\ Elements(Effective(f, t)) = {y}
    BY <1>1, <2>1, <2>2, EffectiveIs
  <2> QED
    BY <2>3, <2>4
<1>2. CASE ~(SuppressorSet(f) # {} /\ ~Immune(f))
  BY <1>2, EffectiveIs
<1> QED
  BY <1>1, <1>2

\* What the resolver asks of a list depends on its elements only.
LEMMA ElementsSuffice ==
    ASSUME Loaded, NEW d \in Seq(RuleCode), NEW e \in Seq(RuleCode),
           Elements(d) = Elements(e), NEW f
    PROVE  /\ d = <<>> <=> e = <<>>
           /\ Agree(f, d) <=> Agree(f, e)
           /\ OneGroup(d) <=> OneGroup(e)
           /\ GroupWinner(d) = GroupWinner(e)
           /\ f \in Flags \cup {"priority"} => MergedField(f, d) = MergedField(f, e)
<1>1. d = <<>> <=> e = <<>>
  BY ElementsType
<1>2. Agree(f, d) <=> Agree(f, e)
  BY DEF Agree
<1>3. OneGroup(d) <=> OneGroup(e)
  BY DEF OneGroup
<1>4. GroupWinner(d) = GroupWinner(e)
  BY DEF GroupWinner
<1>5. f \in Flags => MergedField(f, d) = MergedField(f, e)
  BY MergedFlag
<1>6. f = "priority" => MergedField(f, d) = MergedField(f, e)
  BY PipelineConstants DEF MergedField
<1> QED
  BY <1>1, <1>2, <1>3, <1>4, <1>5, <1>6

LEMMA SameLosers ==
    ASSUME Loaded, ~Tied, NEW s \in Orders, NEW t \in Orders, NEW f \in Field
    PROVE  Losers(f, s) = Losers(f, t)
<1>1. PICK d \in Seq(RuleCode) : d = Effective(f, s)
  BY EffectiveIs
<1>2. PICK e \in Seq(RuleCode) : e = Effective(f, t)
  BY EffectiveIs
<1>3. Elements(d) = Elements(e)
  BY <1>1, <1>2, SameEffective
<1>4. /\ d = <<>> <=> e = <<>>
      /\ Agree(f, d) <=> Agree(f, e)
      /\ OneGroup(d) <=> OneGroup(e)
      /\ GroupWinner(d) = GroupWinner(e)
  BY <1>3, ElementsSuffice
<1>5. Elements(Writers(f, s)) = Elements(Writers(f, t))
  BY WritersAre
<1> QED
  BY <1>1, <1>2, <1>3, <1>4, <1>5 DEF Losers

LEMMA SameField ==
    ASSUME Loaded, ~Tied, NEW s \in Orders, NEW t \in Orders,
           NEW f \in Flags \cup {"priority"}
    PROVE  FieldValue(f, s) = FieldValue(f, t)
<1>0. f \in Field
  BY DEF Field
<1>1. PICK d \in Seq(RuleCode) : d = Effective(f, s)
  BY EffectiveIs
<1>2. PICK e \in Seq(RuleCode) : e = Effective(f, t)
  BY EffectiveIs
<1>3. Elements(d) = Elements(e)
  BY <1>0, <1>1, <1>2, SameEffective
<1>4. /\ d = <<>> <=> e = <<>>
      /\ Agree(f, d) <=> Agree(f, e)
      /\ OneGroup(d) <=> OneGroup(e)
      /\ GroupWinner(d) = GroupWinner(e)
      /\ MergedField(f, d) = MergedField(f, e)
  BY <1>3, ElementsSuffice
<1>5. d # <<>> /\ Agree(f, d) => Does(d[1], f) = Does(e[1], f)
  <2> SUFFICES ASSUME d # <<>>, Agree(f, d) PROVE Does(d[1], f) = Does(e[1], f)
    OBVIOUS
  <2>1. e # <<>>
    BY <1>4
  <2>2. d[1] \in Elements(d) /\ e[1] \in Elements(e)
    BY <2>1 DEF Elements
  <2> QED
    BY <1>3, <2>2 DEF Agree
<1> QED
  BY <1>1, <1>2, <1>4, <1>5 DEF FieldValue

LEMMA SamePriority ==
    ASSUME Loaded, ~Tied, NEW s \in Orders, NEW t \in Orders
    PROVE  FinalPriority(s) = FinalPriority(t)
<1>1. Elements(Matched(s)) = Elements(Matched(t))
  BY MatchedIs
<1>2. Floors(s) = Floors(t) /\ Bumps(s) = Bumps(t)
  BY <1>1 DEF Floors, Bumps
<1>3. FieldValue("priority", s) = FieldValue("priority", t)
  BY SameField
<1>4. Current(s) = Current(t)
  BY <1>2, <1>3 DEF Current
<1> QED
  BY <1>2, <1>4 DEF FinalPriority

LEMMA SameResolved ==
    ASSUME Loaded, ~Tied, NEW s \in Orders, NEW t \in Orders,
           NEW f \in Flags \cup {"priority"}
    PROVE  Resolved(s)[f] = Resolved(t)[f]
<1>1. f \in Field
  BY DEF Field
<1>2. FieldValue(f, s) = FieldValue(f, t)
  BY SameField
<1>3. FinalPriority(s) = FinalPriority(t)
  BY SamePriority
<1> QED
  BY <1>1, <1>2, <1>3 DEF Resolved

LEMMA LastOfOthers ==
    ASSUME NEW w \in Seq(RuleCode), NEW x, NEW y,
           x = w[Len(w)], y \in Elements(w), y # x
    PROVE  Precedes(y, x, w)
<1>1. PICK j \in 1..Len(w) : y = w[j]
  BY DEF Elements
<1>2. Len(w) \in 1..Len(w) /\ j < Len(w)
  BY <1>1
<1> QED
  BY <1>1, <1>2 DEF Precedes

\* The compliance rule that counts for a field is the same in every order.
LEMMA SameConstrained ==
    ASSUME Loaded, ~Tied, NEW s \in Orders, NEW t \in Orders,
           NEW f \in Flags \cup {"priority"}
    PROVE  Constrained(Resolved(s), s)[f] = Constrained(Resolved(t), t)[f]
<1>0. f \in Field
  BY DEF Field
<1>1. PICK cs : cs = {c \in RuleCode : pack[c].compliance /\ incident.outcome[c].met}
  OBVIOUS
<1>2. PICK ws : ws = {c \in RuleCode : Does(c, f) # Absent}
  OBVIOUS
<1>3. /\ s \in Seq(RuleCode) /\ Elements(s) = ActiveCodes
      /\ t \in Seq(RuleCode) /\ Elements(t) = ActiveCodes
  BY OrderIs
<1>4. PICK u \in Seq(RuleCode) : u = Among(s, cs) /\ Elements(u) = ActiveCodes \cap cs
  BY <1>3, AmongPlaces, AmongElements
<1>5. PICK v \in Seq(RuleCode) : v = Among(t, cs) /\ Elements(v) = ActiveCodes \cap cs
  BY <1>3, AmongPlaces, AmongElements
<1>6. u = Compliance(s) /\ v = Compliance(t)
  BY <1>1, <1>4, <1>5 DEF Compliance
<1>7. PICK y \in Seq(RuleCode) : y = Among(u, ws) /\ Elements(y) = (ActiveCodes \cap cs) \cap ws
  BY <1>4, AmongPlaces, AmongElements
<1>8. PICK z \in Seq(RuleCode) : z = Among(v, ws) /\ Elements(z) = (ActiveCodes \cap cs) \cap ws
  BY <1>5, AmongPlaces, AmongElements
<1>9. /\ y = <<>> <=> Elements(y) = {}
      /\ z = <<>> <=> Elements(z) = {}
  BY ElementsType
<1>10. Constrained(Resolved(s), s)[f] = IF y = <<>> THEN Resolved(s)[f] ELSE Does(y[Len(y)], f)
  BY <1>0, <1>2, <1>6, <1>7 DEF Constrained
<1>11. Constrained(Resolved(t), t)[f] = IF z = <<>> THEN Resolved(t)[f] ELSE Does(z[Len(z)], f)
  BY <1>0, <1>2, <1>6, <1>8 DEF Constrained
<1>12. CASE y = <<>>
  BY <1>7, <1>8, <1>9, <1>10, <1>11, <1>12, SameResolved
<1>13. CASE y # <<>>
  <2>1. z # <<>>
    BY <1>7, <1>8, <1>9, <1>13
  <2>2. PICK a : a = y[Len(y)]
    OBVIOUS
  <2>3. PICK b : b = z[Len(z)]
    OBVIOUS
  <2>4. a \in Elements(y) /\ b \in Elements(z)
    <3>1. Len(y) \in 1..Len(y) /\ Len(z) \in 1..Len(z)
      BY <1>13, <2>1
    <3> QED
      BY <2>2, <2>3, <3>1 DEF Elements
  <2>5. ASSUME a # b PROVE FALSE
    <3>1. Precedes(b, a, y) /\ Precedes(a, b, z)
      BY <1>7, <1>8, <2>2, <2>3, <2>4, <2>5, LastOfOthers
    <3>2. Precedes(b, a, u) /\ Precedes(a, b, v)
      BY <1>7, <1>8, <3>1, AmongPrecedes
    <3>3. Precedes(b, a, s) /\ Precedes(a, b, t)
      BY <1>3, <1>4, <1>5, <3>2, AmongPrecedes
    <3>4. a \in ActiveCodes /\ b \in ActiveCodes /\ Unordered(b, a)
      BY <3>3, BothWays
    <3>5. /\ pack[a].compliance /\ pack[b].compliance
          /\ Does(a, f) # Absent /\ Does(b, f) # Absent
      BY <1>1, <1>2, <1>7, <1>8, <2>4
    <3> QED
      BY <1>0, <3>4, <3>5 DEF Tied
  <2> QED
    BY <1>10, <1>11, <1>13, <2>1, <2>2, <2>3, <2>5
<1> QED
  BY <1>12, <1>13

LEMMA SameRisk ==
    ASSUME Loaded, ~Tied, NEW s \in Orders, NEW t \in Orders
    PROVE  RiskScore(s, SuppressedRules(s)) = RiskScore(t, SuppressedRules(t))
<1>1. Elements(Matched(s)) = Elements(Matched(t))
  BY MatchedIs
<1>2. ASSUME NEW e \in RuleCode \X Field
      PROVE  Losers(e[2], s) = Losers(e[2], t)
  <2>1. e[2] \in Field
    OBVIOUS
  <2> QED
    BY <2>1, SameLosers
<1>3. SuppressedRules(s) = SuppressedRules(t)
  BY <1>2 DEF SuppressedRules
<1>4. PICK p : p = SuppressedRules(t)
  OBVIOUS
<1>5. RiskScore(s, p) = RiskScore(t, p)
  BY <1>1 DEF RiskScore
<1> QED
  BY <1>3, <1>4, <1>5

LEMMA SameDecision ==
    ASSUME Loaded, ~Tied, NEW s \in Orders, NEW t \in Orders
    PROVE  Decision(s) = Decision(t)
<1>1. PICK a : a = Constrained(Resolved(s), s)
  OBVIOUS
<1>2. PICK b : b = Constrained(Resolved(t), t)
  OBVIOUS
<1>3. a["priority"] = b["priority"] /\ \A f \in Flags : a[f] = b[f]
  BY <1>1, <1>2, SameConstrained
<1>4. [f \in Flags |-> a[f]] = [f \in Flags |-> b[f]]
  BY <1>3
<1>5. RiskScore(s, SuppressedRules(s)) = RiskScore(t, SuppressedRules(t))
  BY SameRisk
<1>6. Decision(s) = [priority |-> a["priority"], flags |-> [f \in Flags |-> a[f]],
                     risk |-> RiskScore(s, SuppressedRules(s))]
  BY <1>1 DEF Decision
<1>7. Decision(t) = [priority |-> b["priority"], flags |-> [f \in Flags |-> b[f]],
                     risk |-> RiskScore(t, SuppressedRules(t))]
  BY <1>2 DEF Decision
<1> QED
  BY <1>3, <1>4, <1>5, <1>6, <1>7

-----------------------------------------------------------------------------
(***************************************************************************)
(* From stage to stage: what the services compute does not change while    *)
(* the pack, the incident and the order stay as they are.                  *)
(***************************************************************************)
LEMMA OrdersStay ==
    ASSUME UNCHANGED <<pack, incident>>
    PROVE  Orders' = Orders
  BY DEF Orders, ActiveCodes, Before, Weight

LEMMA WritersStay ==
    ASSUME UNCHANGED <<pack, incident, order>>
    PROVE  /\ Matched(order)' = Matched(order)
           /\ \A f : Writers(f, order)' = Writers(f, order)
<1>1. Matched(order)' = Matched(order)
  BY DEF Matched
<1>2. ASSUME NEW f PROVE Writers(f, order)' = Writers(f, order)
  BY <1>1 DEF Writers, Does
<1> QED
  BY <1>1, <1>2

LEMMA EffectiveStays ==
    ASSUME UNCHANGED <<pack, incident, order>>, NEW f
    PROVE  Effective(f, order)' = Effective(f, order)
<1>1. Writers(f, order)' = Writers(f, order)
  BY WritersStay
<1>2. Suppressors(Writers(f, order))' = Suppressors(Writers(f, order))
  BY <1>1 DEF Suppressors
<1>3. Silenced(Writers(f, order))' <=> Silenced(Writers(f, order))
  BY <1>1, <1>2 DEF Silenced
<1>4. FirstBest(Suppressors(Writers(f, order)), Weight)'
        = FirstBest(Suppressors(Writers(f, order)), Weight)
  BY <1>2 DEF FirstBest, Weight
<1> QED
  BY <1>1, <1>2, <1>3, <1>4 DEF Effective

LEMMA FieldStays ==
    ASSUME UNCHANGED <<pack, incident, order>>, NEW f
    PROVE  /\ FieldValue(f, order)' = FieldValue(f, order)
           /\ Losers(f, order)' = Losers(f, order)
<1>1. Effective(f, order)' = Effective(f, order) /\ Writers(f, order)' = Writers(f, order)
  BY EffectiveStays, WritersStay
<1>2. Agree(f, Effective(f, order))' <=> Agree(f, Effective(f, order))
  BY <1>1 DEF Agree, Does
<1>3. OneGroup(Effective(f, order))' <=> OneGroup(Effective(f, order))
  BY <1>1 DEF OneGroup
<1>4. GroupWinner(Effective(f, order))' = GroupWinner(Effective(f, order))
  BY <1>1 DEF GroupWinner, Weight
<1>5. MergedField(f, Effective(f, order))' = MergedField(f, Effective(f, order))
  BY <1>1 DEF MergedField, FirstBest, Weight, Does
<1> QED
  BY <1>1, <1>2, <1>3, <1>4, <1>5 DEF FieldValue, Losers, Does

LEMMA TotalStays ==
    ASSUME UNCHANGED pack, NEW cs
    PROVE  TotalScore(cs)' = TotalScore(cs)
  BY DEF TotalScore, MapThenSumSet, MapThenFoldSet

LEMMA ResolvedStays ==
    ASSUME UNCHANGED <<pack, incident, order>>
    PROVE  /\ Raises(order)' <=> Raises(order)
           /\ Resolved(order)' = Resolved(order)
           /\ SuppressedRules(order)' = SuppressedRules(order)
<1>1. /\ Floors(order)' = Floors(order) /\ Bumps(order)' = Bumps(order)
  BY WritersStay DEF Floors, Bumps
<1>2. Current(order)' = Current(order)
  BY <1>1, FieldStays DEF Current
<1>3. OutOfBand(order)' <=> OutOfBand(order)
  BY <1>1, <1>2 DEF OutOfBand
<1>4. Raises(order)' <=> Raises(order)
  <2>1. Effective("targetSLA", order)' = Effective("targetSLA", order)
    BY EffectiveStays
  <2>2. CannotMerge(order)' <=> CannotMerge(order)
    BY <2>1 DEF CannotMerge, Agree, OneGroup, Does
  <2> QED
    BY <1>2, <1>3, <2>2 DEF Raises
<1>5. FinalPriority(order)' = FinalPriority(order)
  BY <1>1, <1>2 DEF FinalPriority
<1>6. Resolved(order)' = Resolved(order)
  BY <1>5, FieldStays DEF Resolved
<1>7. SuppressedRules(order)' = SuppressedRules(order)
  BY FieldStays DEF SuppressedRules
<1> QED
  BY <1>4, <1>6, <1>7

LEMMA ServicesStay ==
    ASSUME UNCHANGED <<pack, incident, order>>
    PROVE  /\ Constrained(Resolved(order), order)' = Constrained(Resolved(order), order)
           /\ WithTarget(Constrained(Resolved(order), order))'
                = WithTarget(Constrained(Resolved(order), order))
           /\ UNCHANGED suppressed =>
                RiskScore(order, suppressed)' = RiskScore(order, suppressed)
           /\ UNCHANGED actions =>
                ExecutionPlan(actions, order)' = ExecutionPlan(actions, order)
<1>1. Compliance(order)' = Compliance(order)
  BY DEF Compliance
<1>2. Constrained(Resolved(order), order)' = Constrained(Resolved(order), order)
  BY <1>1, ResolvedStays DEF Constrained, Does
<1>3. WithTarget(Constrained(Resolved(order), order))'
        = WithTarget(Constrained(Resolved(order), order))
  BY <1>2 DEF WithTarget
<1>4. ASSUME UNCHANGED suppressed
      PROVE  RiskScore(order, suppressed)' = RiskScore(order, suppressed)
  <2>1. PICK cs : cs = {c \in Elements(Matched(order)) :
                          \A f \in Field : <<c, f>> \notin suppressed}
    OBVIOUS
  <2>2. cs = {c \in Elements(Matched(order)') :
                \A f \in Field : <<c, f>> \notin suppressed'}
    BY <1>4, <2>1, WritersStay
  <2>3. RiskScore(order, suppressed) = Max({0, Min({TotalScore(cs), 120})})
    BY <2>1 DEF RiskScore
  <2>4. RiskScore(order, suppressed)' = Max({0, Min({TotalScore(cs)', 120})})
    BY <2>2, WritersStay DEF RiskScore
  <2> QED
    BY <2>3, <2>4, TotalStays
<1>5. Sequenced(order)' = Sequenced(order)
  BY WritersStay DEF Sequenced
<1>6. HintSteps(order)' = HintSteps(order)
  BY <1>5 DEF HintSteps, Hint
<1>7. ASSUME UNCHANGED actions
      PROVE  ExecutionPlan(actions, order)' = ExecutionPlan(actions, order)
  BY <1>6, <1>7 DEF ExecutionPlan
<1> QED
  BY <1>2, <1>3, <1>4, <1>7

\* What each service was given and computed, at the stage after it.
Carried ==
    /\ Loaded
    /\ stage # "evaluate" => order \in Orders
    /\ stage = "failed" => Raises(order)
    /\ stage \in {"comply", "target", "score", "plan", "decided"} =>
         ~Raises(order) /\ suppressed = SuppressedRules(order)
    /\ stage = "comply" => actions = Resolved(order)
    /\ stage = "target" => actions = Constrained(Resolved(order), order)
    /\ stage \in {"score", "plan", "decided"} =>
         actions = WithTarget(Constrained(Resolved(order), order))
    /\ stage \in {"plan", "decided"} => risk = RiskScore(order, suppressed)
    /\ stage = "decided" => plan = ExecutionPlan(actions, order)

LEMMA CarriedAlways == Spec => []Carried
<1>1. Init => Carried
  BY DEF Init, Carried, Loaded
<1>2. Carried /\ [Next]_vars => Carried'
  <2> SUFFICES ASSUME Carried, [Next]_vars PROVE Carried'
    OBVIOUS
  <2>0. UNCHANGED <<pack, incident>>
    BY DEF Next, vars, Advance, Evaluate, Resolve, ResolveFails, Comply, FillTarget,
           Score, BuildPlan
  <2>1. Loaded' /\ Orders' = Orders
    BY <2>0, OrdersStay DEF Carried, Loaded
  <2>2. CASE Evaluate
    BY <2>1, <2>2 DEF Carried, Evaluate, Advance
  <2>3. CASE ~Evaluate /\ UNCHANGED order
    <3>1. UNCHANGED <<pack, incident, order>>
      BY <2>0, <2>3
    <3>2. /\ Raises(order)' <=> Raises(order)
          /\ Resolved(order)' = Resolved(order)
          /\ SuppressedRules(order)' = SuppressedRules(order)
          /\ Constrained(Resolved(order), order)' = Constrained(Resolved(order), order)
          /\ WithTarget(Constrained(Resolved(order), order))'
               = WithTarget(Constrained(Resolved(order), order))
          /\ UNCHANGED suppressed =>
               RiskScore(order, suppressed)' = RiskScore(order, suppressed)
          /\ UNCHANGED actions =>
               ExecutionPlan(actions, order)' = ExecutionPlan(actions, order)
      BY <3>1, ResolvedStays, ServicesStay
    <3>3. CASE Resolve
      BY <2>1, <3>1, <3>2, <3>3 DEF Carried, Resolve, Advance
    <3>4. CASE ResolveFails
      BY <2>1, <3>1, <3>2, <3>4 DEF Carried, ResolveFails, Advance
    <3>5. CASE Comply
      BY <2>1, <3>1, <3>2, <3>5 DEF Carried, Comply, Advance
    <3>6. CASE FillTarget
      BY <2>1, <3>1, <3>2, <3>6 DEF Carried, FillTarget, Advance
    <3>7. CASE Score
      BY <2>1, <3>1, <3>2, <3>7 DEF Carried, Score, Advance
    <3>8. CASE BuildPlan
      BY <2>1, <3>1, <3>2, <3>8 DEF Carried, BuildPlan, Advance
    <3>9. CASE UNCHANGED vars
      BY <2>1, <3>1, <3>2, <3>9 DEF Carried, vars
    <3> QED
      BY <2>3, <3>3, <3>4, <3>5, <3>6, <3>7, <3>8, <3>9 DEF Next
  <2>4. Evaluate \/ UNCHANGED order
    BY DEF Next, vars, Resolve, ResolveFails, Comply, FillTarget, Score, BuildPlan
  <2> QED
    BY <2>2, <2>3, <2>4
<1> QED
  BY <1>1, <1>2, PTL DEF Spec

\* ConflictResolver.resolve, which walks lists in whatever order the rules
\* come, decides what section 3b of the design says of the set of rules that
\* match, for every pack and incident.
THEOREM ResolverIsAsDesigned == Spec => []ResolvedAsDesigned
<1>1. Carried => ResolvedAsDesigned
  <2> SUFFICES ASSUME Carried, stage = "comply"
               PROVE  /\ \A f \in Field \ {"priority"} : Decides(f, actions[f])
                      /\ \E v \in Value("priority") \cup {Absent} :
                           Decides("priority", v) /\ RaisedFrom(v, actions["priority"])
    BY DEF ResolvedAsDesigned
  <2>1. Loaded /\ order \in Orders /\ ~Raises(order) /\ actions = Resolved(order)
    BY DEF Carried
  <2>2. PICK s \in Orders : s = order
    BY <2>1
  <2>3. "priority" \in Field
    BY DEF Field
  <2>4. /\ actions["priority"] = FinalPriority(s)
        /\ \A f \in Field \ {"priority"} : actions[f] = FieldValue(f, s)
    BY <2>1, <2>2, <2>3 DEF Resolved
  <2>5. \A f \in Field : Decides(f, FieldValue(f, s))
    BY <2>1, FieldIsDecided
  <2>6. RaisedFrom(FieldValue("priority", s), FinalPriority(s))
    BY <2>1, <2>2, PriorityIsRaised
  <2>7. FieldValue("priority", s) \in Value("priority") \cup {Absent}
    <3>1. CASE FieldValue("priority", s) # Absent
      <4>1. PICK c \in WriterSet("priority") :
              Does(c, "priority") = FieldValue("priority", s)
        BY <2>1, <2>3, <3>1, FieldValueIsWritten
      <4>2. c \in RuleCode
        BY WritersAre
      <4> QED
        BY <2>1, <2>3, <4>1, <4>2, RuleTypes
    <3> QED
      BY <3>1
  <2> QED
    BY <2>3, <2>4, <2>5, <2>6, <2>7
<1> QED
  BY <1>1, CarriedAlways, PTL

\* The trace of a decision can be believed: who is listed as suppressed wrote
\* the field, and the value is that of a rule which is not listed.
THEOREM TraceIsBelievable == Spec => []TraceExplains
<1>1. Carried => TraceExplains
  <2> SUFFICES ASSUME Carried, stage = "comply"
               PROVE  /\ \A e \in suppressed : e[1] \in WriterSet(e[2])
                      /\ \A f \in Field \ {"priority"} : actions[f] # Absent =>
                           \E c \in WriterSet(f) : /\ Does(c, f) = actions[f]
                                                   /\ <<c, f>> \notin suppressed
    BY DEF TraceExplains
  <2>1. Loaded /\ order \in Orders /\ actions = Resolved(order)
    BY DEF Carried
  <2>2. PICK s \in Orders : s = order
    BY <2>1
  <2>3. suppressed = {e \in RuleCode \X Field : e[1] \in Losers(e[2], s)}
    BY <2>2 DEF Carried, SuppressedRules
  <2>4. \A e \in suppressed : e[1] \in WriterSet(e[2])
    BY <2>1, <2>3, LosersWrote
  <2>5. ASSUME NEW f \in Field \ {"priority"}, actions[f] # Absent
        PROVE  \E c \in WriterSet(f) : Does(c, f) = actions[f] /\ <<c, f>> \notin suppressed
    <3>1. actions[f] = FieldValue(f, s)
      BY <2>1, <2>2 DEF Resolved
    <3>2. PICK c \in WriterSet(f) : Does(c, f) = FieldValue(f, s) /\ c \notin Losers(f, s)
      BY <2>1, <2>5, <3>1, FieldValueIsWritten
    <3>3. <<c, f>> \notin suppressed
      BY <2>3, <3>2
    <3> QED
      BY <3>1, <3>2, <3>3
  <2> QED
    BY <2>4, <2>5
<1> QED
  BY <1>1, CarriedAlways, PTL

\* A pack decides the same priority, actions and risk in whatever order the
\* rules come from the database, unless two suppressors or two compliance
\* rules that write one field are tied.
THEOREM DecisionIsReproducible == Spec => []Reproducible
<1>1. Carried => Reproducible
  <2> SUFFICES ASSUME Carried, stage = "decided", ~Tied, NEW s \in Orders
               PROVE  Decision(s) = [priority |-> actions["priority"],
                                     flags |-> [f \in Flags |-> actions[f]],
                                     risk |-> risk]
    BY DEF Reproducible
  <2>1. Loaded /\ order \in Orders
    BY DEF Carried
  <2>2. PICK t \in Orders : t = order
    BY <2>1
  <2>3. PICK a : a = Constrained(Resolved(t), t)
    OBVIOUS
  <2>4. actions = WithTarget(a) /\ risk = RiskScore(t, SuppressedRules(t))
    BY <2>2, <2>3 DEF Carried
  <2>5. DOMAIN a = Field /\ a = [f \in Field |-> a[f]]
    BY <2>3 DEF Constrained
  <2>6. \A f \in Field \ {"targetSLA"} : actions[f] = a[f]
    BY <2>4, <2>5 DEF WithTarget
  <2>7. "priority" \in Field \ {"targetSLA"} /\ Flags \subseteq Field \ {"targetSLA"}
    BY PipelineConstants DEF Field
  <2>8. [f \in Flags |-> actions[f]] = [f \in Flags |-> a[f]]
    BY <2>6, <2>7
  <2>9. Decision(t) = [priority |-> a["priority"], flags |-> [f \in Flags |-> a[f]],
                       risk |-> RiskScore(t, SuppressedRules(t))]
    BY <2>3 DEF Decision
  <2>10. Decision(s) = Decision(t)
    BY <2>1, SameDecision
  <2> QED
    BY <2>4, <2>6, <2>7, <2>8, <2>9, <2>10
<1> QED
  BY <1>1, CarriedAlways, PTL

\* An evaluation raises over a priority or a floor outside the four bands, or
\* over an unreadable target that survivors outside one conflict group
\* contest, and over nothing else a pack or an incident can contain.
THEOREM FailuresAreUnreadable == Spec => []FailsOnlyOnUnreadable
<1>1. ASSUME Carried PROVE FailsOnlyOnUnreadable
  <2>1. SUFFICES ASSUME stage = "failed" PROVE FailsOnlyOnUnreadable
    BY DEF FailsOnlyOnUnreadable
  <2>2. Loaded /\ order \in Orders /\ Raises(order)
    BY <1>1, <2>1 DEF Carried
  <2>3. CASE CannotMerge(order)
    BY <2>2, <2>3, UnmergedAreContested DEF FailsOnlyOnUnreadable
  <2>4. CASE ~CannotMerge(order)
    BY <2>2, <2>4, RaisesOnBands DEF FailsOnlyOnUnreadable
  <2> QED
    BY <2>3, <2>4
<1> QED
  BY <1>1, CarriedAlways, PTL

\* The execution plan carries every decided action that has a step, and no
\* base step fires an action twice or beside the sequence that contains it.
THEOREM PlanIsComplete == Spec => []PlanCarriesDecision
<1>1. Carried => PlanCarriesDecision
  <2> SUFFICES ASSUME Carried, stage = "decided"
               PROVE  /\ \A f \in Flags \cap Elements(BasePrecedence) :
                           actions[f] = TRUE => f \in Elements(plan)
                      /\ \A i, j \in 1..Len(plan) : i < j /\ plan[i] = plan[j] =>
                           j <= 2 * Cardinality({c \in MatchedSet :
                                                   pack[c].sequencing # Absent})
    BY DEF PlanCarriesDecision
  <2>1. PICK s \in Orders : s = order
    BY DEF Carried
  <2>2. PICK a : a = actions
    OBVIOUS
  <2>3. plan = ExecutionPlan(a, s)
    BY <2>1, <2>2 DEF Carried
  <2> QED
    BY <2>2, <2>3, PlanShape DEF SequencedSet
<1> QED
  BY <1>1, CarriedAlways, PTL

-----------------------------------------------------------------------------
(***************************************************************************)
(* Types.  The sum of the scores is a fold over a finite set.              *)
(***************************************************************************)
LEMMA TotalIsNumber ==
    ASSUME NEW S, IsFiniteSet(S), \A c \in S : pack[c].score \in Int
    PROVE  TotalScore(S) \in Int
<1> DEFINE Pick(s) == CHOOSE x \in s : TRUE
           Step(g, s) == IF s = {} THEN 0
                         ELSE pack[Pick(s)].score + g[s \ {Pick(s)}]
<1>1. ASSUME NEW s \in SUBSET S, s # {}
      PROVE  /\ Pick(s) \in s /\ s \ {Pick(s)} \in SUBSET S
             /\ Cardinality(s) \in Nat /\ Cardinality(s \ {Pick(s)}) = Cardinality(s) - 1
  <2>1. IsFiniteSet(s) /\ Cardinality(s) \in Nat
    BY FS_Subset, FS_CardinalityType
  <2>2. Pick(s) \in s
    BY <1>1
  <2>3. Cardinality(s \ {Pick(s)}) = Cardinality(s) - 1
    <3> HIDE DEF Pick
    <3> QED  BY <2>1, <2>2, FS_RemoveElement
  <2> QED
    BY <2>1, <2>2, <2>3
<1>2. PICK n \in Nat : n = Cardinality(S) /\ \A s \in SUBSET S : Cardinality(s) <= n
  BY FS_Subset, FS_CardinalityType
<1> DEFINE T == {m \in Nat : \E g : /\ g = [s \in SUBSET S |-> g[s]]
                                    /\ \A s \in SUBSET S :
                                         Cardinality(s) <= m => g[s] = Step(g, s)}
<1>3. 0 \in T
  <2>1. PICK g : g = [s \in SUBSET S |-> 0]
    OBVIOUS
  <2>2. ASSUME NEW s \in SUBSET S, Cardinality(s) <= 0 PROVE g[s] = Step(g, s)
    <3>1. IsFiniteSet(s) /\ Cardinality(s) \in Nat
      BY FS_Subset, FS_CardinalityType
    <3>2. s = {}
      BY <2>2, <3>1, FS_EmptySet
    <3> QED
      BY <2>1, <3>2
  <2>3. g = [s \in SUBSET S |-> g[s]]
    BY <2>1
  <2> HIDE DEF Step
  <2> QED  BY <2>2, <2>3
<1>4. ASSUME NEW m \in Nat, m \in T PROVE m + 1 \in T
  <2>1. PICK g : /\ g = [s \in SUBSET S |-> g[s]]
                 /\ \A s \in SUBSET S : Cardinality(s) <= m => g[s] = Step(g, s)
    BY <1>4
  <2>2. PICK h : h = [s \in SUBSET S |-> IF Cardinality(s) <= m THEN g[s] ELSE Step(g, s)]
    OBVIOUS
  <2>3. \A s \in SUBSET S : Cardinality(s) <= m => h[s] = g[s]
    <3> HIDE DEF Step
    <3> QED  BY <2>2
  <2>4. ASSUME NEW s \in SUBSET S, Cardinality(s) <= m + 1 PROVE h[s] = Step(h, s)
    <3>1. h[s] = Step(g, s)
      <4> HIDE DEF Step
      <4> QED  BY <2>1, <2>2
    <3>2. Step(h, s) = Step(g, s)
      <4>1. CASE s = {}
        BY <4>1
      <4>2. CASE s # {}
        <5>1. /\ s \ {Pick(s)} \in SUBSET S
              /\ Cardinality(s \ {Pick(s)}) <= m
          <6> HIDE DEF Pick
          <6> QED  BY <1>1, <2>4, <4>2
        <5>2. h[s \ {Pick(s)}] = g[s \ {Pick(s)}]
          <6> HIDE DEF Pick
          <6> QED  BY <2>3, <5>1
        <5> HIDE DEF Pick
        <5> QED  BY <4>2, <5>2
      <4> QED
        BY <4>1, <4>2
    <3> HIDE DEF Step
    <3> QED  BY <3>1, <3>2
  <2>5. h = [s \in SUBSET S |-> h[s]]
    <3> HIDE DEF Step
    <3> QED  BY <2>2
  <2>6. \A s \in SUBSET S : Cardinality(s) <= m + 1 => h[s] = Step(h, s)
    <3> HIDE DEF Step
    <3> QED  BY <2>4
  <2>7. \E k : /\ k = [s \in SUBSET S |-> k[s]]
               /\ \A s \in SUBSET S : Cardinality(s) <= m + 1 => k[s] = Step(k, s)
    <3> HIDE DEF Step
    <3> QED  BY <2>5, <2>6, Zenon
  <2>8. m + 1 \in Nat
    OBVIOUS
  <2> HIDE DEF Step
  <2> QED  BY <2>7, <2>8, Zenon
<1>5. n \in T
  <2>1. T \in SUBSET Nat
    OBVIOUS
  <2> HIDE DEF T
  <2> QED  BY <1>3, <1>4, <2>1, LeastFailure
<1>6. PICK g : g = [s \in SUBSET S |-> Step(g, s)]
  <2>1. PICK g : /\ g = [s \in SUBSET S |-> g[s]]
                 /\ \A s \in SUBSET S : Cardinality(s) <= n => g[s] = Step(g, s)
    <3> HIDE DEF Step
    <3> QED  BY <1>5
  <2>2. \A s \in SUBSET S : g[s] = Step(g, s)
    <3> HIDE DEF Step
    <3> QED  BY <1>2, <2>1
  <2>3. g = [s \in SUBSET S |-> Step(g, s)]
    <3>1. [s \in SUBSET S |-> g[s]] = [s \in SUBSET S |-> Step(g, s)]
      <4> HIDE DEF Step
      <4> QED  BY <2>2
    <3> HIDE DEF Step
    <3> QED  BY <2>1, <3>1
  <2> HIDE DEF Step
  <2> QED  BY <2>3
<1>7. PICK iter : /\ iter = [s \in SUBSET S |-> Step(iter, s)]
                  /\ TotalScore(S) = iter[S]
  BY <1>6 DEF TotalScore, MapThenSumSet, MapThenFoldSet
<1>8. \A s \in SUBSET S : iter[s] = Step(iter, s)
  <2> HIDE DEF Step
  <2> QED  BY <1>7
<1> DEFINE N == {m \in Nat : \A s \in SUBSET S : Cardinality(s) <= m => iter[s] \in Int}
<1>9. 0 \in N
  <2>1. ASSUME NEW s \in SUBSET S, Cardinality(s) <= 0 PROVE iter[s] \in Int
    <3>1. IsFiniteSet(s) /\ Cardinality(s) \in Nat
      BY FS_Subset, FS_CardinalityType
    <3>2. s = {}
      BY <2>1, <3>1, FS_EmptySet
    <3> QED
      BY <1>8, <3>2
  <2> QED
    BY <2>1
<1>10. ASSUME NEW m \in Nat, m \in N PROVE m + 1 \in N
  <2>1. ASSUME NEW s \in SUBSET S, Cardinality(s) <= m + 1 PROVE iter[s] \in Int
    <3>1. CASE s = {}
      <4>1. Step(iter, s) = 0
        BY <3>1
      <4> HIDE DEF Step
      <4> QED  BY <1>8, <4>1
    <3>2. CASE s # {}
      <4>1. /\ Pick(s) \in s /\ s \ {Pick(s)} \in SUBSET S
            /\ Cardinality(s \ {Pick(s)}) <= m
        <5> HIDE DEF Pick
        <5> QED  BY <1>1, <2>1, <3>2
      <4>2. iter[s] = pack[Pick(s)].score + iter[s \ {Pick(s)}]
        <5> HIDE DEF Pick
        <5> QED  BY <1>8, <3>2
      <4>3. iter[s \ {Pick(s)}] \in Int /\ pack[Pick(s)].score \in Int
        <5> HIDE DEF Pick
        <5> QED  BY <1>10, <4>1
      <4> HIDE DEF Pick
      <4> QED  BY <4>2, <4>3
    <3> QED
      BY <3>1, <3>2
  <2> QED
    BY <2>1
<1>11. n \in N
  <2>1. N \in SUBSET Nat
    OBVIOUS
  <2> HIDE DEF N
  <2> QED  BY <1>9, <1>10, <2>1, LeastFailure
<1> HIDE DEF Step
<1> QED
  BY <1>2, <1>7, <1>11

LEMMA FieldValueType ==
    ASSUME Loaded, NEW s \in Orders, NEW f \in Field
    PROVE  FieldValue(f, s) \in Value(f) \cup {Absent}
<1>1. CASE FieldValue(f, s) # Absent
  <2>1. PICK c \in WriterSet(f) : Does(c, f) = FieldValue(f, s)
    BY <1>1, FieldValueIsWritten
  <2>2. c \in RuleCode
    BY WritersAre
  <2> QED
    BY <2>1, <2>2, RuleTypes
<1> QED
  BY <1>1

LEMMA ResolvedType ==
    ASSUME Loaded, NEW s \in Orders, ~Raises(s)
    PROVE  IsActions(Resolved(s))
<1>1. "priority" \in Field
  BY DEF Field
<1>2. PICK v \in Value("priority") \cup {Absent} : v = FieldValue("priority", s)
  BY <1>1, FieldValueType
<1>3. PICK w : w = FinalPriority(s)
  OBVIOUS
<1>4. RaisedFrom(v, w)
  BY <1>2, <1>3, PriorityIsRaised
<1>5. w \in Value("priority") \cup {Absent}
  BY <1>4, ValueTypes DEF RaisedFrom, Band
<1>6. ASSUME NEW f \in Field PROVE Resolved(s)[f] \in Value(f) \cup {Absent}
  <2>1. FieldValue(f, s) \in Value(f) \cup {Absent}
    BY FieldValueType
  <2>2. Resolved(s)[f] = IF f = "priority" THEN w ELSE FieldValue(f, s)
    BY <1>3 DEF Resolved
  <2> QED
    BY <1>5, <2>1, <2>2
<1> QED
  BY <1>6 DEF IsActions

LEMMA ConstrainedType ==
    ASSUME Loaded, NEW s \in Orders, NEW a, IsActions(a)
    PROVE  IsActions(Constrained(a, s)) /\ DOMAIN Constrained(a, s) = Field
<1>1. PICK u : u = Compliance(s)
  OBVIOUS
<1>2. u \in Seq(RuleCode)
  BY <1>1, OrderIs, AmongPlaces DEF Compliance
<1>3. ASSUME NEW f \in Field PROVE Constrained(a, s)[f] \in Value(f) \cup {Absent}
  <2>1. PICK cs : cs = {c \in RuleCode : Does(c, f) # Absent}
    OBVIOUS
  <2>2. PICK w \in Seq(RuleCode) : w = Among(u, cs)
    BY <1>2, AmongPlaces
  <2>3. Constrained(a, s)[f] = IF w = <<>> THEN a[f] ELSE Does(w[Len(w)], f)
    BY <1>1, <2>1, <2>2 DEF Constrained
  <2>4. w # <<>> => w[Len(w)] \in RuleCode
    OBVIOUS
  <2>5. a[f] \in Value(f) \cup {Absent}
    BY DEF IsActions
  <2> QED
    BY <2>3, <2>4, <2>5, RuleTypes
<1> QED
  BY <1>3 DEF IsActions, Constrained

LEMMA WithTargetType ==
    ASSUME Loaded, NEW a, IsActions(a), DOMAIN a = Field, a = [f \in Field |-> a[f]]
    PROVE  IsActions(WithTarget(a))
<1>1. CASE \/ a["targetSLA"] # Absent \/ incident.tier = Absent
           \/ a["priority"] \notin Band
           \/ SlaMatrix[incident.tier][a["priority"]] = Absent
  BY <1>1 DEF WithTarget
<1>2. CASE ~(\/ a["targetSLA"] # Absent \/ incident.tier = Absent
             \/ a["priority"] \notin Band
             \/ SlaMatrix[incident.tier][a["priority"]] = Absent)
  <2>1. incident.tier \in Tiers
    BY <1>2, PipelineConstants DEF Loaded
  <2>2. SlaMatrix[incident.tier] \in [Band -> Nat \cup {Absent}]
    BY <2>1, PipelineConstants
  <2>3. PICK n \in Nat : n = SlaMatrix[incident.tier][a["priority"]]
    BY <1>2, <2>2
  <2>4. PICK d : d = [n |-> n, unit |-> "minutes"]
    OBVIOUS
  <2>5. d \in Value("targetSLA")
    BY <2>4, ValueTypes DEF Duration
  <2>6. WithTarget(a) = [a EXCEPT !["targetSLA"] = d]
    BY <1>2, <2>3, <2>4 DEF WithTarget
  <2>7. ASSUME NEW f \in Field PROVE WithTarget(a)[f] \in Value(f) \cup {Absent}
    <3>1. WithTarget(a)[f] = IF f = "targetSLA" THEN d ELSE a[f]
      BY <2>6
    <3> QED
      BY <2>5, <3>1 DEF IsActions
  <2> QED
    BY <2>7 DEF IsActions
<1> QED
  BY <1>1, <1>2

LEMMA RiskType ==
    ASSUME Loaded, NEW s \in Orders, NEW sup
    PROVE  RiskScore(s, sup) \in 0..120
<1>1. PICK cs : cs = {c \in Elements(Matched(s)) : \A f \in Field : <<c, f>> \notin sup}
  OBVIOUS
<1>2. cs \in SUBSET RuleCode
  BY <1>1, MatchedIs DEF MatchedSet, ActiveCodes
<1>3. IsFiniteSet(cs)
  BY <1>2, PipelineConstants, FS_Subset
<1>4. \A c \in cs : pack[c].score \in Int
  <2>1. \A c \in RuleCode : IsRule(pack[c])
    BY PipelineConstants DEF Loaded
  <2> QED
    BY <1>2, <2>1 DEF IsRule
<1>5. PICK x \in Int : x = TotalScore(cs)
  BY <1>3, <1>4, TotalIsNumber
<1>6. RiskScore(s, sup) = Max({0, Min({x, 120})})
  BY <1>1, <1>5 DEF RiskScore
<1>7. Min({x, 120}) = IF x <= 120 THEN x ELSE 120
  <2>1. \E y \in {x, 120} : \A z \in {x, 120} : y =< z
    OBVIOUS
  <2> QED
    BY <2>1 DEF Min
<1>8. PICK y \in Int : y = Min({x, 120}) /\ y <= 120
  BY <1>7
<1>9. Max({0, y}) = IF y <= 0 THEN 0 ELSE y
  <2>1. \E w \in {0, y} : \A z \in {0, y} : w >= z
    OBVIOUS
  <2> QED
    BY <2>1 DEF Max
<1> QED
  BY <1>6, <1>8, <1>9
=============================================================================
