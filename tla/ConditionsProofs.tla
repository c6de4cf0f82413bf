-------------------------- MODULE ConditionsProofs --------------------------
(***************************************************************************)
(* Proofs about Conditions, for any rules, payloads and trees up to any    *)
(* height.  The code recurses over trees; what such a recursion returns is *)
(* proved by induction on a tree's height.                                 *)
(***************************************************************************)
EXTENDS Conditions, WellFoundedInduction, TLAPS

(***************************************************************************)
(* Numbers.  Induction over data is by a least counterexample.             *)
(***************************************************************************)
LEMMA LeastNatural ==
    ASSUME NEW T, T \subseteq Nat, T # {}
    PROVE  \E x \in T : \A y \in T : x <= y
<1>1. PICK x \in T : \A y \in T : ~(<<y, x>> \in OpToRel(<, Nat))
  BY NatLessThanWellFounded, WFMin
<1>2. \A y \in T : ~(y < x)
  BY <1>1 DEF OpToRel
<1> QED
  BY <1>2

\* A number that fails what 0 does has a least one of its kind before it.
LEMMA LeastFailure ==
    ASSUME NEW T \in SUBSET Nat, 0 \in T, NEW n \in Nat,
           \A m \in Nat : m < n /\ m \in T => m + 1 \in T
    PROVE  n \in T
<1> SUFFICES ASSUME n \notin T PROVE FALSE
  OBVIOUS
<1> DEFINE B == {m \in 0..n : m \notin T}
<1>1. B \subseteq Nat /\ n \in B
  OBVIOUS
<1>2. PICK x \in B : \A y \in B : x <= y
  <2> HIDE DEF B
  <2> QED  BY <1>1, LeastNatural
<1>3. x \in 0..n /\ x \notin T /\ x # 0
  BY <1>2
<1>4. x - 1 \in Nat /\ x - 1 < n /\ (x - 1) + 1 = x /\ x - 1 \in 0..n
  BY <1>3
<1>5. x - 1 \in T
  BY <1>2, <1>4
<1> QED
  BY <1>3, <1>4, <1>5
-----------------------------------------------------------------------------
(***************************************************************************)
(* Trees.                                                                  *)
(***************************************************************************)
Leaves == Literal \union Variable

\* The nodes with operands in S.
Branches(S) == [op : Op, args : Seq(S)]

\* The recursive function of the trees exists.
LEMMA TreesExist ==
    /\ TreesUpTo[0] = Leaves
    /\ \A k \in 1..MaxHeight : TreesUpTo[k] = Leaves \union Branches(TreesUpTo[k - 1])
<1> DEFINE Step(g, k) == Literal \union Variable \union
                           IF k = 0 THEN {} ELSE [op : Op, args : Seq(g[k - 1])]
           T == {m \in Nat : \E g : g = [k \in 0..m |-> Step(g, k)]}
<1>1. T \in SUBSET Nat
  OBVIOUS
<1>2. 0 \in T
  <2>1. PICK g : g = [k \in 0..0 |-> Literal \union Variable]
    OBVIOUS
  <2>2. \A k \in 0..0 : Step(g, k) = Literal \union Variable
    OBVIOUS
  <2>3. g = [k \in 0..0 |-> Step(g, k)]
    BY <2>1, <2>2
  <2> QED
    BY <2>3
<1>3. ASSUME NEW m \in Nat, m \in T PROVE m + 1 \in T
  <2>1. PICK g : g = [k \in 0..m |-> Step(g, k)]
    BY <1>3
  <2>2. PICK h : h = [k \in 0..(m + 1) |-> Step(g, k)]
    OBVIOUS
  <2>3. ASSUME NEW k \in 0..(m + 1) PROVE h[k] = Step(h, k)
    <3>1. k # 0 => k - 1 \in 0..m /\ k - 1 \in 0..(m + 1)
      OBVIOUS
    <3>2. k # 0 => h[k - 1] = g[k - 1]
      <4> HIDE DEF Step
      <4> QED  BY <2>1, <2>2, <3>1
    <3>3. Step(h, k) = Step(g, k)
      BY <3>2
    <3> QED
      <4> HIDE DEF Step
      <4> QED  BY <2>2, <3>3
  <2>4. h = [k \in 0..(m + 1) |-> Step(h, k)]
    <3> HIDE DEF Step
    <3> QED  BY <2>2, <2>3
  <2> QED
    BY <2>4
<1>4. MaxHeight \in T
  <2> HIDE DEF T
  <2> QED  BY <1>1, <1>2, <1>3, LeastFailure, ConditionConstants
<1>5. TreesUpTo = [k \in 0..MaxHeight |-> Step(TreesUpTo, k)]
  <2>1. PICK g : g = [k \in 0..MaxHeight |-> Step(g, k)]
    BY <1>4
  <2> QED
    BY <2>1 DEF TreesUpTo
<1>6. \A k \in 0..MaxHeight : TreesUpTo[k] = Step(TreesUpTo, k)
  <2> HIDE DEF Step
  <2> QED  BY <1>5
<1> QED
  BY <1>6, ConditionConstants DEF Leaves, Branches

\* A literal is a value and no node; a node has an operator.
LEMMA LiteralKind ==
    ASSUME NEW v \in Literal
    PROVE  ~Is("op", v) /\ ~Is("raised", v) /\ v \in Value
<1>1. v \in Value /\ IsValue(v) /\ ~Is("map", v)
  BY ConditionConstants DEF Literal
<1>2. DOMAIN v \in {{"none"}, {"num"}, {"text"}, {"list"}}
  BY <1>1 DEF IsValue, Nothing, Number, Text, List, Map, Is
<1> QED
  BY <1>1, <1>2 DEF Is

LEMMA ValueKind ==
    ASSUME NEW v \in Value
    PROVE  ~Is("op", v) /\ ~Is("raised", v)
<1>1. IsValue(v)
  BY ConditionConstants
<1>2. DOMAIN v \in {{"none"}, {"num"}, {"text"}, {"list"}, {"map"}}
  BY <1>1 DEF IsValue, Nothing, Number, Text, List, Map, Is
<1> QED
  BY <1>2 DEF Is

LEMMA VariableKind ==
    ASSUME NEW n \in Variable
    PROVE  /\ Is("op", n) /\ n.op \in VarOp
           /\ n.op = "var" => n.args \in Seq(Name) /\ n = Var(n.args)
           /\ n.op = "listed" => n.args \in Seq(Seq(Name))
  BY DEF Variable, VarOp, Is, Var, Node

LEMMA BranchKind ==
    ASSUME NEW S, NEW n \in Branches(S)
    PROVE  /\ Is("op", n) /\ n.op \in Op /\ n.op \notin VarOp /\ n.args \in Seq(S)
           /\ n = Node(n.op, n.args)
           /\ n.op \notin OtherOp => n.op \in Operator \union Combinator \union {"unlisted", "malformed"}
<1>1. n \in [op : Op, args : Seq(S)]
  BY DEF Branches
<1>2. "var" \notin Op /\ "listed" \notin Op
  BY ConditionConstants DEF Op, Operator, Combinator, Comparison, Formula
<1> QED
  BY <1>1, <1>2 DEF Is, Node, Op, VarOp

LEMMA NodeIsBranch ==
    ASSUME NEW S, NEW op \in Op, NEW args \in Seq(S)
    PROVE  Node(op, args) \in Branches(S)
  BY DEF Branches, Node

\* More operands, more nodes.
LEMMA BranchesGrow ==
    ASSUME NEW S, NEW T, S \subseteq T
    PROVE  Branches(S) \subseteq Branches(T)
<1>1. \A s : s \in Seq(S) => s \in Seq(T)
  <2> SUFFICES ASSUME NEW s \in Seq(S) PROVE s \in Seq(T)
    OBVIOUS
  <2>1. Len(s) \in Nat /\ s \in [1..Len(s) -> S]
    OBVIOUS
  <2>2. s \in [1..Len(s) -> T]
    BY <2>1
  <2> QED
    BY <2>1, <2>2
<1> QED
  BY <1>1 DEF Branches

LEMMA LevelsGrow ==
    /\ \A k \in 1..MaxHeight : TreesUpTo[k - 1] \subseteq TreesUpTo[k]
    /\ \A k \in 0..MaxHeight : Leaves \subseteq TreesUpTo[k] /\ TreesUpTo[k] \subseteq Tree
<1> DEFINE T == {m \in Nat : m + 1 \in 1..MaxHeight => TreesUpTo[m] \subseteq TreesUpTo[m + 1]}
<1>0. MaxHeight \in Nat /\ MaxHeight >= 3
  BY ConditionConstants
<1>1. T \in SUBSET Nat
  OBVIOUS
<1>2. 0 \in T
  BY TreesExist
<1>3. ASSUME NEW m \in Nat, m \in T PROVE m + 1 \in T
  <2> SUFFICES ASSUME (m + 1) + 1 \in 1..MaxHeight
               PROVE  TreesUpTo[m + 1] \subseteq TreesUpTo[(m + 1) + 1]
    OBVIOUS
  <2>1. m + 1 \in 1..MaxHeight /\ (m + 1) - 1 = m /\ ((m + 1) + 1) - 1 = m + 1
    BY <1>0
  <2>2. TreesUpTo[m] \subseteq TreesUpTo[m + 1]
    BY <1>3, <2>1
  <2>3. Branches(TreesUpTo[m]) \subseteq Branches(TreesUpTo[m + 1])
    BY <2>2, BranchesGrow
  <2> QED
    BY <2>1, <2>3, TreesExist
<1>4. ASSUME NEW k \in 1..MaxHeight PROVE TreesUpTo[k - 1] \subseteq TreesUpTo[k]
  <2>1. k - 1 \in Nat /\ (k - 1) + 1 = k
    BY <1>0
  <2>2. k - 1 \in T
    <3> HIDE DEF T
    <3> QED  BY <1>1, <1>2, <1>3, <2>1, LeastFailure
  <2> QED
    BY <2>1, <2>2
<1>5. ASSUME NEW k \in 0..MaxHeight PROVE Leaves \subseteq TreesUpTo[k]
  BY <1>0, TreesExist
<1>6. ASSUME NEW k \in 0..MaxHeight PROVE TreesUpTo[k] \subseteq Tree
  <2> DEFINE U == {m \in Nat : m <= MaxHeight => TreesUpTo[MaxHeight - m] \subseteq Tree}
  <2>1. U \in SUBSET Nat /\ 0 \in U
    BY <1>0 DEF Tree
  <2>2. ASSUME NEW m \in Nat, m \in U PROVE m + 1 \in U
    <3> SUFFICES ASSUME m + 1 <= MaxHeight PROVE TreesUpTo[MaxHeight - (m + 1)] \subseteq Tree
      OBVIOUS
    <3>1. MaxHeight - m \in 1..MaxHeight /\ (MaxHeight - m) - 1 = MaxHeight - (m + 1) /\ m <= MaxHeight
      BY <1>0
    <3>2. TreesUpTo[MaxHeight - m] \subseteq Tree
      BY <2>2, <3>1
    <3> QED
      BY <1>4, <3>1, <3>2
  <2>3. MaxHeight - k \in Nat /\ MaxHeight - (MaxHeight - k) = k /\ MaxHeight - k <= MaxHeight
    BY <1>0
  <2>4. MaxHeight - k \in U
    <3> HIDE DEF U
    <3> QED  BY <2>1, <2>2, <2>3, LeastFailure
  <2> QED
    BY <2>3, <2>4
<1> QED
  BY <1>4, <1>5, <1>6

LEMMA TreeShape ==
    ASSUME NEW n \in Tree
    PROVE  n \in Literal \/ n \in Variable \/ n \in Branches(Tree)
<1>1. MaxHeight \in 1..MaxHeight /\ MaxHeight - 1 \in 0..MaxHeight
  BY ConditionConstants
<1>2. Tree = Leaves \union Branches(TreesUpTo[MaxHeight - 1])
  BY <1>1, TreesExist DEF Tree
<1>3. Branches(TreesUpTo[MaxHeight - 1]) \subseteq Branches(Tree)
  BY <1>1, LevelsGrow, BranchesGrow
<1> QED
  BY <1>2, <1>3 DEF Leaves

\* What holds of the leaves, and of a node if of its operands, holds of every
\* tree.
LEMMA TreeInduction ==
    ASSUME NEW P, Leaves \subseteq P,
           \A n \in Branches(Tree) : n \in Tree /\ (\A i \in DOMAIN n.args : n.args[i] \in P) => n \in P
    PROVE  \A n \in Tree : n \in P
<1> DEFINE T == {m \in Nat : m <= MaxHeight => TreesUpTo[m] \subseteq P}
<1>0. MaxHeight \in Nat
  BY ConditionConstants
<1>1. T \in SUBSET Nat /\ 0 \in T
  BY TreesExist
<1>2. ASSUME NEW m \in Nat, m \in T PROVE m + 1 \in T
  <2> SUFFICES ASSUME m + 1 <= MaxHeight, NEW n \in TreesUpTo[m + 1] PROVE n \in P
    OBVIOUS
  <2>1. m + 1 \in 1..MaxHeight /\ (m + 1) - 1 = m /\ m \in 0..MaxHeight /\ m + 1 \in 0..MaxHeight
    BY <1>0
  <2>2. n \in Leaves \/ n \in Branches(TreesUpTo[m])
    BY <2>1, TreesExist
  <2>3. CASE n \in Branches(TreesUpTo[m])
    <3>1. n \in Tree /\ n \in Branches(Tree)
      BY <2>1, <2>3, LevelsGrow, BranchesGrow
    <3>2. n.args \in Seq(TreesUpTo[m])
      BY <2>3, BranchKind
    <3>3. TreesUpTo[m] \subseteq P
      BY <1>2, <2>1
    <3>4. \A i \in DOMAIN n.args : n.args[i] \in P
      BY <3>2, <3>3
    <3> QED
      BY <3>1, <3>4
  <2> QED
    BY <2>2, <2>3
<1>3. MaxHeight \in T
  <2> HIDE DEF T
  <2> QED  BY <1>0, <1>1, <1>2, LeastFailure
<1> QED
  BY <1>0, <1>3 DEF Tree

\* The recursive function of Evaluate exists.
LEMMA EvaluateExists ==
    ASSUME NEW d
    PROVE  \E g : g = [n \in Tree |-> IF ~Is("op", n) THEN n
                          ELSE IF n.op \in VarOp THEN Read(n, d)
                          ELSE Combined(n.op, [i \in DOMAIN n.args |-> g[n.args[i]]])]
<1> DEFINE Step(g, n) == IF ~Is("op", n) THEN n
                          ELSE IF n.op \in VarOp THEN Read(n, d)
                          ELSE Combined(n.op, [i \in DOMAIN n.args |-> g[n.args[i]]])
           T == {m \in Nat : m <= MaxHeight => \E g : g = [n \in TreesUpTo[m] |-> Step(g, n)]}
<1>0. MaxHeight \in Nat
  BY ConditionConstants
<1>1. T \in SUBSET Nat
  OBVIOUS
<1>2. \A n, g, h : n \in Leaves => Step(g, n) = Step(h, n)
  BY LiteralKind, VariableKind DEF Leaves, Combinator, VarOp
<1>3. \A n, g, h : Is("op", n) /\ (\A i \in DOMAIN n.args : g[n.args[i]] = h[n.args[i]])
                  => Step(g, n) = Step(h, n)
  OBVIOUS
<1> HIDE DEF Step
<1>4. 0 \in T
  <2>1. PICK g : g = [n \in TreesUpTo[0] |-> Step(<<>>, n)]
    OBVIOUS
  <2>2. \A n \in TreesUpTo[0] : Step(<<>>, n) = Step(g, n)
    BY <1>2, TreesExist
  <2>3. g = [n \in TreesUpTo[0] |-> Step(g, n)]
    BY <2>1, <2>2
  <2> QED
    BY <2>3
<1>5. ASSUME NEW m \in Nat, m \in T PROVE m + 1 \in T
  <2> SUFFICES ASSUME m + 1 <= MaxHeight
               PROVE  \E g : g = [n \in TreesUpTo[m + 1] |-> Step(g, n)]
    OBVIOUS
  <2>1. m + 1 \in 1..MaxHeight /\ (m + 1) - 1 = m /\ m <= MaxHeight
    BY <1>0
  <2>2. PICK g : g = [n \in TreesUpTo[m] |-> Step(g, n)]
    BY <1>5, <2>1
  <2>3. PICK h : h = [n \in TreesUpTo[m + 1] |-> Step(g, n)]
    OBVIOUS
  <2>4. TreesUpTo[m] \subseteq TreesUpTo[m + 1]
    BY <2>1, LevelsGrow
  <2>5. \A n \in TreesUpTo[m] : h[n] = g[n]
    BY <2>2, <2>3, <2>4
  <2>6. ASSUME NEW n \in TreesUpTo[m + 1] PROVE Step(g, n) = Step(h, n)
    <3>1. n \in Leaves \/ n \in Branches(TreesUpTo[m])
      BY <2>1, TreesExist
    <3>2. CASE n \in Branches(TreesUpTo[m])
      <4>1. Is("op", n) /\ n.args \in Seq(TreesUpTo[m])
        BY <3>2, BranchKind
      <4>2. \A i \in DOMAIN n.args : g[n.args[i]] = h[n.args[i]]
        BY <2>5, <4>1
      <4> QED
        BY <1>3, <4>1, <4>2
    <3> QED
      BY <1>2, <3>1, <3>2
  <2>7. h = [n \in TreesUpTo[m + 1] |-> Step(h, n)]
    BY <2>3, <2>6
  <2> QED
    BY <2>7
<1>6. MaxHeight \in T
  <2> HIDE DEF T
  <2> QED  BY <1>0, <1>1, <1>4, <1>5, LeastFailure
<1>7. \E g : g = [n \in Tree |-> Step(g, n)]
  BY <1>0, <1>6 DEF Tree
<1> QED
  BY <1>7 DEF Step

LEMMA EvaluateIs ==
    ASSUME NEW d, NEW m \in Tree
    PROVE  Evaluate(m, d) = IF ~Is("op", m) THEN m
             ELSE IF m.op \in VarOp THEN Read(m, d)
             ELSE Combined(m.op, [i \in DOMAIN m.args |-> Evaluate(m.args[i], d)])
<1> DEFINE Step(g, n) == IF ~Is("op", n) THEN n
                          ELSE IF n.op \in VarOp THEN Read(n, d)
                          ELSE Combined(n.op, [i \in DOMAIN n.args |-> g[n.args[i]]])
           f == CHOOSE g : g = [n \in Tree |-> Step(g, n)]
<1>1. \E g : g = [n \in Tree |-> Step(g, n)]
  BY EvaluateExists
<1>2. f = [n \in Tree |-> Step(f, n)]
  <2> HIDE DEF Step
  <2> QED  BY <1>1
<1>3. f[m] = Step(f, m)
  <2> HIDE DEF Step, f
  <2> QED  BY <1>2
<1>4. \A n : Evaluate(n, d) = f[n]
  BY DEF Evaluate
<1> HIDE DEF f
<1> QED
  BY <1>3, <1>4

\* The recursive function of CountLeaves exists.
LEMMA CountLeavesExists ==
    \E g : g = [n \in Tree |-> IF ~Is("op", n) \/ n.op = "malformed" THEN 0
                          ELSE IF n.op \in Combinator
                          THEN Total([i \in DOMAIN n.args |-> g[n.args[i]]])
                          ELSE 1]
<1> DEFINE Step(g, n) == IF ~Is("op", n) \/ n.op = "malformed" THEN 0
                          ELSE IF n.op \in Combinator
                          THEN Total([i \in DOMAIN n.args |-> g[n.args[i]]])
                          ELSE 1
           T == {m \in Nat : m <= MaxHeight => \E g : g = [n \in TreesUpTo[m] |-> Step(g, n)]}
<1>0. MaxHeight \in Nat
  BY ConditionConstants
<1>1. T \in SUBSET Nat
  OBVIOUS
<1>2. \A n, g, h : n \in Leaves => Step(g, n) = Step(h, n)
  BY LiteralKind, VariableKind DEF Leaves, Combinator, VarOp
<1>3. \A n, g, h : Is("op", n) /\ (\A i \in DOMAIN n.args : g[n.args[i]] = h[n.args[i]])
                  => Step(g, n) = Step(h, n)
  OBVIOUS
<1> HIDE DEF Step
<1>4. 0 \in T
  <2>1. PICK g : g = [n \in TreesUpTo[0] |-> Step(<<>>, n)]
    OBVIOUS
  <2>2. \A n \in TreesUpTo[0] : Step(<<>>, n) = Step(g, n)
    BY <1>2, TreesExist
  <2>3. g = [n \in TreesUpTo[0] |-> Step(g, n)]
    BY <2>1, <2>2
  <2> QED
    BY <2>3
<1>5. ASSUME NEW m \in Nat, m \in T PROVE m + 1 \in T
  <2> SUFFICES ASSUME m + 1 <= MaxHeight
               PROVE  \E g : g = [n \in TreesUpTo[m + 1] |-> Step(g, n)]
    OBVIOUS
  <2>1. m + 1 \in 1..MaxHeight /\ (m + 1) - 1 = m /\ m <= MaxHeight
    BY <1>0
  <2>2. PICK g : g = [n \in TreesUpTo[m] |-> Step(g, n)]
    BY <1>5, <2>1
  <2>3. PICK h : h = [n \in TreesUpTo[m + 1] |-> Step(g, n)]
    OBVIOUS
  <2>4. TreesUpTo[m] \subseteq TreesUpTo[m + 1]
    BY <2>1, LevelsGrow
  <2>5. \A n \in TreesUpTo[m] : h[n] = g[n]
    BY <2>2, <2>3, <2>4
  <2>6. ASSUME NEW n \in TreesUpTo[m + 1] PROVE Step(g, n) = Step(h, n)
    <3>1. n \in Leaves \/ n \in Branches(TreesUpTo[m])
      BY <2>1, TreesExist
    <3>2. CASE n \in Branches(TreesUpTo[m])
      <4>1. Is("op", n) /\ n.args \in Seq(TreesUpTo[m])
        BY <3>2, BranchKind
      <4>2. \A i \in DOMAIN n.args : g[n.args[i]] = h[n.args[i]]
        BY <2>5, <4>1
      <4> QED
        BY <1>3, <4>1, <4>2
    <3> QED
      BY <1>2, <3>1, <3>2
  <2>7. h = [n \in TreesUpTo[m + 1] |-> Step(h, n)]
    BY <2>3, <2>6
  <2> QED
    BY <2>7
<1>6. MaxHeight \in T
  <2> HIDE DEF T
  <2> QED  BY <1>0, <1>1, <1>4, <1>5, LeastFailure
<1>7. \E g : g = [n \in Tree |-> Step(g, n)]
  BY <1>0, <1>6 DEF Tree
<1> QED
  BY <1>7 DEF Step

LEMMA CountLeavesIs ==
    ASSUME NEW m \in Tree
    PROVE  CountLeaves(m) = IF ~Is("op", m) \/ m.op = "malformed" THEN 0
             ELSE IF m.op \in Combinator
             THEN Total([i \in DOMAIN m.args |-> CountLeaves(m.args[i])])
             ELSE 1
<1> DEFINE Step(g, n) == IF ~Is("op", n) \/ n.op = "malformed" THEN 0
                          ELSE IF n.op \in Combinator
                          THEN Total([i \in DOMAIN n.args |-> g[n.args[i]]])
                          ELSE 1
           f == CHOOSE g : g = [n \in Tree |-> Step(g, n)]
<1>1. \E g : g = [n \in Tree |-> Step(g, n)]
  BY CountLeavesExists
<1>2. f = [n \in Tree |-> Step(f, n)]
  <2> HIDE DEF Step
  <2> QED  BY <1>1
<1>3. f[m] = Step(f, m)
  <2> HIDE DEF Step, f
  <2> QED  BY <1>2
<1>4. \A n : CountLeaves(n) = f[n]
  BY DEF CountLeaves
<1> HIDE DEF f
<1> QED
  BY <1>3, <1>4

\* The recursive function of Stripped exists.
LEMMA StrippedExists ==
    \E g : g = [n \in Tree |-> IF ~Is("op", n) \/ n.op = "listed" THEN n
                          ELSE IF n.op = "var" THEN Var(StrippedPath(n.args))
                          ELSE Node(n.op, [i \in DOMAIN n.args |-> g[n.args[i]]])]
<1> DEFINE Step(g, n) == IF ~Is("op", n) \/ n.op = "listed" THEN n
                          ELSE IF n.op = "var" THEN Var(StrippedPath(n.args))
                          ELSE Node(n.op, [i \in DOMAIN n.args |-> g[n.args[i]]])
           T == {m \in Nat : m <= MaxHeight => \E g : g = [n \in TreesUpTo[m] |-> Step(g, n)]}
<1>0. MaxHeight \in Nat
  BY ConditionConstants
<1>1. T \in SUBSET Nat
  OBVIOUS
<1>2. \A n, g, h : n \in Leaves => Step(g, n) = Step(h, n)
  BY LiteralKind, VariableKind DEF Leaves, Combinator, VarOp
<1>3. \A n, g, h : Is("op", n) /\ (\A i \in DOMAIN n.args : g[n.args[i]] = h[n.args[i]])
                  => Step(g, n) = Step(h, n)
  OBVIOUS
<1> HIDE DEF Step
<1>4. 0 \in T
  <2>1. PICK g : g = [n \in TreesUpTo[0] |-> Step(<<>>, n)]
    OBVIOUS
  <2>2. \A n \in TreesUpTo[0] : Step(<<>>, n) = Step(g, n)
    BY <1>2, TreesExist
  <2>3. g = [n \in TreesUpTo[0] |-> Step(g, n)]
    BY <2>1, <2>2
  <2> QED
    BY <2>3
<1>5. ASSUME NEW m \in Nat, m \in T PROVE m + 1 \in T
  <2> SUFFICES ASSUME m + 1 <= MaxHeight
               PROVE  \E g : g = [n \in TreesUpTo[m + 1] |-> Step(g, n)]
    OBVIOUS
  <2>1. m + 1 \in 1..MaxHeight /\ (m + 1) - 1 = m /\ m <= MaxHeight
    BY <1>0
  <2>2. PICK g : g = [n \in TreesUpTo[m] |-> Step(g, n)]
    BY <1>5, <2>1
  <2>3. PICK h : h = [n \in TreesUpTo[m + 1] |-> Step(g, n)]
    OBVIOUS
  <2>4. TreesUpTo[m] \subseteq TreesUpTo[m + 1]
    BY <2>1, LevelsGrow
  <2>5. \A n \in TreesUpTo[m] : h[n] = g[n]
    BY <2>2, <2>3, <2>4
  <2>6. ASSUME NEW n \in TreesUpTo[m + 1] PROVE Step(g, n) = Step(h, n)
    <3>1. n \in Leaves \/ n \in Branches(TreesUpTo[m])
      BY <2>1, TreesExist
    <3>2. CASE n \in Branches(TreesUpTo[m])
      <4>1. Is("op", n) /\ n.args \in Seq(TreesUpTo[m])
        BY <3>2, BranchKind
      <4>2. \A i \in DOMAIN n.args : g[n.args[i]] = h[n.args[i]]
        BY <2>5, <4>1
      <4> QED
        BY <1>3, <4>1, <4>2
    <3> QED
      BY <1>2, <3>1, <3>2
  <2>7. h = [n \in TreesUpTo[m + 1] |-> Step(h, n)]
    BY <2>3, <2>6
  <2> QED
    BY <2>7
<1>6. MaxHeight \in T
  <2> HIDE DEF T
  <2> QED  BY <1>0, <1>1, <1>4, <1>5, LeastFailure
<1>7. \E g : g = [n \in Tree |-> Step(g, n)]
  BY <1>0, <1>6 DEF Tree
<1> QED
  BY <1>7 DEF Step

LEMMA StrippedIs ==
    ASSUME NEW m \in Tree
    PROVE  Stripped(m) = IF ~Is("op", m) \/ m.op = "listed" THEN m
             ELSE IF m.op = "var" THEN Var(StrippedPath(m.args))
             ELSE Node(m.op, [i \in DOMAIN m.args |-> Stripped(m.args[i])])
<1> DEFINE Step(g, n) == IF ~Is("op", n) \/ n.op = "listed" THEN n
                          ELSE IF n.op = "var" THEN Var(StrippedPath(n.args))
                          ELSE Node(n.op, [i \in DOMAIN n.args |-> g[n.args[i]]])
           f == CHOOSE g : g = [n \in Tree |-> Step(g, n)]
<1>1. \E g : g = [n \in Tree |-> Step(g, n)]
  BY StrippedExists
<1>2. f = [n \in Tree |-> Step(f, n)]
  <2> HIDE DEF Step
  <2> QED  BY <1>1
<1>3. f[m] = Step(f, m)
  <2> HIDE DEF Step, f
  <2> QED  BY <1>2
<1>4. \A n : Stripped(n) = f[n]
  BY DEF Stripped
<1> HIDE DEF f
<1> QED
  BY <1>3, <1>4

\* The recursive function of Subtrees exists.
LEMMA SubtreesExists ==
    \E g : g = [n \in Tree |-> {n} \union
                          IF ~Is("op", n) \/ n.op \in VarOp THEN {}
                          ELSE UNION {g[n.args[i]] : i \in DOMAIN n.args}]
<1> DEFINE Step(g, n) == {n} \union
                          IF ~Is("op", n) \/ n.op \in VarOp THEN {}
                          ELSE UNION {g[n.args[i]] : i \in DOMAIN n.args}
           T == {m \in Nat : m <= MaxHeight => \E g : g = [n \in TreesUpTo[m] |-> Step(g, n)]}
<1>0. MaxHeight \in Nat
  BY ConditionConstants
<1>1. T \in SUBSET Nat
  OBVIOUS
<1>2. \A n, g, h : n \in Leaves => Step(g, n) = Step(h, n)
  BY LiteralKind, VariableKind DEF Leaves, Combinator, VarOp
<1>3. \A n, g, h : Is("op", n) /\ (\A i \in DOMAIN n.args : g[n.args[i]] = h[n.args[i]])
                  => Step(g, n) = Step(h, n)
  OBVIOUS
<1> HIDE DEF Step
<1>4. 0 \in T
  <2>1. PICK g : g = [n \in TreesUpTo[0] |-> Step(<<>>, n)]
    OBVIOUS
  <2>2. \A n \in TreesUpTo[0] : Step(<<>>, n) = Step(g, n)
    BY <1>2, TreesExist
  <2>3. g = [n \in TreesUpTo[0] |-> Step(g, n)]
    BY <2>1, <2>2
  <2> QED
    BY <2>3
<1>5. ASSUME NEW m \in Nat, m \in T PROVE m + 1 \in T
  <2> SUFFICES ASSUME m + 1 <= MaxHeight
               PROVE  \E g : g = [n \in TreesUpTo[m + 1] |-> Step(g, n)]
    OBVIOUS
  <2>1. m + 1 \in 1..MaxHeight /\ (m + 1) - 1 = m /\ m <= MaxHeight
    BY <1>0
  <2>2. PICK g : g = [n \in TreesUpTo[m] |-> Step(g, n)]
    BY <1>5, <2>1
  <2>3. PICK h : h = [n \in TreesUpTo[m + 1] |-> Step(g, n)]
    OBVIOUS
  <2>4. TreesUpTo[m] \subseteq TreesUpTo[m + 1]
    BY <2>1, LevelsGrow
  <2>5. \A n \in TreesUpTo[m] : h[n] = g[n]
    BY <2>2, <2>3, <2>4
  <2>6. ASSUME NEW n \in TreesUpTo[m + 1] PROVE Step(g, n) = Step(h, n)
    <3>1. n \in Leaves \/ n \in Branches(TreesUpTo[m])
      BY <2>1, TreesExist
    <3>2. CASE n \in Branches(TreesUpTo[m])
      <4>1. Is("op", n) /\ n.args \in Seq(TreesUpTo[m])
        BY <3>2, BranchKind
      <4>2. \A i \in DOMAIN n.args : g[n.args[i]] = h[n.args[i]]
        BY <2>5, <4>1
      <4> QED
        BY <1>3, <4>1, <4>2
    <3> QED
      BY <1>2, <3>1, <3>2
  <2>7. h = [n \in TreesUpTo[m + 1] |-> Step(h, n)]
    BY <2>3, <2>6
  <2> QED
    BY <2>7
<1>6. MaxHeight \in T
  <2> HIDE DEF T
  <2> QED  BY <1>0, <1>1, <1>4, <1>5, LeastFailure
<1>7. \E g : g = [n \in Tree |-> Step(g, n)]
  BY <1>0, <1>6 DEF Tree
<1> QED
  BY <1>7 DEF Step

LEMMA SubtreesIs ==
    ASSUME NEW m \in Tree
    PROVE  Subtrees(m) = {m} \union
             IF ~Is("op", m) \/ m.op \in VarOp THEN {}
             ELSE UNION {Subtrees(m.args[i]) : i \in DOMAIN m.args}
<1> DEFINE Step(g, n) == {n} \union
                          IF ~Is("op", n) \/ n.op \in VarOp THEN {}
                          ELSE UNION {g[n.args[i]] : i \in DOMAIN n.args}
           f == CHOOSE g : g = [n \in Tree |-> Step(g, n)]
<1>1. \E g : g = [n \in Tree |-> Step(g, n)]
  BY SubtreesExists
<1>2. f = [n \in Tree |-> Step(f, n)]
  <2> HIDE DEF Step
  <2> QED  BY <1>1
<1>3. f[m] = Step(f, m)
  <2> HIDE DEF Step, f
  <2> QED  BY <1>2
<1>4. \A n : Subtrees(n) = f[n]
  BY DEF Subtrees
<1> HIDE DEF f
<1> QED
  BY <1>3, <1>4

\* The recursive function of Mirrored exists.
LEMMA MirroredExists ==
    \E g : g = [n \in Tree |-> IF ~Is("op", n) \/ n.op \notin Combinator THEN n
                          ELSE Node(n.op, Backwards([i \in DOMAIN n.args |-> g[n.args[i]]]))]
<1> DEFINE Step(g, n) == IF ~Is("op", n) \/ n.op \notin Combinator THEN n
                          ELSE Node(n.op, Backwards([i \in DOMAIN n.args |-> g[n.args[i]]]))
           T == {m \in Nat : m <= MaxHeight => \E g : g = [n \in TreesUpTo[m] |-> Step(g, n)]}
<1>0. MaxHeight \in Nat
  BY ConditionConstants
<1>1. T \in SUBSET Nat
  OBVIOUS
<1>2. \A n, g, h : n \in Leaves => Step(g, n) = Step(h, n)
  BY LiteralKind, VariableKind DEF Leaves, Combinator, VarOp
<1>3. \A n, g, h : Is("op", n) /\ (\A i \in DOMAIN n.args : g[n.args[i]] = h[n.args[i]])
                  => Step(g, n) = Step(h, n)
  OBVIOUS
<1> HIDE DEF Step
<1>4. 0 \in T
  <2>1. PICK g : g = [n \in TreesUpTo[0] |-> Step(<<>>, n)]
    OBVIOUS
  <2>2. \A n \in TreesUpTo[0] : Step(<<>>, n) = Step(g, n)
    BY <1>2, TreesExist
  <2>3. g = [n \in TreesUpTo[0] |-> Step(g, n)]
    BY <2>1, <2>2
  <2> QED
    BY <2>3
<1>5. ASSUME NEW m \in Nat, m \in T PROVE m + 1 \in T
  <2> SUFFICES ASSUME m + 1 <= MaxHeight
               PROVE  \E g : g = [n \in TreesUpTo[m + 1] |-> Step(g, n)]
    OBVIOUS
  <2>1. m + 1 \in 1..MaxHeight /\ (m + 1) - 1 = m /\ m <= MaxHeight
    BY <1>0
  <2>2. PICK g : g = [n \in TreesUpTo[m] |-> Step(g, n)]
    BY <1>5, <2>1
  <2>3. PICK h : h = [n \in TreesUpTo[m + 1] |-> Step(g, n)]
    OBVIOUS
  <2>4. TreesUpTo[m] \subseteq TreesUpTo[m + 1]
    BY <2>1, LevelsGrow
  <2>5. \A n \in TreesUpTo[m] : h[n] = g[n]
    BY <2>2, <2>3, <2>4
  <2>6. ASSUME NEW n \in TreesUpTo[m + 1] PROVE Step(g, n) = Step(h, n)
    <3>1. n \in Leaves \/ n \in Branches(TreesUpTo[m])
      BY <2>1, TreesExist
    <3>2. CASE n \in Branches(TreesUpTo[m])
      <4>1. Is("op", n) /\ n.args \in Seq(TreesUpTo[m])
        BY <3>2, BranchKind
      <4>2. \A i \in DOMAIN n.args : g[n.args[i]] = h[n.args[i]]
        BY <2>5, <4>1
      <4> QED
        BY <1>3, <4>1, <4>2
    <3> QED
      BY <1>2, <3>1, <3>2
  <2>7. h = [n \in TreesUpTo[m + 1] |-> Step(h, n)]
    BY <2>3, <2>6
  <2> QED
    BY <2>7
<1>6. MaxHeight \in T
  <2> HIDE DEF T
  <2> QED  BY <1>0, <1>1, <1>4, <1>5, LeastFailure
<1>7. \E g : g = [n \in Tree |-> Step(g, n)]
  BY <1>0, <1>6 DEF Tree
<1> QED
  BY <1>7 DEF Step

LEMMA MirroredIs ==
    ASSUME NEW m \in Tree
    PROVE  Mirrored(m) = IF ~Is("op", m) \/ m.op \notin Combinator THEN m
             ELSE Node(m.op, Backwards([i \in DOMAIN m.args |-> Mirrored(m.args[i])]))
<1> DEFINE Step(g, n) == IF ~Is("op", n) \/ n.op \notin Combinator THEN n
                          ELSE Node(n.op, Backwards([i \in DOMAIN n.args |-> g[n.args[i]]]))
           f == CHOOSE g : g = [n \in Tree |-> Step(g, n)]
<1>1. \E g : g = [n \in Tree |-> Step(g, n)]
  BY MirroredExists
<1>2. f = [n \in Tree |-> Step(f, n)]
  <2> HIDE DEF Step
  <2> QED  BY <1>1
<1>3. f[m] = Step(f, m)
  <2> HIDE DEF Step, f
  <2> QED  BY <1>2
<1>4. \A n : Mirrored(n) = f[n]
  BY DEF Mirrored
<1> HIDE DEF f
<1> QED
  BY <1>3, <1>4

-----------------------------------------------------------------------------
(***************************************************************************)
(* Paths and sums.                                                         *)
(***************************************************************************)
\* c is the way down from d, name by name.
Way(c, d, path) ==
    /\ c[0] = d
    /\ \A i \in 1..Len(path) : c[i] = Child(c[i - 1], path[i])

LEMMA LookupWay ==
    ASSUME NEW path, NEW d, Len(path) \in Nat
    PROVE  \E c : Lookup(path, d) = c[Len(path)] /\ Way(c, d, path)
<1> DEFINE Step(g, i) == IF i = 0 THEN d ELSE Child(g[i - 1], path[i])
           T == {m \in Nat : \E g : g = [i \in 0..m |-> Step(g, i)]}
           f == CHOOSE g : g = [i \in 0..Len(path) |-> Step(g, i)]
<1>1. T \in SUBSET Nat
  OBVIOUS
<1>2. 0 \in T
  <2>1. PICK g : g = [i \in 0..0 |-> d]
    OBVIOUS
  <2>2. \A i \in 0..0 : Step(g, i) = d
    OBVIOUS
  <2>3. g = [i \in 0..0 |-> Step(g, i)]
    BY <2>1, <2>2
  <2> QED
    BY <2>3
<1>3. ASSUME NEW m \in Nat, m \in T PROVE m + 1 \in T
  <2>1. PICK g : g = [i \in 0..m |-> Step(g, i)]
    BY <1>3
  <2>2. PICK h : h = [i \in 0..(m + 1) |-> Step(g, i)]
    OBVIOUS
  <2>3. ASSUME NEW i \in 0..(m + 1) PROVE h[i] = Step(h, i)
    <3>1. i # 0 => i - 1 \in 0..m /\ i - 1 \in 0..(m + 1)
      OBVIOUS
    <3>2. i # 0 => h[i - 1] = g[i - 1]
      <4> HIDE DEF Step
      <4> QED  BY <2>1, <2>2, <3>1
    <3>3. Step(h, i) = Step(g, i)
      BY <3>2
    <3> QED
      <4> HIDE DEF Step
      <4> QED  BY <2>2, <3>3
  <2>4. h = [i \in 0..(m + 1) |-> Step(h, i)]
    <3> HIDE DEF Step
    <3> QED  BY <2>2, <2>3
  <2> QED
    BY <2>4
<1>4. Len(path) \in T
  <2> HIDE DEF T
  <2> QED  BY <1>1, <1>2, <1>3, LeastFailure
<1>5. f = [i \in 0..Len(path) |-> Step(f, i)]
  <2>1. \E g : g = [i \in 0..Len(path) |-> Step(g, i)]
    BY <1>4
  <2> HIDE DEF Step
  <2> QED  BY <2>1
<1>6. \A i \in 0..Len(path) : f[i] = Step(f, i)
  <2> HIDE DEF Step, f
  <2> QED  BY <1>5
<1>7. Lookup(path, d) = f[Len(path)]
  BY DEF Lookup
<1> HIDE DEF f
<1>8. f[0] = d /\ \A i \in 1..Len(path) : f[i] = Child(f[i - 1], path[i])
  BY <1>6
<1> QED
  BY <1>7, <1>8 DEF Way

\* A sum adds one number at a time.
LEMMA TotalSteps ==
    ASSUME NEW s, Len(s) \in Nat
    PROVE  \E c : /\ Total(s) = c[Len(s)]
                  /\ c[0] = 0
                  /\ \A i \in 1..Len(s) : c[i] = c[i - 1] + s[i]
<1> DEFINE Step(g, i) == IF i = 0 THEN 0 ELSE g[i - 1] + s[i]
           T == {m \in Nat : \E g : g = [i \in 0..m |-> Step(g, i)]}
           f == CHOOSE g : g = [i \in 0..Len(s) |-> Step(g, i)]
<1>1. T \in SUBSET Nat
  OBVIOUS
<1>2. 0 \in T
  <2>1. PICK g : g = [i \in 0..0 |-> 0]
    OBVIOUS
  <2>2. \A i \in 0..0 : Step(g, i) = 0
    OBVIOUS
  <2>3. g = [i \in 0..0 |-> Step(g, i)]
    BY <2>1, <2>2
  <2> QED
    BY <2>3
<1>3. ASSUME NEW m \in Nat, m \in T PROVE m + 1 \in T
  <2>1. PICK g : g = [i \in 0..m |-> Step(g, i)]
    BY <1>3
  <2>2. PICK h : h = [i \in 0..(m + 1) |-> Step(g, i)]
    OBVIOUS
  <2>3. ASSUME NEW i \in 0..(m + 1) PROVE h[i] = Step(h, i)
    <3>1. i # 0 => i - 1 \in 0..m /\ i - 1 \in 0..(m + 1)
      OBVIOUS
    <3>2. i # 0 => h[i - 1] = g[i - 1]
      <4> HIDE DEF Step
      <4> QED  BY <2>1, <2>2, <3>1
    <3>3. Step(h, i) = Step(g, i)
      BY <3>2
    <3> QED
      <4> HIDE DEF Step
      <4> QED  BY <2>2, <3>3
  <2>4. h = [i \in 0..(m + 1) |-> Step(h, i)]
    <3> HIDE DEF Step
    <3> QED  BY <2>2, <2>3
  <2> QED
    BY <2>4
<1>4. Len(s) \in T
  <2> HIDE DEF T
  <2> QED  BY <1>1, <1>2, <1>3, LeastFailure
<1>5. f = [i \in 0..Len(s) |-> Step(f, i)]
  <2>1. \E g : g = [i \in 0..Len(s) |-> Step(g, i)]
    BY <1>4
  <2> HIDE DEF Step
  <2> QED  BY <2>1
<1>6. \A i \in 0..Len(s) : f[i] = Step(f, i)
  <2> HIDE DEF Step, f
  <2> QED  BY <1>5
<1>7. Total(s) = f[Len(s)]
  BY DEF Total
<1> HIDE DEF f
<1>8. f[0] = 0 /\ \A i \in 1..Len(s) : f[i] = f[i - 1] + s[i]
  BY <1>6
<1> QED
  BY <1>7, <1>8

\* What a lookup finds in a payload is a value.
LEMMA LookupValue ==
    ASSUME NEW d \in Value, NEW path \in Seq(Name)
    PROVE  Lookup(path, d) \in Value
<1>0. Len(path) \in Nat
  OBVIOUS
<1>1. PICK c : /\ Lookup(path, d) = c[Len(path)]
               /\ c[0] = d
               /\ \A i \in 1..Len(path) : c[i] = Child(c[i - 1], path[i])
  BY <1>0, LookupWay DEF Way
<1>2. \A v, k : v \in Value => Child(v, k) \in Value
  <2> SUFFICES ASSUME NEW v \in Value, NEW k PROVE Child(v, k) \in Value
    OBVIOUS
  <2>1. Is("map", v) => \A x \in DOMAIN v.map : v.map[x] \in Value
    <3>1. IsValue(v)
      BY ConditionConstants
    <3> QED
      BY <3>1 DEF IsValue, Nothing, Number, Text, List, Is
  <2> QED
    BY <2>1, ConditionConstants DEF Child
<1> DEFINE T == {m \in Nat : m <= Len(path) => c[m] \in Value}
<1>3. T \in SUBSET Nat /\ 0 \in T
  BY <1>1
<1>4. ASSUME NEW m \in Nat, m \in T PROVE m + 1 \in T
  <2> SUFFICES ASSUME m + 1 <= Len(path) PROVE c[m + 1] \in Value
    OBVIOUS
  <2>1. c[m] \in Value /\ m + 1 \in 1..Len(path) /\ (m + 1) - 1 = m
    BY <1>0, <1>4
  <2>2. c[m + 1] = Child(c[m], path[m + 1])
    BY <1>1, <2>1
  <2> QED
    BY <1>2, <2>1, <2>2
<1>5. Len(path) \in T
  <2> HIDE DEF T
  <2> QED  BY <1>0, <1>3, <1>4, LeastFailure
<1> QED
  BY <1>0, <1>1, <1>5

\* There is only one way.
LEMMA LookupAlong ==
    ASSUME NEW path, NEW d, NEW a, Len(path) \in Nat, Way(a, d, path)
    PROVE  Lookup(path, d) = a[Len(path)]
<1>1. PICK b : Lookup(path, d) = b[Len(path)] /\ Way(b, d, path)
  BY LookupWay
<1> DEFINE T == {m \in Nat : m <= Len(path) => a[m] = b[m]}
<1>2. T \in SUBSET Nat /\ 0 \in T
  BY <1>1 DEF Way
<1>3. ASSUME NEW m \in Nat, m \in T PROVE m + 1 \in T
  <2> SUFFICES ASSUME m + 1 <= Len(path) PROVE a[m + 1] = b[m + 1]
    OBVIOUS
  <2>1. a[m] = b[m] /\ m + 1 \in 1..Len(path) /\ (m + 1) - 1 = m
    BY <1>3
  <2>2. a[m + 1] = Child(a[m], path[m + 1]) /\ b[m + 1] = Child(b[m], path[m + 1])
    BY <1>1, <2>1 DEF Way
  <2> QED
    BY <2>1, <2>2
<1>4. Len(path) \in T
  <2> HIDE DEF T
  <2> QED  BY <1>2, <1>3, LeastFailure
<1> QED
  BY <1>1, <1>4

\* The sum of n ones.
LEMMA TotalOfOnes ==
    ASSUME NEW s, Len(s) \in Nat, \A i \in 1..Len(s) : s[i] = 1
    PROVE  Total(s) = Len(s)
<1>1. PICK c : /\ Total(s) = c[Len(s)]
               /\ c[0] = 0
               /\ \A i \in 1..Len(s) : c[i] = c[i - 1] + s[i]
  BY TotalSteps
<1> DEFINE T == {m \in Nat : m <= Len(s) => c[m] = m}
<1>2. T \in SUBSET Nat /\ 0 \in T
  BY <1>1
<1>3. ASSUME NEW m \in Nat, m \in T PROVE m + 1 \in T
  <2> SUFFICES ASSUME m + 1 <= Len(s) PROVE c[m + 1] = m + 1
    OBVIOUS
  <2>1. c[m] = m /\ m + 1 \in 1..Len(s) /\ (m + 1) - 1 = m
    BY <1>3
  <2>2. c[m + 1] = c[m] + s[m + 1] /\ s[m + 1] = 1
    BY <1>1, <2>1
  <2> QED
    BY <2>1, <2>2
<1>4. Len(s) \in T
  <2> HIDE DEF T
  <2> QED  BY <1>2, <1>3, LeastFailure
<1> QED
  BY <1>1, <1>4

-----------------------------------------------------------------------------
(***************************************************************************)
(* Stripping the namespace.                                                *)
(***************************************************************************)
LEMMA ListType ==
    ASSUME NEW S, NEW s \in Seq(S), NEW T, NEW t, DOMAIN t = DOMAIN s,
           t = [i \in DOMAIN s |-> t[i]], \A i \in DOMAIN s : t[i] \in T
    PROVE  t \in Seq(T) /\ Len(t) = Len(s)
<1>1. Len(s) \in Nat /\ DOMAIN s = 1..Len(s)
  OBVIOUS
<1>2. t \in [1..Len(s) -> T]
  BY <1>1
<1> QED
  BY <1>1, <1>2

LEMMA StrippedPathType ==
    ASSUME NEW path \in Seq(Name)
    PROVE  StrippedPath(path) \in Seq(Name)
<1>1. CASE Len(path) > 1
  <2>1. path # <<>>
    BY <1>1
  <2>2. Tail(path) \in Seq(Name)
    BY <2>1
  <2> QED
    BY <2>2 DEF StrippedPath
<1>2. CASE ~(Len(path) > 1)
  BY <1>2 DEF StrippedPath
<1> QED
  BY <1>1, <1>2

\* A stripped tree is as high as before, with operands in the same places.
LEMMA StrippedLevel ==
    \A k \in 0..MaxHeight, n \in Tree : n \in TreesUpTo[k] => Stripped(n) \in TreesUpTo[k]
<1> DEFINE T == {m \in Nat : m <= MaxHeight => \A n \in TreesUpTo[m] : Stripped(n) \in TreesUpTo[m]}
<1>0. MaxHeight \in Nat
  BY ConditionConstants
<1>1. ASSUME NEW n \in Leaves, n \in Tree PROVE Stripped(n) \in Leaves
  <2>1. CASE n \in Literal
    BY <1>1, <2>1, StrippedIs, LiteralKind
  <2>2. CASE n \in Variable
    <3>1. /\ Is("op", n) /\ n.op \in {"var", "listed"}
          /\ n.op = "var" => n.args \in Seq(Name)
      BY <2>2, VariableKind DEF VarOp
    <3>2. CASE n.op = "var"
      <4>1. Stripped(n) = Var(StrippedPath(n.args))
        BY <1>1, <3>1, <3>2, StrippedIs
      <4>2. Var(StrippedPath(n.args)) \in Variable
        BY <3>1, <3>2, StrippedPathType DEF Var, Node, Variable
      <4> QED
        BY <4>1, <4>2 DEF Leaves
    <3>3. CASE n.op = "listed"
      BY <1>1, <3>3, StrippedIs
    <3> QED
      BY <3>1, <3>2, <3>3
  <2> QED
    BY <2>1, <2>2 DEF Leaves
<1>2. T \in SUBSET Nat /\ 0 \in T
  <2>1. 0 \in 0..MaxHeight
    BY <1>0
  <2>2. \A n \in TreesUpTo[0] : Stripped(n) \in TreesUpTo[0]
    BY <1>1, <2>1, TreesExist, LevelsGrow
  <2> QED
    BY <2>2
<1>3. ASSUME NEW m \in Nat, m \in T PROVE m + 1 \in T
  <2> SUFFICES ASSUME m + 1 <= MaxHeight, NEW n \in TreesUpTo[m + 1]
               PROVE  Stripped(n) \in TreesUpTo[m + 1]
    OBVIOUS
  <2>1. m + 1 \in 1..MaxHeight /\ (m + 1) - 1 = m /\ m \in 0..MaxHeight /\ m + 1 \in 0..MaxHeight
    BY <1>0
  <2>2. n \in Leaves \/ n \in Branches(TreesUpTo[m])
    BY <2>1, TreesExist
  <2>3. n \in Tree
    BY <2>1, LevelsGrow
  <2>4. CASE n \in Leaves
    BY <1>1, <2>1, <2>3, <2>4, LevelsGrow
  <2>5. CASE n \in Branches(TreesUpTo[m])
    <3>1. /\ Is("op", n) /\ n.op \in Op /\ n.op # "var" /\ n.op # "listed"
          /\ n.args \in Seq(TreesUpTo[m])
      BY <2>5, BranchKind DEF VarOp
    <3>2. PICK t : t = [i \in DOMAIN n.args |-> Stripped(n.args[i])]
      OBVIOUS
    <3>3. Stripped(n) = Node(n.op, t)
      BY <2>3, <3>1, <3>2, StrippedIs
    <3>4. \A i \in DOMAIN n.args : t[i] \in TreesUpTo[m]
      BY <1>3, <2>1, <3>1, <3>2
    <3>5. t \in Seq(TreesUpTo[m]) /\ Len(t) = Len(n.args)
      <4>1. DOMAIN t = DOMAIN n.args /\ t = [i \in DOMAIN n.args |-> t[i]]
        BY <3>2
      <4>2. PICK s \in Seq(TreesUpTo[m]) : s = n.args
        BY <3>1
      <4>3. DOMAIN t = DOMAIN s /\ t = [i \in DOMAIN s |-> t[i]] /\ \A i \in DOMAIN s : t[i] \in TreesUpTo[m]
        BY <3>4, <4>1, <4>2
      <4>4. t \in Seq(TreesUpTo[m]) /\ Len(t) = Len(s)
        BY <4>3, ListType
      <4> QED
        BY <4>2, <4>4
    <3>6. Node(n.op, t) \in Branches(TreesUpTo[m])
      BY <3>1, <3>5, NodeIsBranch
    <3> QED
      BY <2>1, <3>3, <3>6, TreesExist
  <2> QED
    BY <2>2, <2>4, <2>5
<1>4. ASSUME NEW k \in 0..MaxHeight, NEW n \in TreesUpTo[k] PROVE Stripped(n) \in TreesUpTo[k]
  <2>1. k \in Nat /\ k <= MaxHeight
    BY <1>0
  <2>2. k \in T
    <3> HIDE DEF T
    <3> QED  BY <1>2, <1>3, <2>1, LeastFailure
  <2> QED
    BY <2>1, <2>2
<1> QED
  BY <1>4

LEMMA StrippedTree ==
    ASSUME NEW n \in Tree
    PROVE  Stripped(n) \in Tree
<1>1. MaxHeight \in 0..MaxHeight
  BY ConditionConstants
<1> QED
  BY <1>1, StrippedLevel DEF Tree

\* The payload with itself as the namespace "incident".
Nested(d) == Map([k \in DOMAIN d.map \union {"incident"} |->
                    IF k = "incident" THEN d ELSE d.map[k]])

LEMMA NestedChildren ==
    ASSUME NEW d, Is("map", d)
    PROVE  /\ Child(Nested(d), "incident") = d
           /\ \A k : k # "incident" => Child(Nested(d), k) = Child(d, k)
<1>1. PICK f : f = [k \in DOMAIN d.map \union {"incident"} |->
                      IF k = "incident" THEN d ELSE d.map[k]]
  OBVIOUS
<1>2. Nested(d) = Map(f)
  BY <1>1 DEF Nested
<1>3. Is("map", Map(f)) /\ Map(f).map = f
  BY DEF Is, Map
<1>4. DOMAIN f = DOMAIN d.map \union {"incident"} /\ f["incident"] = d
      /\ \A k \in DOMAIN d.map : k # "incident" => f[k] = d.map[k]
  BY <1>1
<1> HIDE DEF Nested
<1> QED
  BY <1>2, <1>3, <1>4 DEF Child

LEMMA LookupStripped ==
    ASSUME NEW d, Is("map", d), NEW path \in Seq(Name), path # <<>>, path # <<"incident">>
    PROVE  Lookup(StrippedPath(path), d) = Lookup(path, Nested(d))
<1>0. Len(path) \in Nat /\ Len(path) >= 1
  OBVIOUS
<1>1. PICK a : Lookup(path, Nested(d)) = a[Len(path)] /\ Way(a, Nested(d), path)
  BY <1>0, LookupWay
<1>2. a[1] = Child(Nested(d), path[1]) /\ \A i \in 2..Len(path) : a[i] = Child(a[i - 1], path[i])
  BY <1>0, <1>1 DEF Way
<1>3. CASE path[1] = "incident"
  <2>1. Len(path) > 1
    <3>1. ASSUME Len(path) = 1 PROVE path = <<path[1]>>
      BY <3>1
    <3>2. Len(path) # 1
      BY <1>3, <3>1
    <3>3. \A l \in Nat : l >= 1 /\ l # 1 => l > 1
      OBVIOUS
    <3> QED
      BY <1>0, <3>2, <3>3, Zenon
  <2>2. PICK q : q = Tail(path)
    OBVIOUS
  <2>3. StrippedPath(path) = q
    BY <1>3, <2>1, <2>2 DEF StrippedPath
  <2>4. Len(q) = Len(path) - 1 /\ Len(q) \in Nat /\ \A i \in 1..Len(q) : q[i] = path[i + 1]
    BY <1>0, <2>2
  <2>5. PICK b : b = [i \in 0..Len(q) |-> a[i + 1]]
    OBVIOUS
  <2>6. b[0] = d /\ b[Len(q)] = a[Len(path)]
    BY <1>2, <1>3, <2>4, <2>5, NestedChildren
  <2>7. ASSUME NEW i \in 1..Len(q) PROVE b[i] = Child(b[i - 1], q[i])
    <3>1. i + 1 \in 2..Len(path) /\ (i + 1) - 1 = i /\ i \in 0..Len(q) /\ i - 1 \in 0..Len(q)
      BY <2>4
    <3>2. b[i] = a[i + 1] /\ b[i - 1] = a[i] /\ q[i] = path[i + 1]
      BY <2>4, <2>5, <3>1
    <3>3. a[i + 1] = Child(a[i], path[i + 1])
      BY <1>2, <3>1
    <3> QED
      BY <3>2, <3>3
  <2>8. Way(b, d, q)
    BY <2>6, <2>7 DEF Way
  <2>9. Lookup(q, d) = b[Len(q)]
    BY <2>4, <2>8, LookupAlong
  <2> QED
    BY <1>1, <2>3, <2>6, <2>9
<1>4. CASE path[1] # "incident"
  <2>1. StrippedPath(path) = path
    BY <1>4 DEF StrippedPath
  <2>2. PICK b : b = [i \in 0..Len(path) |-> IF i = 0 THEN d ELSE a[i]]
    OBVIOUS
  <2>3. b[0] = d /\ \A i \in 1..Len(path) : b[i] = a[i]
    BY <1>0, <2>2
  <2>4. b[1] = Child(b[0], path[1])
    BY <1>0, <1>2, <1>4, <2>3, NestedChildren
  <2>5. ASSUME NEW i \in 1..Len(path) PROVE b[i] = Child(b[i - 1], path[i])
    <3>1. i = 1 \/ (i \in 2..Len(path) /\ i - 1 \in 1..Len(path))
      BY <1>0
    <3>2. i = 1 => i - 1 = 0
      OBVIOUS
    <3> QED
      BY <1>2, <2>3, <2>4, <3>1, <3>2
  <2>6. Way(b, d, path)
    BY <2>3, <2>5 DEF Way
  <2>7. Lookup(path, d) = b[Len(path)]
    BY <1>0, <2>6, LookupAlong
  <2>8. b[Len(path)] = a[Len(path)]
    BY <1>0, <2>3
  <2> QED
    BY <1>1, <2>1, <2>7, <2>8
<1> QED
  BY <1>3, <1>4

\* The operands of a node are among its subtrees, with theirs.
LEMMA SubtreesGrow ==
    ASSUME NEW n \in Branches(Tree), n \in Tree
    PROVE  \A i \in DOMAIN n.args : Subtrees(n.args[i]) \subseteq Subtrees(n)
  BY SubtreesIs, BranchKind

LEMMA OwnSubtree ==
    ASSUME NEW n \in Tree
    PROVE  n \in Subtrees(n)
  BY SubtreesIs

\* The stripped tree is evaluated as the tree of the file is on the payload as
\* a namespace.
LEMMA EvaluateStripped ==
    ASSUME NEW d, Is("map", d)
    PROVE  \A n \in Tree : (\A m \in Subtrees(n) : ~Unmoved(m)) =>
             Evaluate(Stripped(n), d) = Evaluate(n, Nested(d))
<1> DEFINE P == {n \in Tree : (\A m \in Subtrees(n) : ~Unmoved(m)) =>
                                Evaluate(Stripped(n), d) = Evaluate(n, Nested(d))}
<1>0. Leaves \subseteq Tree
  BY LevelsGrow, ConditionConstants
<1>1. ASSUME NEW n \in Literal PROVE n \in P
  <2>1. n \in Tree /\ ~Is("op", n)
    BY <1>0, LiteralKind DEF Leaves
  <2>2. Stripped(n) = n /\ Evaluate(n, d) = n /\ Evaluate(n, Nested(d)) = n
    BY <2>1, StrippedIs, EvaluateIs
  <2> QED
    BY <2>1, <2>2
<1>2. ASSUME NEW n \in Variable PROVE n \in P
  <2>1. n \in Tree
    BY <1>0 DEF Leaves
  <2>2. /\ Is("op", n) /\ n.op \in {"var", "listed"} /\ n.op \in VarOp
        /\ n.op = "var" => n.args \in Seq(Name)
        /\ n.op = "listed" => n.args \in Seq(Seq(Name))
    BY VariableKind DEF VarOp
  <2>3. \A e : Evaluate(n, e) = Read(n, e)
    BY <2>1, <2>2, EvaluateIs
  <2> SUFFICES ASSUME ~Unmoved(n) PROVE Evaluate(Stripped(n), d) = Evaluate(n, Nested(d))
    BY <2>1, OwnSubtree
  <2>4. CASE n.op = "var"
    <3>1. n.args \in Seq(Name) /\ n.args # <<>> /\ n.args # <<"incident">>
      BY <2>2, <2>4 DEF Unmoved
    <3>2. PICK q : q = StrippedPath(n.args)
      OBVIOUS
    <3>3. q \in Seq(Name) /\ Lookup(q, d) = Lookup(n.args, Nested(d))
      BY <3>1, <3>2, StrippedPathType, LookupStripped
    <3>4. Stripped(n) = Var(q)
      BY <2>1, <2>2, <2>4, <3>2, StrippedIs
    <3>5. Var(q) \in Tree /\ Is("op", Var(q)) /\ Var(q).op = "var" /\ Var(q).args = q
      <4>1. Var(q) \in Variable
        BY <3>3 DEF Variable, Var, Node
      <4> QED
        BY <1>0, <4>1 DEF Leaves, Var, Node, Is
    <3>6. Evaluate(Var(q), d) = Lookup(q, d)
      BY <3>5, EvaluateIs DEF VarOp, Read
    <3>7. Evaluate(n, Nested(d)) = Lookup(n.args, Nested(d))
      BY <2>3, <2>4 DEF Read
    <3> QED
      BY <3>3, <3>4, <3>6, <3>7
  <2>5. CASE n.op = "listed"
    <3>1. Stripped(n) = n
      BY <2>1, <2>5, StrippedIs
    <3>2. CASE n.args = <<>>
      <4>1. \A e : Read(n, e) = Raised("IndexError")
        BY <2>5, <3>2 DEF Read
      <4> QED
        BY <2>3, <3>1, <4>1
    <3>3. CASE n.args # <<>>
      <4>1. PICK p : p = n.args[1]
        OBVIOUS
      <4>2. p \in Seq(Name)
        BY <2>2, <2>5, <3>3, <4>1
      <4>3. p # <<>> /\ p[1] # "incident"
        BY <2>5, <3>3, <4>1 DEF Unmoved
      <4>4. p # <<"incident">>
        BY <4>3
      <4>5. StrippedPath(p) = p
        BY <4>3 DEF StrippedPath
      <4>6. Lookup(p, d) = Lookup(p, Nested(d))
        BY <4>2, <4>3, <4>4, <4>5, LookupStripped
      <4>7. \A e : Read(n, e) = Lookup(p, e)
        BY <2>5, <3>3, <4>1 DEF Read
      <4> QED
        BY <2>3, <3>1, <4>6, <4>7
    <3> QED
      BY <3>2, <3>3
  <2> QED
    BY <2>2, <2>4, <2>5
<1>3. ASSUME NEW n \in Branches(Tree), n \in Tree, \A i \in DOMAIN n.args : n.args[i] \in P
      PROVE  n \in P
  <2> SUFFICES ASSUME \A m \in Subtrees(n) : ~Unmoved(m)
               PROVE  Evaluate(Stripped(n), d) = Evaluate(n, Nested(d))
    BY <1>3
  <2>1. Is("op", n) /\ n.op \notin VarOp /\ n.op # "var" /\ n.op # "listed" /\ n.args \in Seq(Tree)
    BY BranchKind DEF VarOp
  <2>2. \A i \in DOMAIN n.args : Evaluate(Stripped(n.args[i]), d) = Evaluate(n.args[i], Nested(d))
    BY <1>3, SubtreesGrow
  <2>3. PICK t : t = [i \in DOMAIN n.args |-> Stripped(n.args[i])]
    OBVIOUS
  <2>4. Stripped(n) = Node(n.op, t)
    BY <1>3, <2>1, <2>3, StrippedIs
  <2>5. Node(n.op, t) \in Tree
    BY <1>3, <2>4, StrippedTree
  <2>6. Is("op", Node(n.op, t)) /\ Node(n.op, t).op = n.op /\ Node(n.op, t).args = t
    BY DEF Is, Node
  <2>7. Evaluate(Node(n.op, t), d) = Combined(n.op, [i \in DOMAIN t |-> Evaluate(t[i], d)])
    BY <2>1, <2>5, <2>6, EvaluateIs
  <2>8. [i \in DOMAIN t |-> Evaluate(t[i], d)]
          = [i \in DOMAIN n.args |-> Evaluate(n.args[i], Nested(d))]
    <3>1. DOMAIN t = DOMAIN n.args /\ \A i \in DOMAIN n.args : t[i] = Stripped(n.args[i])
      BY <2>3
    <3> QED
      BY <2>2, <3>1
  <2>9. Evaluate(n, Nested(d)) = Combined(n.op, [i \in DOMAIN n.args |-> Evaluate(n.args[i], Nested(d))])
    BY <1>3, <2>1, EvaluateIs
  <2> QED
    BY <2>4, <2>7, <2>8, <2>9
<1>4. \A n \in Tree : n \in P
  <2> HIDE DEF P
  <2> QED  BY <1>1, <1>2, <1>3, TreeInduction DEF Leaves
<1> QED
  BY <1>4

\* Neither does stripping change the number of conditions.
LEMMA CountStripped ==
    \A n \in Tree : CountLeaves(Stripped(n)) = CountLeaves(n)
<1> DEFINE P == {n \in Tree : CountLeaves(Stripped(n)) = CountLeaves(n)}
<1>0. Leaves \subseteq Tree
  BY LevelsGrow, ConditionConstants
<1>1. ASSUME NEW n \in Literal PROVE n \in P
  <2>1. n \in Tree /\ ~Is("op", n)
    BY <1>0, LiteralKind DEF Leaves
  <2> QED
    BY <2>1, StrippedIs
<1>2. ASSUME NEW n \in Variable PROVE n \in P
  <2>1. n \in Tree /\ Is("op", n) /\ n.op \in {"var", "listed"}
    BY <1>0, VariableKind DEF Leaves, VarOp
  <2>2. CASE n.op = "var"
    <3>1. PICK q : q = StrippedPath(n.args)
      OBVIOUS
    <3>2. Stripped(n) = Var(q) /\ Var(q) \in Tree
      BY <2>1, <2>2, <3>1, StrippedIs, StrippedTree
    <3>3. Is("op", Var(q)) /\ Var(q).op = "var"
      BY DEF Is, Var, Node
    <3>4. CountLeaves(n) = 1 /\ CountLeaves(Var(q)) = 1
      BY <2>1, <2>2, <3>2, <3>3, CountLeavesIs DEF Combinator
    <3> QED
      BY <2>1, <3>2, <3>4
  <2>3. CASE n.op = "listed"
    BY <2>1, <2>3, StrippedIs
  <2> QED
    BY <2>1, <2>2, <2>3
<1>3. ASSUME NEW n \in Branches(Tree), n \in Tree, \A i \in DOMAIN n.args : n.args[i] \in P
      PROVE  n \in P
  <2>1. Is("op", n) /\ n.op \notin VarOp /\ n.op # "var" /\ n.op # "listed" /\ n.args \in Seq(Tree)
    BY BranchKind DEF VarOp
  <2>2. PICK t : t = [i \in DOMAIN n.args |-> Stripped(n.args[i])]
    OBVIOUS
  <2>3. Stripped(n) = Node(n.op, t)
    BY <1>3, <2>1, <2>2, StrippedIs
  <2>4. Node(n.op, t) \in Tree
    BY <1>3, <2>3, StrippedTree
  <2>5. Is("op", Node(n.op, t)) /\ Node(n.op, t).op = n.op /\ Node(n.op, t).args = t
    BY DEF Is, Node
  <2>6. [i \in DOMAIN t |-> CountLeaves(t[i])] = [i \in DOMAIN n.args |-> CountLeaves(n.args[i])]
    <3>1. DOMAIN t = DOMAIN n.args /\ \A i \in DOMAIN n.args : t[i] = Stripped(n.args[i])
      BY <2>2
    <3> QED
      BY <1>3, <3>1
  <2>7. CountLeaves(Node(n.op, t))
          = IF n.op = "malformed" THEN 0
            ELSE IF n.op \in Combinator THEN Total([i \in DOMAIN t |-> CountLeaves(t[i])])
            ELSE 1
    BY <2>4, <2>5, CountLeavesIs
  <2>8. CountLeaves(n)
          = IF n.op = "malformed" THEN 0
            ELSE IF n.op \in Combinator
            THEN Total([i \in DOMAIN n.args |-> CountLeaves(n.args[i])])
            ELSE 1
    BY <1>3, <2>1, CountLeavesIs
  <2>9. CountLeaves(Node(n.op, t)) = CountLeaves(n)
    BY <2>6, <2>7, <2>8
  <2> QED
    BY <1>3, <2>3, <2>9
<1>4. \A n \in Tree : n \in P
  <2> HIDE DEF P
  <2> QED  BY <1>1, <1>2, <1>3, TreeInduction DEF Leaves
<1> QED
  BY <1>4

-----------------------------------------------------------------------------
(***************************************************************************)
(* What the evaluators return.                                             *)
(***************************************************************************)
LEMMA FlagKind ==
    ASSUME NEW b
    PROVE  ~Is("raised", Flag(b)) /\ (Truthy(Flag(b)) <=> b)
<1>1. PICK k : k = IF b THEN 1 ELSE 0
  OBVIOUS
<1>2. Flag(b) = Number(k)
  BY <1>1 DEF Flag
<1>3. Is("num", Number(k)) /\ Number(k).num = k /\ ~Is("raised", Number(k))
      /\ ~Is("text", Number(k)) /\ ~Is("list", Number(k)) /\ ~Is("map", Number(k))
  BY DEF Is, Number
<1>4. Truthy(Number(k)) <=> k # 0
  BY <1>3 DEF Truthy
<1> QED
  BY <1>1, <1>2, <1>3, <1>4

LEMMA FlagMember ==
    ASSUME NEW i, NEW H
    PROVE  ~Is("raised", Flag(i \in H)) /\ (Truthy(Flag(i \in H)) <=> i \in H)
<1>1. ~Is("raised", Number(1)) /\ Truthy(Number(1)) /\ ~Is("raised", Number(0)) /\ ~Truthy(Number(0))
  <2>1. Flag(TRUE) = Number(1) /\ Flag(FALSE) = Number(0)
    BY DEF Flag
  <2>2. ~Is("raised", Flag(TRUE)) /\ Truthy(Flag(TRUE))
    BY FlagKind
  <2>3. ~Is("raised", Flag(FALSE)) /\ ~Truthy(Flag(FALSE))
    BY FlagKind
  <2> QED
    BY <2>1, <2>2, <2>3
<1>2. CASE i \in H
  BY <1>1, <1>2 DEF Flag
<1>3. CASE i \notin H
  BY <1>1, <1>3 DEF Flag
<1> QED
  BY <1>2, <1>3

LEMMA RaisedKind ==
    ASSUME NEW e
    PROVE  Is("raised", Raised(e)) /\ Raised(e).raised = e /\ Truthy(Raised(e)) = FALSE
<1>1. Is("raised", Raised(e)) /\ Raised(e).raised = e /\ ~Is("num", Raised(e))
      /\ ~Is("text", Raised(e)) /\ ~Is("list", Raised(e)) /\ ~Is("map", Raised(e))
  BY DEF Is, Raised
<1> QED
  BY <1>1 DEF Truthy

LEMMA MinIs ==
    ASSUME NEW S \in SUBSET Nat, S # {}
    PROVE  Min(S) \in S /\ \A y \in S : Min(S) <= y
<1>1. \E x \in S : \A y \in S : x <= y
  BY LeastNatural
<1> QED
  BY <1>1 DEF Min

\* all() and any(): an operand raises, or one decides, or none does.
LEMMA JunctionCases ==
    ASSUME NEW n \in Nat, NEW results, DOMAIN results = 1..n, NEW op \in Combinator
    PROVE  \/ \E i \in 1..n : Is("raised", results[i]) /\ Junction(op, results) = results[i]
           \/ /\ \E i \in 1..n : ~Is("raised", results[i]) /\ (Truthy(results[i]) <=> op = "or")
              /\ Junction(op, results) = Flag(op = "or")
           \/ /\ \A i \in 1..n : ~Is("raised", results[i]) /\ (Truthy(results[i]) <=> op # "or")
              /\ Junction(op, results) = Flag(op = "and")
<1> DEFINE D == {i \in DOMAIN results : \/ Is("raised", results[i])
                                        \/ Truthy(results[i]) = (op = "or")}
<1>0. \A i \in 1..n : Truthy(results[i]) \in BOOLEAN
  BY DEF Truthy
<1>1. Junction(op, results) = IF D = {} THEN Flag(op = "and")
                              ELSE IF Is("raised", results[Min(D)]) THEN results[Min(D)]
                              ELSE Flag(op = "or")
  BY DEF Junction
<1>2. CASE D = {}
  <2>1. \A i \in 1..n : ~Is("raised", results[i]) /\ (Truthy(results[i]) <=> op # "or")
    BY <1>0, <1>2
  <2> QED
    BY <1>1, <1>2, <2>1
<1>3. CASE D # {}
  <2>1. D \in SUBSET Nat
    OBVIOUS
  <2>2. PICK f \in D : f = Min(D)
    <3> HIDE DEF D
    <3> QED  BY <1>3, <2>1, MinIs
  <2>3. f \in 1..n /\ (Is("raised", results[f]) \/ (Truthy(results[f]) <=> op = "or"))
    BY <1>0, <2>2
  <2>4. Junction(op, results) = IF Is("raised", results[f]) THEN results[f] ELSE Flag(op = "or")
    BY <1>1, <1>3, <2>2
  <2> QED
    BY <2>3, <2>4
<1> QED
  BY <1>2, <1>3

\* An operator: an operand that raises or is missing, or the operator applied.
LEMMA OperatorCases ==
    ASSUME NEW results, NEW op \in Operator
    PROVE  \/ \E i \in 1..Arity(op) : /\ Is("raised", Operand(results, i))
                                     /\ Combined(op, results) = Operand(results, i)
           \/ /\ \A i \in 1..Arity(op) : ~Is("raised", Operand(results, i))
              /\ Combined(op, results) = IF op = "in_holiday_period" THEN Flag(Truthy(results[1]))
                                         ELSE Apply(op, results[1], results[2])
<1> DEFINE D == {i \in 1..Arity(op) : Is("raised", Operand(results, i))}
<1>1. op \notin Combinator
  BY DEF Operator, Comparison, Formula, Combinator
<1>2. Combined(op, results) = IF D # {} THEN Operand(results, Min(D))
                              ELSE IF op = "in_holiday_period" THEN Flag(Truthy(results[1]))
                              ELSE Apply(op, results[1], results[2])
  BY <1>1 DEF Combined, Operator, Comparison, Formula, Combinator
<1>3. CASE D = {}
  BY <1>2, <1>3
<1>4. CASE D # {}
  <2>1. D \in SUBSET Nat
    BY DEF Arity
  <2>2. PICK f \in D : f = Min(D)
    <3> HIDE DEF D
    <3> QED  BY <1>4, <2>1, MinIs
  <2> QED
    BY <1>2, <1>4, <2>2
<1> QED
  BY <1>3, <1>4

\* Where no operand raises, none is missing.
LEMMA OperandsThere ==
    ASSUME NEW l \in Nat, NEW results, DOMAIN results = 1..l, NEW k \in {1, 2},
           \A i \in 1..k : ~Is("raised", Operand(results, i))
    PROVE  /\ l >= k /\ 1 \in 1..l /\ ~Is("raised", results[1])
           /\ k = 2 => 2 \in 1..l /\ ~Is("raised", results[2])
<1>1. \A i \in 1..k : i \in 1..l /\ ~Is("raised", results[i])
  BY RaisedKind DEF Operand
<1>2. 1 \in 1..k /\ (k = 2 => 2 \in 1..k)
  OBVIOUS
<1>3. 1 \in 1..l /\ (k = 2 => 2 \in 1..l)
  BY <1>1, <1>2
<1>4. l >= k
  BY <1>3
<1> QED
  BY <1>1, <1>2, <1>3, <1>4

\* The operands' results of a node.
LEMMA EvaluateBranch ==
    ASSUME NEW d, NEW n \in Branches(Tree), n \in Tree
    PROVE  \E results :
             /\ results = [i \in DOMAIN n.args |-> Evaluate(n.args[i], d)]
             /\ Len(n.args) \in Nat /\ DOMAIN n.args = 1..Len(n.args)
             /\ DOMAIN results = 1..Len(n.args)
             /\ \A i \in 1..Len(n.args) : results[i] = Evaluate(n.args[i], d)
             /\ Evaluate(n, d) = Combined(n.op, results)
<1>1. PICK results : results = [i \in DOMAIN n.args |-> Evaluate(n.args[i], d)]
  OBVIOUS
<1>2. Is("op", n) /\ n.op \notin VarOp /\ n.args \in Seq(Tree)
  BY BranchKind
<1>3. Len(n.args) \in Nat /\ DOMAIN n.args = 1..Len(n.args)
  BY <1>2
<1>4. Evaluate(n, d) = Combined(n.op, results)
  BY <1>1, <1>2, EvaluateIs
<1> QED
  BY <1>1, <1>3, <1>4

\* Only the formula of two values of which one is neither a number nor None
\* raises.
LEMMA ApplyRaises ==
    ASSUME NEW op \in Operator, op # "in_holiday_period", NEW a, NEW b, Is("raised", Apply(op, a, b))
    PROVE  /\ op \in Formula
           /\ \/ ~Is("num", a) /\ ~Is("none", a)
              \/ ~Is("num", b) /\ ~Is("none", b)
<1>1. op \in Comparison => Apply(op, a, b) = Flag(Compare(op, a, b))
  BY DEF Apply, Comparison, Formula
<1>2. op = "==" => Apply(op, a, b) = Flag(a = b)
  BY DEF Apply, Comparison, Formula
<1>3. op = "!=" => Apply(op, a, b) = Flag(a # b)
  BY DEF Apply, Comparison, Formula
<1>4. op = "in" => Apply(op, a, b) = Flag(Member(a, b))
  BY DEF Apply, Comparison, Formula
<1>5. op = "contains" => Apply(op, a, b) = Flag(Member(b, a))
  BY DEF Apply, Comparison, Formula
<1>6. op \in Formula
  BY <1>1, <1>2, <1>3, <1>4, <1>5, FlagKind DEF Operator
<1>7. Apply(op, a, b) = Product(op, a, b)
  BY <1>6 DEF Apply, Comparison, Formula
<1>8. ~Is("raised", Nothing) /\ \A x : ~Is("raised", Number(x))
  BY DEF Is, Nothing, Number
<1>9. ~Is("none", a) /\ ~Is("none", b) /\ ~(Is("num", a) /\ Is("num", b))
  <2>2. CASE Is("none", a) \/ Is("none", b)
    BY <1>7, <1>8, <2>2 DEF Product
  <2>3. CASE Is("num", a) /\ Is("num", b)
    BY <1>7, <1>8, <2>3 DEF Product
  <2> QED
    BY <2>2, <2>3
<1> QED
  BY <1>6, <1>9

\* A formula over something that is neither a number nor None.
OddFormula(m, d) ==
    /\ Is("op", m) /\ m.op \in Formula /\ ~LacksOperand(m)
    /\ \E i \in 1..2 : LET v == Evaluate(m.args[i], d) IN ~Is("num", v) /\ ~Is("none", v)

\* What is_satisfied_by does not catch.
Uncaught == {Raised("TypeError"), Raised("IndexError")}

LEMMA UncaughtKind ==
    /\ \A e \in Uncaught : Is("raised", e)
    /\ Raised("ValueError") \notin Uncaught
    /\ \A x : Flag(x) \notin Uncaught
<1>1. \A e \in Uncaught : Is("raised", e)
  BY RaisedKind DEF Uncaught
<1>2. Raised("ValueError") \notin Uncaught
  BY DEF Raised, Uncaught
<1> QED
  BY <1>1, <1>2, FlagKind

LEMMA ReadRaises ==
    ASSUME NEW d \in Value, NEW n \in Variable, Is("raised", Read(n, d))
    PROVE  LacksOperand(n)
<1>1. /\ Is("op", n) /\ n.op \in {"var", "listed"}
      /\ n.op = "var" => n.args \in Seq(Name)
      /\ n.op = "listed" => n.args \in Seq(Seq(Name))
  BY VariableKind DEF VarOp
<1>2. CASE n.op = "var"
  <2>1. Read(n, d) = Lookup(n.args, d)
    BY <1>2 DEF Read
  <2>2. ~Is("raised", Lookup(n.args, d))
    BY <1>1, <1>2, LookupValue, ValueKind
  <2> QED
    BY <2>1, <2>2
<1>3. CASE n.op = "listed" /\ n.args # <<>>
  <2>1. PICK p : p = n.args[1]
    OBVIOUS
  <2>2. p \in Seq(Name)
    BY <1>1, <1>3, <2>1
  <2>3. Read(n, d) = Lookup(p, d)
    BY <1>3, <2>1 DEF Read
  <2>4. ~Is("raised", Lookup(p, d))
    BY <2>2, LookupValue, ValueKind
  <2> QED
    BY <2>3, <2>4
<1>4. CASE n.op = "listed" /\ n.args = <<>>
  BY <1>1, <1>4 DEF LacksOperand
<1> QED
  BY <1>1, <1>2, <1>3, <1>4

LEMMA EvaluateRaises ==
    ASSUME NEW d \in Value
    PROVE  \A n \in Tree : Evaluate(n, d) \in Uncaught =>
             \E m \in Subtrees(n) : LacksOperand(m) \/ OddFormula(m, d)
<1> DEFINE P == {n \in Tree : Evaluate(n, d) \in Uncaught =>
                                \E m \in Subtrees(n) : LacksOperand(m) \/ OddFormula(m, d)}
<1>0. Leaves \subseteq Tree
  BY LevelsGrow, ConditionConstants
<1>1. ASSUME NEW n \in Literal PROVE n \in P
  <2>1. n \in Tree /\ ~Is("op", n) /\ ~Is("raised", n)
    BY <1>0, LiteralKind DEF Leaves
  <2>2. Evaluate(n, d) = n
    BY <2>1, EvaluateIs
  <2> QED
    BY <2>1, <2>2, UncaughtKind
<1>2. ASSUME NEW n \in Variable PROVE n \in P
  <2>1. n \in Tree /\ Is("op", n) /\ n.op \in VarOp
    BY <1>0, VariableKind DEF Leaves
  <2>2. Evaluate(n, d) = Read(n, d)
    BY <2>1, EvaluateIs
  <2>3. Evaluate(n, d) \in Uncaught => LacksOperand(n)
    BY <2>2, ReadRaises, UncaughtKind
  <2> QED
    BY <2>1, <2>3, OwnSubtree
<1>3. ASSUME NEW n \in Branches(Tree), n \in Tree, \A i \in DOMAIN n.args : n.args[i] \in P
      PROVE  n \in P
  <2> SUFFICES ASSUME Evaluate(n, d) \in Uncaught
               PROVE  \E m \in Subtrees(n) : LacksOperand(m) \/ OddFormula(m, d)
    BY <1>3
  <2>1. PICK results :
             /\ Len(n.args) \in Nat /\ DOMAIN n.args = 1..Len(n.args)
             /\ DOMAIN results = 1..Len(n.args)
             /\ \A i \in 1..Len(n.args) : results[i] = Evaluate(n.args[i], d)
             /\ Evaluate(n, d) = Combined(n.op, results)
    BY <1>3, EvaluateBranch
  <2>2. n.op \in Op /\ Is("op", n) /\ n.op \notin VarOp /\ n.args \in Seq(Tree)
    BY BranchKind
  <2>3. ASSUME NEW i \in 1..Len(n.args), results[i] \in Uncaught
        PROVE  \E m \in Subtrees(n) : LacksOperand(m) \/ OddFormula(m, d)
    <3>1. n.args[i] \in P /\ Evaluate(n.args[i], d) \in Uncaught
      BY <1>3, <2>1, <2>3
    <3>2. \E m \in Subtrees(n.args[i]) : LacksOperand(m) \/ OddFormula(m, d)
      BY <3>1
    <3>3. Subtrees(n.args[i]) \subseteq Subtrees(n)
      BY <1>3, <2>1, SubtreesGrow
    <3> QED
      BY <3>2, <3>3
  <2>4. Combined(n.op, results) \in Uncaught
    BY <2>1
  <2>5. CASE n.op \in Combinator
    <3>1. Combined(n.op, results) = Junction(n.op, results)
      BY <2>5 DEF Combined, Operator, Comparison, Formula, Combinator
    <3>2. \/ \E i \in 1..Len(n.args) : Junction(n.op, results) = results[i]
          \/ Junction(n.op, results) = Flag(n.op = "or")
          \/ Junction(n.op, results) = Flag(n.op = "and")
      BY <2>1, <2>5, JunctionCases
    <3>3. Flag(n.op = "or") \notin Uncaught /\ Flag(n.op = "and") \notin Uncaught
      BY UncaughtKind
    <3> QED
      BY <2>3, <2>4, <3>1, <3>2, <3>3
  <2>6. CASE n.op \in Operator
    <3>1. CASE \E i \in 1..Arity(n.op) : Operand(results, i) \in Uncaught
      <4>1. PICK i \in 1..Arity(n.op) : Operand(results, i) \in Uncaught
        BY <3>1
      <4>2. CASE i \in 1..Len(n.args)
        BY <2>1, <2>3, <4>1, <4>2 DEF Operand
      <4>3. CASE i \notin 1..Len(n.args)
        <5>1. Len(n.args) < Arity(n.op)
          BY <2>1, <4>1, <4>3 DEF Arity
        <5>2. LacksOperand(n)
          BY <2>2, <2>6, <5>1 DEF LacksOperand
        <5> QED
          BY <1>3, <5>2, OwnSubtree
      <4> QED
        BY <4>2, <4>3
    <3>2. CASE \A i \in 1..Arity(n.op) : Operand(results, i) \notin Uncaught
      <4>1. /\ \A i \in 1..Arity(n.op) : ~Is("raised", Operand(results, i))
            /\ Combined(n.op, results) = IF n.op = "in_holiday_period" THEN Flag(Truthy(results[1]))
                                         ELSE Apply(n.op, results[1], results[2])
        BY <2>4, <2>6, <3>2, OperatorCases
      <4>2. n.op # "in_holiday_period" /\ Is("raised", Apply(n.op, results[1], results[2]))
        BY <2>4, <4>1, UncaughtKind
      <4>3. n.op \in Formula /\ \/ ~Is("num", results[1]) /\ ~Is("none", results[1])
                                \/ ~Is("num", results[2]) /\ ~Is("none", results[2])
        BY <2>6, <4>2, ApplyRaises
      <4>4. Arity(n.op) = 2
        BY <4>2 DEF Arity
      <4>5. PICK l \in Nat : l = Len(n.args)
        BY <2>1
      <4>6. l >= 2 /\ 1 \in 1..l /\ 2 \in 1..l
        BY <2>1, <4>1, <4>4, <4>5, OperandsThere
      <4>7. results[1] = Evaluate(n.args[1], d) /\ results[2] = Evaluate(n.args[2], d)
        BY <2>1, <4>5, <4>6
      <4>8. ~LacksOperand(n)
        <5>1. ~(Len(n.args) < Arity(n.op))
          BY <4>4, <4>5, <4>6
        <5>2. n.op # "unlisted" /\ n.op # "listed"
          BY <4>3 DEF Formula
        <5> QED
          BY <5>1, <5>2 DEF LacksOperand
      <4>9. OddFormula(n, d)
        <5>1. 1 \in 1..2 /\ 2 \in 1..2
          OBVIOUS
        <5> QED
          BY <2>2, <4>3, <4>7, <4>8, <5>1 DEF OddFormula
      <4> QED
        BY <1>3, <4>9, OwnSubtree
    <3> QED
      BY <3>1, <3>2
  <2>7. CASE n.op = "unlisted"
    <3>1. LacksOperand(n)
      BY <2>2, <2>7 DEF LacksOperand
    <3> QED
      BY <1>3, <3>1, OwnSubtree
  <2>8. CASE n.op \notin Combinator \union Operator \union {"unlisted"}
    <3>1. Combined(n.op, results) = Raised("ValueError")
      BY <2>8 DEF Combined
    <3> QED
      BY <2>4, <3>1, UncaughtKind
  <2> QED
    BY <2>5, <2>6, <2>7, <2>8
<1>4. \A n \in Tree : n \in P
  <2> HIDE DEF P
  <2> QED  BY <1>1, <1>2, <1>3, TreeInduction DEF Leaves
<1> QED
  BY <1>4

-----------------------------------------------------------------------------
(***************************************************************************)
(* The order of conditions.                                                *)
(***************************************************************************)
LEMMA BackwardsType ==
    ASSUME NEW S, NEW s \in Seq(S), NEW T, NEW t, DOMAIN t = DOMAIN s,
           \A i \in DOMAIN s : t[i] \in T, Len(t) = Len(s)
    PROVE  /\ Backwards(t) \in Seq(T) /\ Len(Backwards(t)) = Len(s)
           /\ DOMAIN Backwards(t) = 1..Len(s)
           /\ \A i \in 1..Len(s) : /\ Len(s) + 1 - i \in 1..Len(s)
                                   /\ Backwards(t)[i] = t[Len(s) + 1 - i]
<1>1. Len(s) \in Nat /\ DOMAIN s = 1..Len(s)
  OBVIOUS
<1>2. PICK l \in Nat : l = Len(s)
  BY <1>1
<1>3. \A i \in 1..l : l + 1 - i \in 1..l
  OBVIOUS
<1>4. Backwards(t) = [i \in 1..l |-> t[l + 1 - i]]
  BY <1>1, <1>2 DEF Backwards
<1>5. Backwards(t) \in [1..l -> T]
  BY <1>1, <1>2, <1>3, <1>4
<1>6. Backwards(t) \in Seq(T) /\ Len(Backwards(t)) = l
  BY <1>5
<1>7. \A i \in 1..l : Backwards(t)[i] = t[l + 1 - i]
  BY <1>4
<1> QED
  BY <1>2, <1>3, <1>5, <1>6, <1>7

\* A mirrored tree is as high as before.
LEMMA MirroredLevel ==
    \A k \in 0..MaxHeight, n \in Tree : n \in TreesUpTo[k] => Mirrored(n) \in TreesUpTo[k]
<1> DEFINE T == {m \in Nat : m <= MaxHeight => \A n \in TreesUpTo[m] : Mirrored(n) \in TreesUpTo[m]}
<1>0. MaxHeight \in Nat
  BY ConditionConstants
<1>1. ASSUME NEW n \in Tree, ~Is("op", n) \/ n.op \notin Combinator PROVE Mirrored(n) = n
  BY <1>1, MirroredIs
<1>2. \A n \in Leaves : ~Is("op", n) \/ n.op \notin Combinator
  BY LiteralKind, VariableKind DEF Leaves, Combinator, VarOp
<1>3. T \in SUBSET Nat /\ 0 \in T
  <2>1. 0 \in 0..MaxHeight
    BY <1>0
  <2>2. \A n \in TreesUpTo[0] : Mirrored(n) = n
    BY <1>1, <1>2, <2>1, TreesExist, LevelsGrow
  <2> QED
    BY <2>2
<1>4. ASSUME NEW m \in Nat, m \in T PROVE m + 1 \in T
  <2> SUFFICES ASSUME m + 1 <= MaxHeight, NEW n \in TreesUpTo[m + 1]
               PROVE  Mirrored(n) \in TreesUpTo[m + 1]
    OBVIOUS
  <2>1. m + 1 \in 1..MaxHeight /\ (m + 1) - 1 = m /\ m \in 0..MaxHeight /\ m + 1 \in 0..MaxHeight
    BY <1>0
  <2>2. n \in Leaves \/ n \in Branches(TreesUpTo[m])
    BY <2>1, TreesExist
  <2>3. n \in Tree
    BY <2>1, LevelsGrow
  <2>4. CASE ~Is("op", n) \/ n.op \notin Combinator
    BY <1>1, <2>3, <2>4
  <2>5. CASE Is("op", n) /\ n.op \in Combinator
    <3>1. n \in Branches(TreesUpTo[m])
      BY <1>2, <2>2, <2>5
    <3>2. n.op \in Op /\ n.args \in Seq(TreesUpTo[m])
      BY <3>1, BranchKind
    <3>3. PICK t : t = [i \in DOMAIN n.args |-> Mirrored(n.args[i])]
      OBVIOUS
    <3>4. Mirrored(n) = Node(n.op, Backwards(t))
      BY <2>3, <2>5, <3>3, MirroredIs
    <3>5. \A i \in DOMAIN n.args : t[i] \in TreesUpTo[m]
      BY <1>4, <2>1, <3>2, <3>3
    <3>6. Backwards(t) \in Seq(TreesUpTo[m])
      <4>1. PICK s \in Seq(TreesUpTo[m]) : s = n.args
        BY <3>2
      <4>2. DOMAIN t = DOMAIN s /\ t = [i \in DOMAIN s |-> t[i]]
            /\ \A i \in DOMAIN s : t[i] \in TreesUpTo[m]
        BY <3>3, <3>5, <4>1
      <4>3. Len(t) = Len(s)
        BY <4>2, ListType
      <4> QED
        BY <4>2, <4>3, BackwardsType
    <3>7. Node(n.op, Backwards(t)) \in Branches(TreesUpTo[m])
      BY <3>2, <3>6, NodeIsBranch
    <3> QED
      BY <2>1, <3>4, <3>7, TreesExist
  <2> QED
    BY <2>4, <2>5
<1>5. ASSUME NEW k \in 0..MaxHeight, NEW n \in TreesUpTo[k] PROVE Mirrored(n) \in TreesUpTo[k]
  <2>1. k \in Nat /\ k <= MaxHeight
    BY <1>0
  <2>2. k \in T
    <3> HIDE DEF T
    <3> QED  BY <1>3, <1>4, <2>1, LeastFailure
  <2> QED
    BY <2>1, <2>2
<1> QED
  BY <1>5

LEMMA MirroredTree ==
    ASSUME NEW n \in Tree
    PROVE  Mirrored(n) \in Tree
<1>1. MaxHeight \in 0..MaxHeight
  BY ConditionConstants
<1> QED
  BY <1>1, MirroredLevel DEF Tree

\* all() and any() over operands none of which raises do not depend on their
\* order.
LEMMA JunctionBackwards ==
    ASSUME NEW n \in Nat, NEW r, NEW s, NEW op \in Combinator,
           DOMAIN r = 1..n, DOMAIN s = 1..n,
           \A i \in 1..n : n + 1 - i \in 1..n /\ s[i] = r[n + 1 - i],
           \A i \in 1..n : ~Is("raised", r[i])
    PROVE  Junction(op, s) = Junction(op, r)
<1>1. \A i \in 1..n : ~Is("raised", s[i])
  OBVIOUS
<1>2. \A i \in 1..n : \E j \in 1..n : r[i] = s[j]
  <2> SUFFICES ASSUME NEW i \in 1..n PROVE \E j \in 1..n : r[i] = s[j]
    OBVIOUS
  <2>1. n + 1 - i \in 1..n /\ n + 1 - (n + 1 - i) = i
    OBVIOUS
  <2> QED
    BY <2>1
<1>3. \A i \in 1..n : \E j \in 1..n : s[i] = r[j]
  OBVIOUS
<1>4. \/ /\ \E i \in 1..n : Truthy(r[i]) <=> op = "or"
         /\ Junction(op, r) = Flag(op = "or")
      \/ /\ \A i \in 1..n : Truthy(r[i]) <=> op # "or"
         /\ Junction(op, r) = Flag(op = "and")
  BY JunctionCases
<1>5. \/ /\ \E i \in 1..n : Truthy(s[i]) <=> op = "or"
         /\ Junction(op, s) = Flag(op = "or")
      \/ /\ \A i \in 1..n : Truthy(s[i]) <=> op # "or"
         /\ Junction(op, s) = Flag(op = "and")
  BY <1>1, JunctionCases
<1>6. (\E i \in 1..n : Truthy(r[i]) <=> op = "or") <=> (\E i \in 1..n : Truthy(s[i]) <=> op = "or")
  BY <1>2, <1>3
<1>7. \A i : ~((Truthy(r[i]) <=> op = "or") /\ (Truthy(r[i]) <=> op # "or"))
      /\ ~((Truthy(s[i]) <=> op = "or") /\ (Truthy(s[i]) <=> op # "or"))
  OBVIOUS
<1> QED
  BY <1>4, <1>5, <1>6, <1>7

LEMMA EvaluateMirrored ==
    ASSUME NEW d
    PROVE  \A n \in Tree : (\A m \in Subtrees(n) : ~Is("raised", Evaluate(m, d))) =>
             Evaluate(Mirrored(n), d) = Evaluate(n, d)
<1> DEFINE P == {n \in Tree : (\A m \in Subtrees(n) : ~Is("raised", Evaluate(m, d))) =>
                                Evaluate(Mirrored(n), d) = Evaluate(n, d)}
<1>0. Leaves \subseteq Tree
  BY LevelsGrow, ConditionConstants
<1>1. ASSUME NEW n \in Tree, ~Is("op", n) \/ n.op \notin Combinator PROVE n \in P
  BY <1>1, MirroredIs
<1>2. \A n \in Leaves : n \in P
  BY <1>0, <1>1, LiteralKind, VariableKind DEF Leaves, Combinator, VarOp
<1>3. ASSUME NEW n \in Branches(Tree), n \in Tree, \A i \in DOMAIN n.args : n.args[i] \in P
      PROVE  n \in P
  <2> SUFFICES ASSUME n.op \in Combinator, \A m \in Subtrees(n) : ~Is("raised", Evaluate(m, d))
               PROVE  Evaluate(Mirrored(n), d) = Evaluate(n, d)
    BY <1>1, <1>3
  <2>1. PICK r :
             /\ Len(n.args) \in Nat /\ DOMAIN n.args = 1..Len(n.args)
             /\ DOMAIN r = 1..Len(n.args)
             /\ \A i \in 1..Len(n.args) : r[i] = Evaluate(n.args[i], d)
             /\ Evaluate(n, d) = Combined(n.op, r)
    BY <1>3, EvaluateBranch
  <2>2. PICK l \in Nat : l = Len(n.args)
    BY <2>1
  <2>3. Is("op", n) /\ n.op \notin VarOp /\ n.args \in Seq(Tree)
    BY BranchKind
  <2>4. ASSUME NEW i \in 1..l
        PROVE  ~Is("raised", r[i]) /\ Evaluate(Mirrored(n.args[i]), d) = r[i]
    <3>1. i \in DOMAIN n.args /\ n.args[i] \in Tree /\ r[i] = Evaluate(n.args[i], d)
      BY <2>1, <2>2, <2>3
    <3>2. Subtrees(n.args[i]) \subseteq Subtrees(n) /\ n.args[i] \in Subtrees(n.args[i])
      BY <1>3, <3>1, SubtreesGrow, OwnSubtree
    <3>3. n.args[i] \in P
      BY <1>3, <3>1
    <3> QED
      BY <3>1, <3>2, <3>3
  <2>5. PICK t : t = [i \in DOMAIN n.args |-> Mirrored(n.args[i])]
    OBVIOUS
  <2>6. Mirrored(n) = Node(n.op, Backwards(t))
    BY <1>3, <2>3, <2>5, MirroredIs
  <2>7. /\ DOMAIN Backwards(t) = 1..l
        /\ \A i \in 1..l : l + 1 - i \in 1..l /\ Backwards(t)[i] = t[l + 1 - i]
    <3>1. PICK s \in Seq(Tree) : s = n.args
      BY <2>3
    <3>2. DOMAIN t = DOMAIN s /\ t = [i \in DOMAIN s |-> t[i]] /\ \A i \in DOMAIN s : t[i] \in Tree
      BY <2>3, <2>5, <3>1, MirroredTree
    <3>3. Len(t) = Len(s)
      BY <3>2, ListType
    <3>4. /\ DOMAIN Backwards(t) = 1..Len(s)
          /\ \A i \in 1..Len(s) : /\ Len(s) + 1 - i \in 1..Len(s)
                                  /\ Backwards(t)[i] = t[Len(s) + 1 - i]
      <4>1. Len(s) \in Nat /\ DOMAIN s = 1..Len(s)
        OBVIOUS
      <4>2. Backwards(t) = [i \in 1..Len(s) |-> t[Len(s) + 1 - i]]
        BY <3>2, <3>3, <4>1 DEF Backwards
      <4> QED
        BY <4>1, <4>2
    <3>5. Len(s) = l
      BY <2>2, <3>1
    <3> QED
      BY <3>4, <3>5
  <2>8. PICK q : q = Node(n.op, Backwards(t))
    OBVIOUS
  <2>9. q \in Tree /\ Is("op", q) /\ q.op = n.op /\ q.args = Backwards(t)
    <3>1. q \in Tree
      BY <1>3, <2>6, <2>8, MirroredTree
    <3> QED
      BY <2>8, <3>1 DEF Is, Node
  <2>10. PICK s : s = [i \in DOMAIN q.args |-> Evaluate(q.args[i], d)]
    OBVIOUS
  <2>11. Evaluate(q, d) = Combined(n.op, s)
    BY <2>3, <2>9, <2>10, EvaluateIs
  <2>12. DOMAIN s = 1..l /\ \A i \in 1..l : s[i] = r[l + 1 - i]
    <3>1. DOMAIN s = 1..l /\ \A i \in 1..l : s[i] = Evaluate(Backwards(t)[i], d)
      BY <2>7, <2>9, <2>10
    <3>2. ASSUME NEW i \in 1..l PROVE Evaluate(Backwards(t)[i], d) = r[l + 1 - i]
      <4>1. PICK j \in 1..l : j = l + 1 - i
        BY <2>7
      <4>2. Backwards(t)[i] = t[j] /\ t[j] = Mirrored(n.args[j])
        BY <2>1, <2>2, <2>5, <2>7, <4>1
      <4> QED
        BY <2>4, <4>1, <4>2
    <3> QED
      BY <3>1, <3>2
  <2>13. Junction(n.op, s) = Junction(n.op, r)
    <3>1. DOMAIN r = 1..l
      BY <2>1, <2>2
    <3>2. \A i \in 1..l : l + 1 - i \in 1..l /\ s[i] = r[l + 1 - i]
      BY <2>7, <2>12
    <3>3. \A i \in 1..l : ~Is("raised", r[i])
      BY <2>4
    <3> QED
      BY <2>12, <3>1, <3>2, <3>3, JunctionBackwards
  <2>14. Combined(n.op, s) = Junction(n.op, s) /\ Combined(n.op, r) = Junction(n.op, r)
    BY DEF Combined, Operator, Comparison, Formula, Combinator
  <2> QED
    BY <2>1, <2>6, <2>8, <2>11, <2>13, <2>14
<1>4. \A n \in Tree : n \in P
  <2> HIDE DEF P
  <2> QED  BY <1>2, <1>3, TreeInduction
<1> QED
  BY <1>4

-----------------------------------------------------------------------------
(***************************************************************************)
(* What the loaders build.                                                 *)
(***************************************************************************)
\* The operators of the SLA and vast packs and the engine's.
Translation(o, op) ==
    \/ o = "equals" /\ op = "=="
    \/ o = "notEquals" /\ op = "!="
    \/ o = "in" /\ op = "in"
    \/ o = "contains" /\ op = "contains"
    \/ o \in {"greaterThan", "gt"} /\ op = ">"
    \/ o \in {"lessThan", "lt"} /\ op = "<"
    \/ o \in {"greaterThanOrEqual", "gte"} /\ op = ">="
    \/ o \in {"lessThanOrEqual", "lte"} /\ op = "<="

LEMMA SlaOperators ==
    ASSUME NEW o \in DOMAIN SlaOperator
    PROVE  Translation(o, SlaOperator[o])
BY DEF SlaOperator, Translation

LEMMA VastOperators ==
    ASSUME NEW o \in DOMAIN VastOperator
    PROVE  \/ Translation(o, VastOperator[o])
           \/ o = "in_holiday_period" /\ VastOperator[o] = "in_holiday_period"
BY DEF VastOperator, Translation

LEMMA TranslationIsOperator ==
    ASSUME NEW o, NEW op, Translation(o, op)
    PROVE  op \in Operator /\ op # "in_holiday_period"
BY DEF Translation, Operator, Comparison, Formula

LEMMA Pair ==
    ASSUME NEW S, NEW a \in S, NEW b \in S
    PROVE  \E s \in Seq(S) : s = <<a, b>> /\ Len(s) = 2 /\ DOMAIN s = 1..2 /\ s[1] = a /\ s[2] = b
<1>1. PICK s : s = <<a, b>>
  OBVIOUS
<1>2. s = [i \in 1..2 |-> IF i = 1 THEN a ELSE b]
  BY <1>1
<1>3. PICK l \in Nat : l = 2
  OBVIOUS
<1>4. s \in Seq(S)
  <2>1. s \in [1..l -> S]
    BY <1>2, <1>3
  <2> QED
    BY <2>1
<1>5. Len(s) = 2 /\ s[1] = a /\ s[2] = b /\ DOMAIN s = 1..2
  BY <1>1
<1> QED
  BY <1>1, <1>4, <1>5

\* A node of two operands.
LEMMA PairNode ==
    ASSUME NEW k \in 1..MaxHeight, NEW op \in Op, NEW a \in TreesUpTo[k - 1],
           NEW b \in TreesUpTo[k - 1]
    PROVE  /\ Node(op, <<a, b>>) \in TreesUpTo[k]
           /\ Node(op, <<a, b>>) \in Branches(TreesUpTo[k - 1])
<1>1. PICK s \in Seq(TreesUpTo[k - 1]) : s = <<a, b>> /\ Len(s) = 2
  <2>1. PICK S : S = TreesUpTo[k - 1]
    OBVIOUS
  <2>2. a \in S /\ b \in S
    BY <2>1
  <2>3. \E s \in Seq(S) : s = <<a, b>> /\ Len(s) = 2 /\ DOMAIN s = 1..2 /\ s[1] = a /\ s[2] = b
    BY <2>2, Pair
  <2> QED
    BY <2>1, <2>3
<1>2. Node(op, s) \in Branches(TreesUpTo[k - 1])
  BY NodeIsBranch
<1> QED
  BY <1>1, <1>2, TreesExist

LEMMA VarIsLeaf ==
    ASSUME NEW path \in Seq(Name)
    PROVE  Var(path) \in Leaves /\ Var(path).args = path /\ Is("op", Var(path)) /\ Var(path).op = "var"
           /\ Var(path).op \in VarOp
BY DEF Var, Node, Leaves, Variable, Is, VarOp

\* A condition of the SLA pack, of the vast pack.
IsSlaCondition(c) == /\ c.field \in Seq(Name)
                     /\ c.value \in Literal \/ IsFormula(c.value)
                     /\ c.operator \in DOMAIN SlaOperator

IsVastCondition(c) == /\ c.field \in Seq(Name)
                      /\ c.value \in Literal
                      /\ c.operator \in DOMAIN VastOperator

\* The number of a formula, or what is in its place.
LEMMA TimesLiteral ==
    ASSUME NEW v \in Value, Is("num", v) \/ Is("none", v)
    PROVE  v \in Literal /\ ~Is("text", v) /\ ~Is("list", v)
<1>1. IsValue(v)
  BY ConditionConstants
<1>2. DOMAIN v \in {{"none"}, {"num"}, {"text"}, {"list"}, {"map"}}
  BY <1>1 DEF IsValue, Nothing, Number, Text, List, Map, Is
<1> QED
  BY <1>2 DEF Literal, Is

LEMMA FormulaKind ==
    ASSUME NEW v
    PROVE  /\ IsFormula(v) => Is("times", v)
           /\ v \in Literal => ~Is("times", v)
<1>1. IsFormula(v) => Is("times", v)
  BY DEF IsFormula, Is
<1>2. ASSUME v \in Literal PROVE ~Is("times", v)
  <2>1. IsValue(v) /\ ~Is("map", v)
    BY <1>2, ConditionConstants DEF Literal
  <2>2. DOMAIN v \in {{"none"}, {"num"}, {"text"}, {"list"}}
    BY <2>1 DEF IsValue, Nothing, Number, Text, List, Map, Is
  <2> QED
    BY <2>2 DEF Is
<1> QED
  BY <1>1, <1>2

\* The second operand of an SLA condition.
SlaOperand(c) == IF Is("times", c.value)
                 THEN Node("* float", <<Var(c.value.field), c.value.times>>)
                 ELSE c.value

LEMMA SlaOperandTree ==
    ASSUME NEW c, IsSlaCondition(c)
    PROVE  SlaOperand(c) \in TreesUpTo[1]
<1>0. 1 \in 1..MaxHeight /\ 1 - 1 = 0 /\ 1 \in 0..MaxHeight
  BY ConditionConstants
<1>1. CASE c.value \in Literal
  <2>1. SlaOperand(c) = c.value
    BY <1>1, FormulaKind DEF SlaOperand
  <2> QED
    BY <1>0, <1>1, <2>1, LevelsGrow DEF Leaves
<1>2. CASE IsFormula(c.value)
  <2>1. PICK x, y : x = Var(c.value.field) /\ y = c.value.times
    OBVIOUS
  <2>2. SlaOperand(c) = Node("* float", <<x, y>>)
    BY <1>2, <2>1, FormulaKind DEF SlaOperand
  <2>3. x \in TreesUpTo[0] /\ y \in TreesUpTo[0]
    BY <1>2, <2>1, VarIsLeaf, TimesLiteral, TreesExist DEF IsFormula, Leaves
  <2>4. "* float" \in Op
    BY DEF Op, Operator, Formula
  <2> QED
    BY <1>0, <2>2, <2>3, <2>4, PairNode
<1> QED
  BY <1>1, <1>2 DEF IsSlaCondition

LEMMA SlaNodeTree ==
    ASSUME NEW c, IsSlaCondition(c)
    PROVE  /\ SlaNode(c) = Node(SlaOperator[c.operator], <<Var(c.field), SlaOperand(c)>>)
           /\ Var(c.field) \in TreesUpTo[1] /\ SlaOperator[c.operator] \in Operator
           /\ SlaNode(c) \in TreesUpTo[2] /\ SlaNode(c) \in Branches(TreesUpTo[1])
<1>0. 2 \in 1..MaxHeight /\ 2 - 1 = 1 /\ 1 \in 0..MaxHeight
  BY ConditionConstants
<1>1. PICK x, y, op : x = Var(c.field) /\ y = SlaOperand(c) /\ op = SlaOperator[c.operator]
  OBVIOUS
<1>2. SlaNode(c) = Node(op, <<x, y>>)
  BY <1>1 DEF SlaNode, SlaOperand
<1>3. x \in TreesUpTo[1]
  BY <1>0, <1>1, VarIsLeaf, LevelsGrow DEF IsSlaCondition
<1>4. y \in TreesUpTo[1]
  BY <1>1, SlaOperandTree
<1>5. op \in Operator
  BY <1>1, SlaOperators, TranslationIsOperator DEF IsSlaCondition
<1>6. op \in Op
  BY <1>5 DEF Op
<1>7. Node(op, <<x, y>>) \in TreesUpTo[2] /\ Node(op, <<x, y>>) \in Branches(TreesUpTo[1])
  BY <1>0, <1>3, <1>4, <1>6, PairNode
<1> QED
  BY <1>1, <1>2, <1>3, <1>5, <1>7

LEMMA VastNodeTree ==
    ASSUME NEW c, IsVastCondition(c)
    PROVE  /\ VastOperator[c.operator] \in Operator
           /\ Var(c.field) \in TreesUpTo[0] /\ c.value \in TreesUpTo[0]
           /\ VastNode(c) = Node(VastOperator[c.operator], <<Var(c.field), c.value>>)
           /\ VastNode(c) \in TreesUpTo[1] /\ VastNode(c) \in Branches(TreesUpTo[0])
<1>0. 1 \in 1..MaxHeight /\ 1 - 1 = 0
  BY ConditionConstants
<1>1. PICK x, y, op : x = Var(c.field) /\ y = c.value /\ op = VastOperator[c.operator]
  OBVIOUS
<1>2. VastNode(c) = Node(op, <<x, y>>)
  BY <1>1 DEF VastNode
<1>3. x \in TreesUpTo[0] /\ y \in TreesUpTo[0]
  BY <1>1, VarIsLeaf, TreesExist DEF IsVastCondition, Leaves
<1>5. op \in Operator
  BY <1>1, VastOperators, TranslationIsOperator DEF IsVastCondition, Operator
<1>6. op \in Op
  BY <1>5 DEF Op
<1>7. Node(op, <<x, y>>) \in TreesUpTo[1] /\ Node(op, <<x, y>>) \in Branches(TreesUpTo[0])
  BY <1>0, <1>3, <1>6, PairNode
<1> QED
  BY <1>1, <1>2, <1>3, <1>5, <1>7

\* A single condition is not wrapped, any other number of them is.
LEMMA JoinedTree ==
    ASSUME NEW op \in Combinator, NEW nodes \in Seq(TreesUpTo[2])
    PROVE  /\ Len(nodes) \in Nat /\ DOMAIN nodes = 1..Len(nodes)
           /\ \A i \in 1..Len(nodes) : nodes[i] \in Tree
           /\ Joined(op, nodes) \in Tree
           /\ \/ Len(nodes) = 1 /\ Joined(op, nodes) = nodes[1]
              \/ /\ Len(nodes) # 1 /\ Joined(op, nodes) = Node(op, nodes)
                 /\ Node(op, nodes) \in Branches(Tree)
<1>0. 3 \in 1..MaxHeight /\ 3 - 1 = 2 /\ 2 \in 0..MaxHeight /\ 3 \in 0..MaxHeight
  BY ConditionConstants
<1>1. Len(nodes) \in Nat /\ DOMAIN nodes = 1..Len(nodes)
  OBVIOUS
<1>2. TreesUpTo[2] \subseteq Tree /\ TreesUpTo[3] \subseteq Tree
  BY <1>0, LevelsGrow
<1>3. \A i \in 1..Len(nodes) : nodes[i] \in Tree
  BY <1>1, <1>2
<1>4. op \in Op
  BY DEF Op
<1>5. Node(op, nodes) \in Branches(TreesUpTo[2])
  BY <1>4, NodeIsBranch
<1>6. Node(op, nodes) \in Branches(Tree) /\ Node(op, nodes) \in Tree
  BY <1>0, <1>2, <1>5, BranchesGrow, TreesExist
<1>7. Len(nodes) = 1 => nodes[1] \in Tree
  BY <1>1, <1>3
<1> QED
  BY <1>1, <1>3, <1>6, <1>7 DEF Joined

LEMMA JoinedCount ==
    ASSUME NEW op \in Combinator, NEW nodes \in Seq(TreesUpTo[2]),
           \A i \in 1..Len(nodes) : CountLeaves(nodes[i]) = 1
    PROVE  CountLeaves(Joined(op, nodes)) = Len(nodes)
<1>1. CASE Len(nodes) = 1
  <2>1. Joined(op, nodes) = nodes[1] /\ 1 \in 1..Len(nodes)
    BY <1>1, JoinedTree
  <2> QED
    BY <1>1, <2>1
<1>2. CASE Len(nodes) # 1
  <2>1. PICK q : q = Node(op, nodes)
    OBVIOUS
  <2>2. Joined(op, nodes) = q /\ q \in Tree /\ q \in Branches(Tree)
    BY <1>2, <2>1, JoinedTree
  <2>3. Is("op", q) /\ q.op = op /\ q.args = nodes /\ op # "malformed"
    BY <2>1 DEF Is, Node, Combinator
  <2>4. PICK t : t = [i \in DOMAIN q.args |-> CountLeaves(q.args[i])]
    OBVIOUS
  <2>5. CountLeaves(q) = Total(t)
    BY <2>2, <2>3, <2>4, CountLeavesIs
  <2>6. PICK l \in Nat : l = Len(nodes) /\ DOMAIN nodes = 1..l
    BY JoinedTree
  <2>7. t = [i \in 1..l |-> 1]
    BY <2>3, <2>4, <2>6
  <2>8. Total(t) = l
    BY <2>7, TotalOfOnes
  <2> QED
    BY <2>2, <2>5, <2>6, <2>8
<1> QED
  BY <1>1, <1>2

LEMMA JoinedMeans ==
    ASSUME NEW op \in Combinator, NEW nodes \in Seq(TreesUpTo[2]), NEW d, NEW H,
           \A i \in 1..Len(nodes) : \/ Evaluate(nodes[i], d) = Flag(i \in H)
                                    \/ Evaluate(nodes[i], d) = Raised("TypeError")
    PROVE  \/ Evaluate(Joined(op, nodes), d) = Raised("TypeError")
           \/ /\ ~Is("raised", Evaluate(Joined(op, nodes), d))
              /\ Truthy(Evaluate(Joined(op, nodes), d)) <=>
                   IF op = "and" THEN \A i \in 1..Len(nodes) : i \in H
                   ELSE \E i \in 1..Len(nodes) : i \in H
<1>1. CASE Len(nodes) = 1
  <2>1. Joined(op, nodes) = nodes[1] /\ 1 \in 1..Len(nodes)
    BY <1>1, JoinedTree
  <2>2. Evaluate(nodes[1], d) = Flag(1 \in H) \/ Evaluate(nodes[1], d) = Raised("TypeError")
    BY <2>1
  <2>3. ~Is("raised", Flag(1 \in H)) /\ (Truthy(Flag(1 \in H)) <=> 1 \in H)
    BY FlagMember
  <2>4. (\A i \in 1..Len(nodes) : i \in H) <=> 1 \in H
    BY <1>1
  <2>5. (\E i \in 1..Len(nodes) : i \in H) <=> 1 \in H
    BY <1>1
  <2> QED
    BY <2>1, <2>2, <2>3, <2>4, <2>5
<1>2. CASE Len(nodes) # 1
  <2>1. PICK q : q = Node(op, nodes)
    OBVIOUS
  <2>2. Joined(op, nodes) = q /\ q \in Tree /\ q \in Branches(Tree)
    BY <1>2, <2>1, JoinedTree
  <2>3. Is("op", q) /\ q.op = op /\ q.args = nodes
    BY <2>1 DEF Is, Node
  <2>4. PICK r : /\ Len(q.args) \in Nat /\ DOMAIN r = 1..Len(q.args)
                 /\ \A i \in 1..Len(q.args) : r[i] = Evaluate(q.args[i], d)
                 /\ Evaluate(q, d) = Combined(q.op, r)
    BY <2>2, EvaluateBranch
  <2>5. PICK l \in Nat : l = Len(nodes)
    BY <2>3, <2>4
  <2>6. DOMAIN r = 1..l /\ \A i \in 1..l : r[i] = Flag(i \in H) \/ r[i] = Raised("TypeError")
    BY <2>3, <2>4, <2>5
  <2>7. Evaluate(q, d) = Junction(op, r)
    BY <2>3, <2>4 DEF Combined, Combinator, Operator, Comparison, Formula
  <2>8. \A i \in 1..l : ~Is("raised", r[i]) => (Truthy(r[i]) <=> i \in H)
    <3> SUFFICES ASSUME NEW i \in 1..l, ~Is("raised", r[i]) PROVE Truthy(r[i]) <=> i \in H
      OBVIOUS
    <3>1. r[i] = Flag(i \in H)
      BY <2>6, RaisedKind
    <3> QED
      BY <3>1, FlagMember
  <2>9. \A i \in 1..l : Is("raised", r[i]) => r[i] = Raised("TypeError")
    <3> SUFFICES ASSUME NEW i \in 1..l, Is("raised", r[i]) PROVE r[i] # Flag(i \in H)
      BY <2>6
    <3> QED
      BY FlagMember
  <2>10. op = "or" \/ op = "and"
    BY DEF Combinator
  <2>11. \A b : ~Is("raised", Flag(b)) /\ (Truthy(Flag(b)) <=> b)
    BY FlagKind
  <2>12. CASE \E i \in 1..l : Is("raised", r[i]) /\ Junction(op, r) = r[i]
    BY <2>2, <2>7, <2>9, <2>12
  <2>13. CASE /\ \E i \in 1..l : ~Is("raised", r[i]) /\ (Truthy(r[i]) <=> op = "or")
              /\ Junction(op, r) = Flag(op = "or")
    <3>1. PICK i \in 1..l : i \in H <=> op = "or"
      BY <2>8, <2>13
    <3>2. Evaluate(q, d) = Flag(op = "or")
      BY <2>7, <2>13
    <3>3. op = "or" => \E j \in 1..l : j \in H
      BY <3>1
    <3>4. op = "and" => ~\A j \in 1..l : j \in H
      BY <3>1
    <3> QED
      BY <2>2, <2>5, <2>10, <2>11, <3>2, <3>3, <3>4
  <2>14. CASE /\ \A i \in 1..l : ~Is("raised", r[i]) /\ (Truthy(r[i]) <=> op # "or")
              /\ Junction(op, r) = Flag(op = "and")
    <3>1. \A i \in 1..l : i \in H <=> op # "or"
      BY <2>8, <2>14
    <3>2. Evaluate(q, d) = Flag(op = "and")
      BY <2>7, <2>14
    <3> QED
      BY <2>2, <2>5, <2>10, <2>11, <3>1, <3>2
  <2> QED
    BY <2>6, <2>12, <2>13, <2>14, JunctionCases
<1> QED
  BY <1>1, <1>2

\* A value of a payload or of a rule, or a computed number.
Simple(v) == v \in Value \/ \E k \in Int : v = Number(k)

LEMMA SimpleKinds ==
    ASSUME NEW v, Simple(v)
    PROVE  /\ Is("num", v) => v = Number(v.num) /\ v.num \in Int /\ ~Is("text", v) /\ ~Is("none", v)
           /\ Is("text", v) => v \in Value /\ v = Text(v.text) /\ ~Is("num", v)
           /\ ~Is("raised", v) /\ ~Is("op", v)
<1>1. CASE v \in Value
  <2>1. IsValue(v)
    BY <1>1, ConditionConstants
  <2>2. DOMAIN v \in {{"none"}, {"num"}, {"text"}, {"list"}, {"map"}}
    BY <2>1 DEF IsValue, Nothing, Number, Text, List, Map, Is
  <2>3. /\ Is("num", v) => v = Number(v.num) /\ v.num \in Int
        /\ Is("text", v) => v = Text(v.text)
    BY <2>1, <2>2 DEF IsValue, Nothing, Number, Text, List, Map, Is
  <2> QED
    BY <1>1, <2>2, <2>3 DEF Is
<1>2. ASSUME NEW k \in Int, v = Number(k)
      PROVE  /\ v = Number(v.num) /\ v.num \in Int
             /\ ~Is("text", v) /\ ~Is("none", v) /\ ~Is("raised", v) /\ ~Is("op", v)
  BY <1>2 DEF Number, Is
<1> QED
  BY <1>1, <1>2 DEF Simple

\* Python's < is total on the values it orders.
LEMMA Trichotomy ==
    ASSUME NEW v, NEW w, Simple(v), Simple(w), Comparable(v, w)
    PROVE  ~Less(v, w) <=> Less(w, v) \/ v = w
<1>1. CASE Is("num", v) /\ Is("num", w)
  <2>1. v = Number(v.num) /\ v.num \in Int /\ w = Number(w.num) /\ w.num \in Int
    BY <1>1, SimpleKinds
  <2>2. v = w <=> v.num = w.num
    BY <2>1
  <2> QED
    BY <1>1, <2>1, <2>2 DEF Less
<1>2. CASE Is("text", v) /\ Is("text", w)
  <2>1. v \in Value /\ w \in Value /\ ~Is("num", v) /\ ~Is("num", w)
    BY <1>2, SimpleKinds
  <2>2. /\ v = w => <<v.text, w.text>> \notin Before
        /\ v # w => (<<v.text, w.text>> \in Before) = (<<w.text, v.text>> \notin Before)
    BY <1>2, <2>1, ConditionConstants
  <2> QED
    BY <2>1, <2>2 DEF Less
<1> QED
  BY <1>1, <1>2 DEF Comparable

\* The engine's operators mean what the packs' operators mean.
LEMMA OperatorMeans ==
    ASSUME NEW o, NEW op, Translation(o, op), NEW v, NEW w, Simple(v), Simple(w)
    PROVE  Apply(op, v, w) = Flag(Relates(o, v, w))
<1>1. CASE o = "equals" /\ op = "=="
  BY <1>1 DEF Apply, Relates, Comparison, Formula
<1>2. CASE o = "notEquals" /\ op = "!="
  BY <1>2 DEF Apply, Relates, Comparison, Formula
<1>3. CASE o = "in" /\ op = "in"
  BY <1>3 DEF Apply, Relates, Comparison, Formula
<1>4. CASE o = "contains" /\ op = "contains"
  BY <1>4 DEF Apply, Relates, Comparison, Formula
<1>0. op \in Comparison => Apply(op, v, w) = Flag(Compare(op, v, w))
  BY DEF Apply, Comparison, Formula
<1>t. /\ Comparable(v, w) => (~Less(v, w) <=> Less(w, v) \/ v = w)
      /\ Comparable(v, w) => (~Less(w, v) <=> Less(v, w) \/ v = w)
      /\ Comparable(v, w) <=> Comparable(w, v)
  <2>1. Comparable(v, w) <=> Comparable(w, v)
    BY DEF Comparable
  <2> QED
    BY <2>1, Trichotomy
<1>5. CASE o \in {"greaterThan", "gt"} /\ op = ">"
  <2>1. op \in Comparison
    BY <1>5 DEF Comparison
  <2>2. Compare(op, v, w) <=> Greater(v, w)
    BY <1>5 DEF Compare, Greater
  <2>3. Relates(o, v, w) <=> Greater(v, w)
    BY <1>5 DEF Relates
  <2> QED
    BY <1>0, <2>1, <2>2, <2>3 DEF Flag
<1>6. CASE o \in {"lessThan", "lt"} /\ op = "<"
  <2>1. op \in Comparison
    BY <1>6 DEF Comparison
  <2>2. Compare(op, v, w) <=> Greater(w, v)
    BY <1>6, <1>t DEF Compare, Greater
  <2>3. Relates(o, v, w) <=> Greater(w, v)
    BY <1>6 DEF Relates
  <2> QED
    BY <1>0, <2>1, <2>2, <2>3 DEF Flag
<1>7. CASE o \in {"greaterThanOrEqual", "gte"} /\ op = ">="
  <2>1. op \in Comparison
    BY <1>7 DEF Comparison
  <2>2. Compare(op, v, w) <=> Greater(v, w) \/ Same(v, w)
    BY <1>7, <1>t DEF Compare, Greater, Same
  <2>3. Relates(o, v, w) <=> Greater(v, w) \/ Same(v, w)
    BY <1>7 DEF Relates
  <2> QED
    BY <1>0, <2>1, <2>2, <2>3 DEF Flag
<1>8. CASE o \in {"lessThanOrEqual", "lte"} /\ op = "<="
  <2>1. op \in Comparison
    BY <1>8 DEF Comparison
  <2>2. Compare(op, v, w) <=> Greater(w, v) \/ Same(v, w)
    BY <1>8, <1>t DEF Compare, Greater, Same
  <2>3. Relates(o, v, w) <=> Greater(w, v) \/ Same(v, w)
    BY <1>8 DEF Relates
  <2> QED
    BY <1>0, <2>1, <2>2, <2>3 DEF Flag
<1> QED
  BY <1>1, <1>2, <1>3, <1>4, <1>5, <1>6, <1>7, <1>8 DEF Translation

\* A field is a value of the payload, a literal is itself.
LEMMA EvaluateLeaf ==
    ASSUME NEW d \in Value
    PROVE  /\ \A path \in Seq(Name) : /\ Evaluate(Var(path), d) = Lookup(path, d)
                                      /\ Lookup(path, d) \in Value
           /\ \A v \in Literal : Evaluate(v, d) = v
<1>0. Leaves \subseteq Tree
  BY LevelsGrow, ConditionConstants
<1>1. ASSUME NEW path \in Seq(Name) PROVE Evaluate(Var(path), d) = Lookup(path, d)
  <2>1. PICK n : n = Var(path)
    OBVIOUS
  <2>2. n \in Tree /\ Is("op", n) /\ n.op = "var" /\ n.op \in VarOp /\ n.args = path
    BY <1>0, <2>1, VarIsLeaf
  <2> QED
    BY <2>1, <2>2, EvaluateIs DEF Read
<1>2. ASSUME NEW path \in Seq(Name) PROVE Lookup(path, d) \in Value
  BY LookupValue
<1>3. ASSUME NEW v \in Literal PROVE Evaluate(v, d) = v
  <2>1. v \in Tree /\ ~Is("op", v)
    BY <1>0, LiteralKind DEF Leaves
  <2> QED
    BY <2>1, EvaluateIs
<1> QED
  BY <1>1, <1>2, <1>3

\* A node of two operands that are evaluated to a and b.
LEMMA EvaluatePair ==
    ASSUME NEW d, NEW op \in Operator, op # "in_holiday_period", NEW x \in Tree, NEW y \in Tree,
           Node(op, <<x, y>>) \in Tree, Node(op, <<x, y>>) \in Branches(Tree),
           ~Is("raised", Evaluate(x, d))
    PROVE  Evaluate(Node(op, <<x, y>>), d)
             = IF Is("raised", Evaluate(y, d)) THEN Evaluate(y, d)
               ELSE Apply(op, Evaluate(x, d), Evaluate(y, d))
<1>1. PICK s \in Seq(Tree) : s = <<x, y>> /\ Len(s) = 2 /\ DOMAIN s = 1..2 /\ s[1] = x /\ s[2] = y
  BY Pair
<1>2. PICK q : q = Node(op, s)
  OBVIOUS
<1>3. q \in Tree /\ q \in Branches(Tree) /\ q.op = op /\ q.args = s
  BY <1>1, <1>2 DEF Node
<1>4. PICK r : /\ DOMAIN r = 1..Len(q.args)
               /\ \A i \in 1..Len(q.args) : r[i] = Evaluate(q.args[i], d)
               /\ Evaluate(q, d) = Combined(q.op, r)
  BY <1>3, EvaluateBranch
<1>5. PICK l \in Nat : l = 2
  OBVIOUS
<1>6. DOMAIN r = 1..l /\ r[1] = Evaluate(x, d) /\ r[2] = Evaluate(y, d) /\ Evaluate(q, d) = Combined(op, r)
  BY <1>1, <1>3, <1>4, <1>5
<1>7. Arity(op) = l /\ \A i \in 1..l : Operand(r, i) = r[i]
  BY <1>5, <1>6 DEF Arity, Operand
<1>8. \/ \E i \in 1..l : Is("raised", r[i]) /\ Combined(op, r) = r[i]
      \/ /\ \A i \in 1..l : ~Is("raised", r[i])
         /\ Combined(op, r) = Apply(op, r[1], r[2])
  BY <1>7, OperatorCases
<1>9. 1..l = {1, 2}
  BY <1>5
<1>10. Evaluate(q, d) = IF Is("raised", r[2]) THEN r[2] ELSE Apply(op, r[1], r[2])
  BY <1>6, <1>8, <1>9
<1> QED
  BY <1>1, <1>2, <1>6, <1>10

LEMMA LeavesAreTrees == Leaves \subseteq Tree
BY LevelsGrow, ConditionConstants

LEMMA SimpleProduct ==
    ASSUME NEW i \in Int, NEW j \in Int
    PROVE  Simple(Number(i * j))
BY DEF Simple

\* The formula "field * number".
LEMMA FormulaMeans ==
    ASSUME NEW d \in Value, NEW v, IsFormula(v),
           Node("* float", <<Var(v.field), v.times>>) \in Tree
    PROVE  LET p == Product("* float", Lookup(v.field, d), v.times)
           IN  /\ Evaluate(Node("* float", <<Var(v.field), v.times>>), d) = p
               /\ p = Raised("TypeError") \/ Simple(p)
<1>0. Leaves \subseteq Tree
  BY LeavesAreTrees
<1>1. PICK x, y, a : x = Var(v.field) /\ y = v.times /\ a = Lookup(v.field, d)
  OBVIOUS
<1>2. y \in Value /\ (Is("num", y) \/ Is("none", y)) /\ y \in Literal
  BY <1>1, TimesLiteral DEF IsFormula
<1>3. /\ x \in Tree /\ y \in Tree /\ Evaluate(x, d) = a /\ a \in Value /\ Evaluate(y, d) = y
  BY <1>0, <1>1, <1>2, VarIsLeaf, EvaluateLeaf DEF IsFormula, Leaves
<1>4. ~Is("raised", a) /\ ~Is("raised", y)
  BY <1>2, <1>3, ValueKind
<1>5. PICK op : op = "* float"
  OBVIOUS
<1>6. PICK q : q = Node(op, <<x, y>>)
  OBVIOUS
<1>7. q \in Tree /\ Is("op", q) /\ q.op = op
  BY <1>1, <1>5, <1>6 DEF Is, Node
<1>8. q \in Branches(Tree)
  BY <1>5, <1>7, TreeShape, LiteralKind, VariableKind DEF VarOp
<1>9. op \in Operator /\ op # "in_holiday_period"
  BY <1>5 DEF Operator, Formula
<1>10. Evaluate(q, d) = Apply(op, a, y)
  <2>1. x \in Tree /\ y \in Tree /\ ~Is("raised", Evaluate(x, d))
    BY <1>3, <1>4
  <2>2. Node(op, <<x, y>>) \in Tree /\ Node(op, <<x, y>>) \in Branches(Tree)
    BY <1>6, <1>7, <1>8
  <2>3. Evaluate(Node(op, <<x, y>>), d)
          = IF Is("raised", Evaluate(y, d)) THEN Evaluate(y, d)
            ELSE Apply(op, Evaluate(x, d), Evaluate(y, d))
    BY <1>9, <2>1, <2>2, EvaluatePair
  <2> QED
    BY <1>3, <1>4, <1>6, <2>3
<1>11. Apply(op, a, y) = Product(op, a, y)
  BY <1>5 DEF Apply, Comparison, Formula
<1>12. Product(op, a, y) = Raised("TypeError") \/ Simple(Product(op, a, y))
  <2>1. Simple(Nothing)
    BY ConditionConstants DEF Simple
  <2>2. \A w \in Value : Is("num", w) => w.num \in Int
    BY SimpleKinds DEF Simple
  <2>3. Is("num", a) /\ Is("num", y) => Simple(Number(a.num * y.num))
    <3> SUFFICES ASSUME Is("num", a), Is("num", y) PROVE Simple(Number(a.num * y.num))
      OBVIOUS
    <3>1. a.num \in Int /\ y.num \in Int
      BY <1>2, <1>3, <2>2
    <3> QED
      BY <3>1, SimpleProduct
  <2>4. op # "*"
    BY <1>5
  <2> QED
    BY <2>1, <2>3, <2>4 DEF Product
<1> QED
  BY <1>1, <1>5, <1>6, <1>10, <1>11, <1>12

\* None satisfies no condition but != and == with null.
LEMMA NoneRelates ==
    ASSUME NEW o, NEW op, Translation(o, op), NEW v, NEW w, v = Nothing \/ w = Nothing,
           o # "notEquals", o = "equals" => w # Nothing
    PROVE  Relates(o, v, w) = FALSE
<1>1. /\ Is("none", Nothing) /\ ~Is("num", Nothing) /\ ~Is("text", Nothing)
      /\ ~Is("list", Nothing) /\ ~Is("map", Nothing)
  BY DEF Is, Nothing
<1>2. Member(v, w) = FALSE /\ Member(w, v) = FALSE
  BY <1>1 DEF Member
<1>3. Greater(v, w) = FALSE /\ Greater(w, v) = FALSE /\ Same(v, w) = FALSE
  BY <1>1 DEF Greater, Same, Comparable
<1>4. CASE o = "equals"
  BY <1>4 DEF Relates
<1>5. CASE o = "in"
  BY <1>2, <1>5 DEF Relates
<1>6. CASE o = "contains"
  BY <1>2, <1>6 DEF Relates
<1>7. CASE o \in {"greaterThan", "gt"}
  BY <1>3, <1>7 DEF Relates
<1>8. CASE o \in {"lessThan", "lt"}
  BY <1>3, <1>8 DEF Relates
<1>9. CASE o \in {"greaterThanOrEqual", "gte"}
  BY <1>3, <1>9 DEF Relates
<1>10. CASE o \in {"lessThanOrEqual", "lte"}
  BY <1>3, <1>10 DEF Relates
<1> QED
  BY <1>4, <1>5, <1>6, <1>7, <1>8, <1>9, <1>10 DEF Translation

LEMMA NoneIsNothing ==
    ASSUME NEW v \in Value
    PROVE  Is("none", v) <=> v = Nothing
<1>1. IsValue(v)
  BY ConditionConstants
<1> QED
  BY <1>1 DEF IsValue, Nothing, Number, Text, List, Map, Is

\* A condition of the SLA pack matches when it holds, or raises TypeError.
LEMMA SlaNodeMeans ==
    ASSUME NEW d \in Value, NEW c, IsSlaCondition(c),
           Missing(c, d) => ~TakesNone(c, d)
    PROVE  \/ Evaluate(SlaNode(c), d) = Flag(Holds(c, d))
           \/ Evaluate(SlaNode(c), d) = Raised("TypeError")
<1>0. 1 \in 0..MaxHeight /\ 2 \in 0..MaxHeight
  BY ConditionConstants
<1>1. PICK x, y, op : x = Var(c.field) /\ y = SlaOperand(c) /\ op = SlaOperator[c.operator]
  OBVIOUS
<1>2. /\ SlaNode(c) = Node(op, <<x, y>>) /\ Translation(c.operator, op)
      /\ op \in Operator /\ op # "in_holiday_period"
  BY <1>1, SlaNodeTree, SlaOperators, TranslationIsOperator DEF IsSlaCondition
<1>3. TreesUpTo[1] \subseteq Tree /\ TreesUpTo[2] \subseteq Tree
  BY <1>0, LevelsGrow
<1>4. x \in Tree /\ y \in Tree /\ Node(op, <<x, y>>) \in Tree /\ Node(op, <<x, y>>) \in Branches(Tree)
  BY <1>1, <1>2, <1>3, SlaNodeTree, SlaOperandTree, BranchesGrow
<1>5. PICK a : a = Lookup(c.field, d)
  OBVIOUS
<1>6. Evaluate(x, d) = a /\ a \in Value
  BY <1>1, <1>5, EvaluateLeaf DEF IsSlaCondition
<1>7. PICK b : b = IF Is("times", c.value)
                   THEN Product("* float", Lookup(c.value.field, d), c.value.times)
                   ELSE c.value
  OBVIOUS
<1>8. Evaluate(y, d) = b /\ (b = Raised("TypeError") \/ Simple(b))
  <2>1. CASE IsFormula(c.value)
    <3>1. PICK v : v = c.value
      OBVIOUS
    <3>2. Is("times", v)
      BY <2>1, <3>1, FormulaKind
    <3>3. y = Node("* float", <<Var(v.field), v.times>>)
      BY <1>1, <3>1, <3>2 DEF SlaOperand
    <3>4. b = Product("* float", Lookup(v.field, d), v.times)
      BY <1>7, <3>1, <3>2
    <3> QED
      BY <1>4, <2>1, <3>1, <3>3, <3>4, FormulaMeans
  <2>2. CASE c.value \in Literal
    <3>1. y = c.value /\ b = c.value
      BY <1>1, <1>7, <2>2, FormulaKind DEF SlaOperand
    <3> QED
      BY <2>2, <3>1, EvaluateLeaf, LiteralKind DEF Simple
  <2> QED
    BY <2>1, <2>2 DEF IsSlaCondition
<1>9. Simple(b) => (Holds(c, d) <=> Relates(c.operator, a, b) = TRUE) /\ Relates(c.operator, a, b) \in BOOLEAN
  <2> SUFFICES ASSUME Simple(b)
               PROVE  /\ Holds(c, d) <=> Relates(c.operator, a, b) = TRUE
                      /\ Relates(c.operator, a, b) \in BOOLEAN
    OBVIOUS
  <2>1. Relates(c.operator, a, b) \in BOOLEAN
    BY <1>2 DEF Relates, Translation, Greater, Same, Member, Comparable, Less
  <2>2. Compared(c, d) = b
    BY <1>7 DEF Compared
  <2>3. CASE ~Missing(c, d)
    BY <1>5, <2>1, <2>2, <2>3 DEF Holds
  <2>4. CASE Missing(c, d)
    <3>1. ~TakesNone(c, d)
      BY <2>4
    <3>2. a = Nothing \/ b = Nothing
      BY <1>5, <1>6, <1>7, <2>4, NoneIsNothing DEF Missing, Product
    <3>3. c.operator # "notEquals" /\ (c.operator = "equals" => b # Nothing)
      BY <2>2, <3>1 DEF TakesNone, Is, Nothing
    <3>4. Relates(c.operator, a, b) = FALSE
      BY <1>2, <3>2, <3>3, NoneRelates
    <3> QED
      BY <2>4, <3>4 DEF Holds
  <2> QED
    BY <2>3, <2>4
<1>10. ~Is("raised", a) /\ Simple(a)
  BY <1>6, ValueKind DEF Simple
<1>11. Evaluate(SlaNode(c), d) = IF Is("raised", b) THEN b ELSE Apply(op, a, b)
  BY <1>2, <1>4, <1>6, <1>8, <1>10, EvaluatePair
<1>12. CASE b = Raised("TypeError")
  BY <1>11, <1>12, RaisedKind
<1>13. CASE Simple(b)
  <2>1. ~Is("raised", b)
    BY <1>13, SimpleKinds
  <2>2. Apply(op, a, b) = Flag(Relates(c.operator, a, b))
    BY <1>2, <1>10, <1>13, OperatorMeans
  <2> QED
    BY <1>9, <1>11, <1>13, <2>1, <2>2 DEF Flag
<1> QED
  BY <1>8, <1>12, <1>13

LEMMA VastNodeMeans ==
    ASSUME NEW d \in Value, NEW c, IsVastCondition(c),
           Missing(c, d) => ~TakesNone(c, d)
    PROVE  Evaluate(VastNode(c), d) = Flag(Holds(c, d))
<1>0. 0 \in 0..MaxHeight /\ 1 \in 0..MaxHeight
  BY ConditionConstants
<1>1. PICK x, b, op : x = Var(c.field) /\ b = c.value /\ op = VastOperator[c.operator]
  OBVIOUS
<1>2. PICK q : q = VastNode(c) /\ q = Node(op, <<x, b>>)
  BY <1>1 DEF VastNode
<1>3. TreesUpTo[0] \subseteq Tree /\ TreesUpTo[1] \subseteq Tree
  BY <1>0, LevelsGrow
<1>4. x \in Tree /\ b \in Tree /\ q \in Tree /\ q \in Branches(Tree)
  BY <1>1, <1>2, <1>3, VastNodeTree, BranchesGrow
<1>5. PICK a : a = Lookup(c.field, d)
  OBVIOUS
<1>6. Evaluate(x, d) = a /\ a \in Value /\ Evaluate(b, d) = b /\ b \in Value
  BY <1>1, <1>5, EvaluateLeaf, LiteralKind DEF IsVastCondition
<1>7. Compared(c, d) = b /\ (Missing(c, d) <=> a = Nothing)
  BY <1>1, <1>5, <1>6, FormulaKind, NoneIsNothing DEF Compared, Missing, IsVastCondition
<1>8. ~Is("raised", a) /\ Simple(a) /\ ~Is("raised", b) /\ Simple(b)
  BY <1>6, ValueKind DEF Simple
<1>9. CASE Translation(c.operator, op)
  <2>1. op \in Operator /\ op # "in_holiday_period"
    BY <1>9, TranslationIsOperator
  <2>2. Evaluate(q, d) = Apply(op, a, b)
    BY <1>2, <1>4, <1>6, <1>8, <2>1, EvaluatePair
  <2>3. Apply(op, a, b) = Flag(Relates(c.operator, a, b))
    BY <1>8, <1>9, OperatorMeans
  <2>4. Relates(c.operator, a, b) \in BOOLEAN
    BY <1>9 DEF Relates, Translation, Greater, Same, Member, Comparable, Less
  <2>5. Missing(c, d) => Relates(c.operator, a, b) = FALSE
    <3> SUFFICES ASSUME Missing(c, d) PROVE Relates(c.operator, a, b) = FALSE
      OBVIOUS
    <3>1. c.operator # "notEquals" /\ (c.operator = "equals" => b # Nothing) /\ a = Nothing
      BY <1>7 DEF TakesNone, Is, Nothing
    <3> QED
      BY <1>9, <3>1, NoneRelates
  <2>6. Holds(c, d) <=> Relates(c.operator, a, b) = TRUE
    BY <1>5, <1>7, <2>4, <2>5 DEF Holds
  <2> QED
    BY <1>2, <2>2, <2>3, <2>4, <2>6 DEF Flag
<1>10. CASE c.operator = "in_holiday_period" /\ op = "in_holiday_period"
  <2>1. PICK s \in Seq(Tree) : s = <<x, b>> /\ Len(s) = 2 /\ DOMAIN s = 1..2 /\ s[1] = x /\ s[2] = b
    BY <1>4, Pair
  <2>2. q.op = op /\ q.args = s
    BY <1>2, <2>1 DEF Node
  <2>3. PICK r : /\ DOMAIN r = 1..Len(q.args)
                 /\ \A i \in 1..Len(q.args) : r[i] = Evaluate(q.args[i], d)
                 /\ Evaluate(q, d) = Combined(q.op, r)
    BY <1>4, EvaluateBranch
  <2>4. r[1] = a /\ 1 \in DOMAIN r
    BY <1>6, <2>1, <2>2, <2>3
  <2>5. Evaluate(q, d) = Flag(Truthy(a))
    <3>1. op \in Operator /\ Arity(op) = 1
      BY <1>10 DEF Operator, Arity
    <3>2. \A i \in 1..1 : Operand(r, i) = a
      BY <2>4 DEF Operand
    <3>3. \A i \in 1..Arity(op) : ~Is("raised", Operand(r, i))
      BY <1>8, <3>1, <3>2
    <3>4. Combined(op, r) = Flag(Truthy(r[1]))
      BY <1>10, <3>1, <3>3, OperatorCases
    <3> QED
      BY <2>2, <2>3, <2>4, <3>4
  <2>6. Relates(c.operator, a, b) = Truthy(a) /\ Truthy(a) \in BOOLEAN
    BY <1>10 DEF Relates, Truthy
  <2>7. Missing(c, d) => Truthy(a) = FALSE
    BY <1>7 DEF Truthy, Is, Nothing
  <2>8. Holds(c, d) <=> Truthy(a) = TRUE
    BY <1>5, <1>7, <2>6, <2>7 DEF Holds
  <2> QED
    BY <1>2, <2>5, <2>6, <2>8 DEF Flag
<1> QED
  BY <1>1, <1>9, <1>10, VastOperators DEF IsVastCondition

\* A rule the loader accepts becomes its conditions' nodes under one operator.
LEMMA SlaTreeIs ==
    ASSUME NEW r \in SlaRule, SlaTree(r) # Rejected
    PROVE  \E op \in Combinator, nodes \in Seq(TreesUpTo[2]) :
             /\ SlaTree(r) = Joined(op, nodes)
             /\ op = "and" <=> SaysAnd(r.logicalOperator)
             /\ Len(nodes) = Len(r.conditions) /\ DOMAIN r.conditions = 1..Len(nodes)
             /\ \A i \in 1..Len(nodes) : /\ IsSlaCondition(r.conditions[i])
                                         /\ nodes[i] = SlaNode(r.conditions[i])
<1>1. PICK cs : cs = r.conditions
  OBVIOUS
<1>2. /\ Len(cs) \in Nat /\ DOMAIN cs = 1..Len(cs)
      /\ \A i \in DOMAIN cs : /\ cs[i].field \in Seq(Name)
                              /\ cs[i].value \in Literal \/ IsFormula(cs[i].value)
  BY <1>1, ConditionConstants DEF IsList
<1>3. ~Unsupported(cs, SlaOperator) /\ ~Unreadable(cs)
  BY <1>1 DEF SlaTree
<1>4. \A i \in DOMAIN cs : IsSlaCondition(cs[i])
  BY <1>2, <1>3 DEF Unsupported, IsSlaCondition
<1>5. PICK l \in Nat : l = Len(cs) /\ DOMAIN cs = 1..l
  BY <1>2
<1>6. PICK nodes : nodes = [i \in DOMAIN cs |-> SlaNode(cs[i])]
  OBVIOUS
<1>7. nodes \in [1..l -> TreesUpTo[2]]
  BY <1>4, <1>5, <1>6, SlaNodeTree
<1>8. nodes \in Seq(TreesUpTo[2]) /\ Len(nodes) = l
  BY <1>7
<1>9. PICK op : op = IF SaysAnd(r.logicalOperator) THEN "and" ELSE "or"
  OBVIOUS
<1>10. op \in Combinator /\ (op = "and" <=> SaysAnd(r.logicalOperator))
  BY <1>9 DEF Combinator
<1>11. SlaTree(r) = Joined(op, nodes)
  BY <1>1, <1>3, <1>6, <1>9 DEF SlaTree
<1>12. \A i \in 1..l : IsSlaCondition(cs[i]) /\ nodes[i] = SlaNode(cs[i])
  BY <1>4, <1>5, <1>6
<1> QED
  BY <1>1, <1>5, <1>8, <1>10, <1>11, <1>12

LEMMA VastTreeIs ==
    ASSUME NEW r \in VastRule, VastTree(r) # Rejected
    PROVE  \E op \in Combinator, nodes \in Seq(TreesUpTo[2]) :
             /\ VastTree(r) = Joined(op, nodes)
             /\ op = "and" <=> r.shape = "all"
             /\ Len(nodes) = Len(r.conditions) /\ DOMAIN r.conditions = 1..Len(nodes)
             /\ \A i \in 1..Len(nodes) : /\ IsVastCondition(r.conditions[i])
                                         /\ nodes[i] = VastNode(r.conditions[i])
<1>1. PICK cs : cs = r.conditions
  OBVIOUS
<1>2. /\ Len(cs) \in Nat /\ DOMAIN cs = 1..Len(cs)
      /\ \A i \in DOMAIN cs : cs[i].field \in Seq(Name) /\ cs[i].value \in Literal
  BY <1>1, ConditionConstants DEF IsList
<1>3. ~Unsupported(cs, VastOperator) /\ r.shape \in {"all", "any"}
  BY <1>1 DEF VastTree
<1>4. \A i \in DOMAIN cs : IsVastCondition(cs[i])
  BY <1>2, <1>3 DEF Unsupported, IsVastCondition
<1>5. PICK l \in Nat : l = Len(cs) /\ DOMAIN cs = 1..l
  BY <1>2
<1>6. PICK nodes : nodes = [i \in DOMAIN cs |-> VastNode(cs[i])]
  OBVIOUS
<1>7. nodes \in [1..l -> TreesUpTo[2]]
  <2>1. 2 \in 1..MaxHeight /\ 2 - 1 = 1
    BY ConditionConstants
  <2>2. TreesUpTo[1] \subseteq TreesUpTo[2]
    BY <2>1, LevelsGrow
  <2> QED
    BY <1>4, <1>5, <1>6, <2>2, VastNodeTree
<1>8. nodes \in Seq(TreesUpTo[2]) /\ Len(nodes) = l
  BY <1>7
<1>9. PICK op : op = IF r.shape = "all" THEN "and" ELSE "or"
  OBVIOUS
<1>10. op \in Combinator /\ (op = "and" <=> r.shape = "all")
  BY <1>9 DEF Combinator
<1>11. VastTree(r) = Joined(op, nodes)
  BY <1>1, <1>3, <1>6, <1>9 DEF VastTree
<1>12. \A i \in 1..l : IsVastCondition(cs[i]) /\ nodes[i] = VastNode(cs[i])
  BY <1>4, <1>5, <1>6
<1> QED
  BY <1>1, <1>5, <1>8, <1>10, <1>11, <1>12

\* One condition counts one.
LEMMA ConditionCount ==
    /\ \A c : IsSlaCondition(c) => CountLeaves(SlaNode(c)) = 1
    /\ \A c : IsVastCondition(c) => CountLeaves(VastNode(c)) = 1
<1>0. TreesUpTo[1] \subseteq Tree /\ TreesUpTo[2] \subseteq Tree
  BY LevelsGrow, ConditionConstants
<1>1. ASSUME NEW n \in Tree, Is("op", n), n.op \in Operator
      PROVE  CountLeaves(n) = 1
  <2>1. n.op # "malformed" /\ n.op \notin Combinator
    BY <1>1 DEF Operator, Comparison, Formula, Combinator
  <2> QED
    BY <1>1, <2>1, CountLeavesIs
<1>2. ASSUME NEW c, IsSlaCondition(c) PROVE CountLeaves(SlaNode(c)) = 1
  <2>1. PICK n : n = SlaNode(c)
    OBVIOUS
  <2>2. n \in Tree /\ Is("op", n) /\ n.op \in Operator
    BY <1>0, <1>2, <2>1, SlaNodeTree DEF Node, Is
  <2> QED
    BY <1>1, <2>1, <2>2
<1>3. ASSUME NEW c, IsVastCondition(c) PROVE CountLeaves(VastNode(c)) = 1
  <2>1. PICK n : n = VastNode(c)
    OBVIOUS
  <2>2. n \in Tree /\ Is("op", n) /\ n.op \in Operator
    BY <1>0, <1>3, <2>1, VastNodeTree DEF VastNode, Node, Is
  <2> QED
    BY <1>1, <2>1, <2>2
<1> QED
  BY <1>2, <1>3

\* No operator below lacks an operand.
Whole(t) == \A m \in Subtrees(t) : ~LacksOperand(m)

LEMMA WholeLeaf ==
    /\ \A path \in Seq(Name) : Whole(Var(path))
    /\ \A v \in Literal : Whole(v)
<1>1. ASSUME NEW n \in Tree, ~Is("op", n) \/ n.op = "var" PROVE Whole(n)
  <2>1. Subtrees(n) = {n}
    BY <1>1, SubtreesIs DEF VarOp
  <2>2. ~LacksOperand(n)
    BY <1>1 DEF LacksOperand, Operator, Comparison, Formula
  <2> QED
    BY <2>1, <2>2 DEF Whole
<1> QED
  BY <1>1, LeavesAreTrees, VarIsLeaf, LiteralKind DEF Leaves

LEMMA WholePair ==
    ASSUME NEW op \in Operator, NEW x \in Tree, NEW y \in Tree, Whole(x), Whole(y),
           NEW q \in Tree, q = Node(op, <<x, y>>)
    PROVE  Whole(q)
<1>1. PICK s \in Seq(Tree) : s = <<x, y>> /\ Len(s) = 2 /\ DOMAIN s = 1..2 /\ s[1] = x /\ s[2] = y
  BY Pair
<1>2. Is("op", q) /\ q.op = op /\ q.args = s
  BY <1>1 DEF Is, Node
<1>3. op \notin VarOp /\ op # "unlisted" /\ op # "listed"
  BY DEF VarOp, Operator, Comparison, Formula
<1>4. ~LacksOperand(q)
  <2>1. Arity(op) \in {1, 2}
    BY DEF Arity
  <2>2. Len(s) = 2
    BY <1>1
  <2>3. ~(Len(s) < Arity(op))
    BY <2>1, <2>2
  <2> QED
    BY <1>2, <1>3, <2>3 DEF LacksOperand
<1>5. Subtrees(q) = {q} \union UNION {Subtrees(s[i]) : i \in DOMAIN s}
  BY <1>2, <1>3, SubtreesIs
<1>6. \A m \in Subtrees(q) : m = q \/ m \in Subtrees(x) \/ m \in Subtrees(y)
  BY <1>1, <1>5
<1> QED
  BY <1>4, <1>6 DEF Whole

LEMMA WholeConditions ==
    /\ \A c : IsSlaCondition(c) => Whole(SlaNode(c))
    /\ \A c : IsVastCondition(c) => Whole(VastNode(c))
<1>0. /\ TreesUpTo[0] \subseteq Tree /\ TreesUpTo[1] \subseteq Tree /\ TreesUpTo[2] \subseteq Tree
  BY LevelsGrow, ConditionConstants
<1>1. ASSUME NEW c, IsSlaCondition(c) PROVE Whole(SlaNode(c))
  <2>1. PICK x, y, op, q :
             x = Var(c.field) /\ y = SlaOperand(c) /\ op = SlaOperator[c.operator] /\ q = SlaNode(c)
    OBVIOUS
  <2>2. x \in Tree /\ y \in Tree /\ op \in Operator /\ q \in Tree /\ q = Node(op, <<x, y>>)
    BY <1>0, <1>1, <2>1, SlaNodeTree, SlaOperandTree
  <2>3. Whole(x)
    BY <1>1, <2>1, WholeLeaf DEF IsSlaCondition
  <2>4. Whole(y)
    <3>1. CASE c.value \in Literal
      BY <2>1, <3>1, FormulaKind, WholeLeaf DEF SlaOperand
    <3>2. CASE IsFormula(c.value)
      <4>1. PICK u, w, f : u = Var(c.value.field) /\ w = c.value.times /\ f = "* float"
        OBVIOUS
      <4>2. y = Node(f, <<u, w>>)
        BY <2>1, <3>2, <4>1, FormulaKind DEF SlaOperand
      <4>3. w \in Literal /\ c.value.field \in Seq(Name)
        BY <3>2, <4>1, TimesLiteral DEF IsFormula
      <4>4. u \in Tree /\ w \in Tree /\ Whole(u) /\ Whole(w)
        BY <4>1, <4>3, LeavesAreTrees, VarIsLeaf, WholeLeaf DEF Leaves
      <4>5. f \in Operator
        BY <4>1 DEF Operator, Formula
      <4> QED
        BY <2>2, <4>2, <4>4, <4>5, WholePair
    <3> QED
      BY <1>1, <3>1, <3>2 DEF IsSlaCondition
  <2>5. Whole(q)
    BY <2>2, <2>3, <2>4, WholePair
  <2> QED
    BY <2>1, <2>5
<1>2. ASSUME NEW c, IsVastCondition(c) PROVE Whole(VastNode(c))
  <2>1. PICK x, y, op, q :
             x = Var(c.field) /\ y = c.value /\ op = VastOperator[c.operator] /\ q = VastNode(c)
    OBVIOUS
  <2>2. x \in Tree /\ y \in Tree /\ op \in Operator /\ q \in Tree /\ q = Node(op, <<x, y>>)
    BY <1>0, <1>2, <2>1, VastNodeTree
  <2>3. Whole(x) /\ Whole(y)
    BY <1>2, <2>1, WholeLeaf DEF IsVastCondition
  <2>4. Whole(q)
    BY <2>2, <2>3, WholePair
  <2> QED
    BY <2>1, <2>4
<1> QED
  BY <1>1, <1>2

LEMMA WholeJoined ==
    ASSUME NEW op \in Combinator, NEW nodes \in Seq(TreesUpTo[2]),
           \A i \in 1..Len(nodes) : Whole(nodes[i])
    PROVE  Whole(Joined(op, nodes))
<1>1. CASE Len(nodes) = 1
  <2>1. Joined(op, nodes) = nodes[1] /\ 1 \in 1..Len(nodes)
    BY <1>1, JoinedTree
  <2> QED
    BY <2>1
<1>2. CASE Len(nodes) # 1
  <2>1. PICK q : q = Node(op, nodes)
    OBVIOUS
  <2>2. Joined(op, nodes) = q /\ q \in Tree
    BY <1>2, <2>1, JoinedTree
  <2>3. Is("op", q) /\ q.op = op /\ q.args = nodes
    BY <2>1 DEF Is, Node
  <2>4. op \notin VarOp /\ ~LacksOperand(q)
    BY <2>3 DEF LacksOperand, VarOp, Combinator, Operator, Comparison, Formula
  <2>5. PICK l \in Nat : l = Len(nodes) /\ DOMAIN nodes = 1..l
    BY JoinedTree
  <2>6. Subtrees(q) = {q} \union UNION {Subtrees(nodes[i]) : i \in 1..l}
    BY <2>2, <2>3, <2>4, <2>5, SubtreesIs
  <2>7. \A m \in Subtrees(q) : m = q \/ \E i \in 1..l : m \in Subtrees(nodes[i])
    BY <2>6
  <2> QED
    BY <2>2, <2>4, <2>5, <2>7 DEF Whole
<1> QED
  BY <1>1, <1>2

\* No missing field satisfies a condition.
NoneHolds(cs, d) == \A i \in DOMAIN cs : Missing(cs[i], d) => ~TakesNone(cs[i], d)

\* What evaluation makes of the tree of a rule of either pack.
MeansConditions(t, every, cs, d) ==
    \/ Evaluate(t, d) = Raised("TypeError")
    \/ /\ ~Is("raised", Evaluate(t, d))
       /\ Truthy(Evaluate(t, d)) <=> EveryOrSome(every, cs, d)

LEMMA SlaTreeMeans ==
    ASSUME NEW r \in SlaRule, SlaTree(r) # Rejected
    PROVE  /\ SlaTree(r) \in Tree
           /\ CountLeaves(SlaTree(r)) = Len(r.conditions)
           /\ Whole(SlaTree(r))
           /\ \A d \in Value : NoneHolds(r.conditions, d) =>
                               MeansConditions(SlaTree(r), SaysAnd(r.logicalOperator), r.conditions, d)
<1>1. PICK op \in Combinator, nodes \in Seq(TreesUpTo[2]) :
             /\ SlaTree(r) = Joined(op, nodes)
             /\ op = "and" <=> SaysAnd(r.logicalOperator)
             /\ Len(nodes) = Len(r.conditions) /\ DOMAIN r.conditions = 1..Len(nodes)
             /\ \A i \in 1..Len(nodes) : /\ IsSlaCondition(r.conditions[i])
                                         /\ nodes[i] = SlaNode(r.conditions[i])
  BY SlaTreeIs
<1>2. SlaTree(r) \in Tree
  BY <1>1, JoinedTree
<1>3. CountLeaves(SlaTree(r)) = Len(r.conditions)
  <2>1. \A i \in 1..Len(nodes) : CountLeaves(nodes[i]) = 1
    BY <1>1, ConditionCount
  <2> QED
    BY <1>1, <2>1, JoinedCount
<1>4. ASSUME NEW d \in Value, NoneHolds(r.conditions, d)
      PROVE  MeansConditions(SlaTree(r), SaysAnd(r.logicalOperator), r.conditions, d)
  <2>1. PICK H : H = {i \in 1..Len(nodes) : Holds(r.conditions[i], d)}
    OBVIOUS
  <2>2. ASSUME NEW i \in 1..Len(nodes)
        PROVE  \/ Evaluate(nodes[i], d) = Flag(i \in H)
               \/ Evaluate(nodes[i], d) = Raised("TypeError")
    <3>1. i \in H <=> Holds(r.conditions[i], d)
      BY <2>1
    <3>2. \/ Evaluate(nodes[i], d) = Flag(Holds(r.conditions[i], d))
          \/ Evaluate(nodes[i], d) = Raised("TypeError")
      BY <1>1, <1>4, SlaNodeMeans DEF NoneHolds
    <3> QED
      BY <3>1, <3>2 DEF Flag
  <2>3. \/ Evaluate(SlaTree(r), d) = Raised("TypeError")
        \/ /\ ~Is("raised", Evaluate(SlaTree(r), d))
           /\ Truthy(Evaluate(SlaTree(r), d)) <=>
                IF op = "and" THEN \A i \in 1..Len(nodes) : i \in H
                ELSE \E i \in 1..Len(nodes) : i \in H
    BY <1>1, <2>2, JoinedMeans
  <2>4. EveryOrSome(SaysAnd(r.logicalOperator), r.conditions, d) <=>
          IF op = "and" THEN \A i \in 1..Len(nodes) : i \in H
          ELSE \E i \in 1..Len(nodes) : i \in H
    BY <1>1, <2>1 DEF EveryOrSome
  <2> QED
    BY <2>3, <2>4 DEF MeansConditions
<1>5. Whole(SlaTree(r))
  <2>1. \A i \in 1..Len(nodes) : Whole(nodes[i])
    BY <1>1, WholeConditions
  <2> QED
    BY <1>1, <2>1, WholeJoined
<1> QED
  BY <1>2, <1>3, <1>4, <1>5

LEMMA VastTreeMeans ==
    ASSUME NEW r \in VastRule, VastTree(r) # Rejected
    PROVE  /\ VastTree(r) \in Tree
           /\ CountLeaves(VastTree(r)) = Len(r.conditions)
           /\ Whole(VastTree(r))
           /\ \A d \in Value : NoneHolds(r.conditions, d) =>
                               MeansConditions(VastTree(r), r.shape = "all", r.conditions, d)
<1>1. PICK op \in Combinator, nodes \in Seq(TreesUpTo[2]) :
             /\ VastTree(r) = Joined(op, nodes)
             /\ op = "and" <=> r.shape = "all"
             /\ Len(nodes) = Len(r.conditions) /\ DOMAIN r.conditions = 1..Len(nodes)
             /\ \A i \in 1..Len(nodes) : /\ IsVastCondition(r.conditions[i])
                                         /\ nodes[i] = VastNode(r.conditions[i])
  BY VastTreeIs
<1>2. VastTree(r) \in Tree
  BY <1>1, JoinedTree
<1>3. CountLeaves(VastTree(r)) = Len(r.conditions)
  <2>1. \A i \in 1..Len(nodes) : CountLeaves(nodes[i]) = 1
    BY <1>1, ConditionCount
  <2> QED
    BY <1>1, <2>1, JoinedCount
<1>4. ASSUME NEW d \in Value, NoneHolds(r.conditions, d)
      PROVE  MeansConditions(VastTree(r), r.shape = "all", r.conditions, d)
  <2>1. PICK H : H = {i \in 1..Len(nodes) : Holds(r.conditions[i], d)}
    OBVIOUS
  <2>2. ASSUME NEW i \in 1..Len(nodes)
        PROVE  \/ Evaluate(nodes[i], d) = Flag(i \in H)
               \/ Evaluate(nodes[i], d) = Raised("TypeError")
    <3>1. i \in H <=> Holds(r.conditions[i], d)
      BY <2>1
    <3>2. Evaluate(nodes[i], d) = Flag(Holds(r.conditions[i], d))
      BY <1>1, <1>4, VastNodeMeans DEF NoneHolds
    <3> QED
      BY <3>1, <3>2 DEF Flag
  <2>3. \/ Evaluate(VastTree(r), d) = Raised("TypeError")
        \/ /\ ~Is("raised", Evaluate(VastTree(r), d))
           /\ Truthy(Evaluate(VastTree(r), d)) <=>
                IF op = "and" THEN \A i \in 1..Len(nodes) : i \in H
                ELSE \E i \in 1..Len(nodes) : i \in H
    BY <1>1, <2>2, JoinedMeans
  <2>4. EveryOrSome(r.shape = "all", r.conditions, d) <=>
          IF op = "and" THEN \A i \in 1..Len(nodes) : i \in H
          ELSE \E i \in 1..Len(nodes) : i \in H
    BY <1>1, <2>1 DEF EveryOrSome
  <2> QED
    BY <2>3, <2>4 DEF MeansConditions
<1>5. Whole(VastTree(r))
  <2>1. \A i \in 1..Len(nodes) : Whole(nodes[i])
    BY <1>1, WholeConditions
  <2> QED
    BY <1>1, <2>1, WholeJoined
<1> QED
  BY <1>2, <1>3, <1>4, <1>5

-----------------------------------------------------------------------------
(***************************************************************************)
(* The invariant: where the tree comes from, and what the verdict is of.   *)
(***************************************************************************)
\* The verdict for a tree that was evaluated without an exception.
LEMMA VerdictIs ==
    ASSUME NEW n, NEW d, ~Is("raised", Evaluate(n, d))
    PROVE  /\ IsSatisfiedBy(n, d) \in {"matched", "unmatched"}
           /\ IsSatisfiedBy(n, d) = "matched" <=> Truthy(Evaluate(n, d))
<1>1. Evaluate(n, d) # Raised("ValueError") /\ Evaluate(n, d) \notin Uncaught
  BY RaisedKind, UncaughtKind
<1> QED
  BY <1>1 DEF IsSatisfiedBy, Uncaught

LEMMA VerdictRaised ==
    ASSUME NEW n, NEW d
    PROVE  IsSatisfiedBy(n, d) = "raised" <=> Evaluate(n, d) \in Uncaught
<1>1. Raised("ValueError") \notin Uncaught
  BY UncaughtKind
<1> QED
  BY <1>1 DEF IsSatisfiedBy, Uncaught

FromSla      == \E r \in SlaRule : source = [format |-> "sla", body |-> r] /\ tree = SlaTree(r)
FromVast     == \E r \in VastRule : source = [format |-> "vast", body |-> r] /\ tree = VastTree(r)
FromPrefixed == \E t \in PackTree : source = [format |-> "prefixed", body |-> t] /\ tree = Stripped(t)
FromPlain    == \E t \in PackTree : source = [format |-> "plain", body |-> t] /\ tree = t

Origin == \/ source = NoSource /\ tree = Rejected /\ verdict = "none"
          \/ FromSla \/ FromVast \/ FromPrefixed \/ FromPlain

Judged == verdict # "none" => /\ data \in Payload /\ tree # Rejected
                              /\ verdict = IsSatisfiedBy(tree, data)

\* In every reachable state the tree is what a loader made of a rule of its
\* pack, and a verdict is that of RuleCondition.is_satisfied_by on this tree.
THEOREM TreeAndVerdictFit == Spec => [](Origin /\ Judged)
<1>1. Init => Origin /\ Judged
  BY DEF Init, Origin, Judged
<1>2. Origin /\ Judged /\ [Next]_vars => Origin' /\ Judged'
  <2> SUFFICES ASSUME Origin, Judged, [Next]_vars PROVE Origin' /\ Judged'
    OBVIOUS
  <2>0. ASSUME source = NoSource PROVE verdict = "none"
    <3>1. \A f, b : [format |-> f, body |-> b] # NoSource
      BY DEF NoSource
    <3> QED
      BY <2>0, <3>1 DEF Origin, FromSla, FromVast, FromPrefixed, FromPlain
  <2>1. CASE LoadSla
    <3>1. FromSla' /\ verdict' = verdict
      BY <2>1 DEF LoadSla, Load, FromSla
    <3> QED
      BY <2>0, <2>1, <3>1 DEF LoadSla, Origin, Judged
  <2>2. CASE LoadVast
    <3>1. FromVast' /\ verdict' = verdict
      BY <2>2 DEF LoadVast, Load, FromVast
    <3> QED
      BY <2>0, <2>2, <3>1 DEF LoadVast, Origin, Judged
  <2>3. CASE LoadPrefixed
    <3>1. FromPrefixed' /\ verdict' = verdict
      BY <2>3 DEF LoadPrefixed, Load, FromPrefixed
    <3> QED
      BY <2>0, <2>3, <3>1 DEF LoadPrefixed, Origin, Judged
  <2>4. CASE LoadPlain
    <3>1. FromPlain' /\ verdict' = verdict
      BY <2>4 DEF LoadPlain, Load, FromPlain
    <3> QED
      BY <2>0, <2>4, <3>1 DEF LoadPlain, Origin, Judged
  <2>5. CASE Match
    <3>1. tree # Rejected /\ tree' = tree /\ source' = source
          /\ data' \in Payload /\ verdict' = IsSatisfiedBy(tree, data')
      BY <2>5 DEF Match
    <3>2. Judged'
      BY <3>1 DEF Judged
    <3>3. Origin'
      BY <3>1 DEF Origin, FromSla, FromVast, FromPrefixed, FromPlain
    <3> QED
      BY <3>2, <3>3
  <2>6. CASE UNCHANGED vars
    BY <2>6 DEF vars, Origin, Judged, FromSla, FromVast, FromPrefixed, FromPlain
  <2> QED
    BY <2>1, <2>2, <2>3, <2>4, <2>5, <2>6 DEF Next
<1> QED
  BY <1>1, <1>2, PTL DEF Spec

\* A verdict is of a tree.
LEMMA JudgedTree ==
    ASSUME Origin, tree # Rejected
    PROVE  tree \in Tree
<1>1. CASE FromSla
  BY <1>1, SlaTreeMeans DEF FromSla
<1>2. CASE FromVast
  BY <1>2, VastTreeMeans DEF FromVast
<1>3. CASE FromPrefixed
  BY <1>3, StrippedTree, ConditionConstants DEF FromPrefixed
<1>4. CASE FromPlain
  BY <1>4, ConditionConstants DEF FromPlain
<1> QED
  BY <1>1, <1>2, <1>3, <1>4 DEF Origin

\* The formats of the four kinds of rules.
LEMMA FormatIs ==
    ASSUME NEW f, NEW b, source = [format |-> f, body |-> b]
    PROVE  source.format = f /\ source.body = b
OBVIOUS

\* _conditions_to_jsonlogic and _when_to_jsonlogic keep the meaning of a
\* rule, whatever rules the packs have: a rule whose evaluation ends matches
\* exactly when every (or some) condition of its file holds of the payload, a
\* missing field satisfying none, unless one of its conditions is a != or an
\* == with null on a missing field.
THEOREM TranslationIsFaithful == Spec => []TranslationKeepsMeaning
<1>1. Origin /\ Judged => TranslationKeepsMeaning
  <2> SUFFICES ASSUME Origin, Judged, verdict \in {"matched", "unmatched"},
                      source.format \in {"sla", "vast"}
               PROVE  LET r == source.body
                          every == IF source.format = "sla" THEN SaysAnd(r.logicalOperator)
                                   ELSE r.shape = "all"
                      IN  NoneHolds(r.conditions, data)
                          => (verdict = "matched") = EveryOrSome(every, r.conditions, data)
    BY DEF TranslationKeepsMeaning, NoneHolds
  <2>1. data \in Value /\ tree # Rejected /\ verdict = IsSatisfiedBy(tree, data)
    BY ConditionConstants DEF Judged
  <2>2. ASSUME NEW every, NEW cs, MeansConditions(tree, every, cs, data)
        PROVE  (verdict = "matched") = EveryOrSome(every, cs, data)
    <3>1. Evaluate(tree, data) # Raised("TypeError")
      BY <2>1, VerdictRaised DEF Uncaught
    <3>2. /\ ~Is("raised", Evaluate(tree, data))
          /\ Truthy(Evaluate(tree, data)) <=> EveryOrSome(every, cs, data)
      BY <2>2, <3>1 DEF MeansConditions
    <3>3. verdict = "matched" <=> Truthy(Evaluate(tree, data))
      BY <2>1, <3>2, VerdictIs
    <3>4. EveryOrSome(every, cs, data) \in BOOLEAN
      BY DEF EveryOrSome
    <3> QED
      BY <3>2, <3>3, <3>4
  <2>3. CASE FromSla
    <3>1. PICK r \in SlaRule : source = [format |-> "sla", body |-> r] /\ tree = SlaTree(r)
      BY <2>3 DEF FromSla
    <3>2. source.format = "sla" /\ source.body = r
      BY <3>1, FormatIs
    <3>3. NoneHolds(r.conditions, data) => MeansConditions(tree, SaysAnd(r.logicalOperator), r.conditions, data)
      BY <2>1, <3>1, SlaTreeMeans
    <3>4. NoneHolds(r.conditions, data)
          => (verdict = "matched") = EveryOrSome(SaysAnd(r.logicalOperator), r.conditions, data)
      BY <2>2, <3>3
    <3> QED
      BY <3>2, <3>4
  <2>4. CASE FromVast
    <3>1. PICK r \in VastRule : source = [format |-> "vast", body |-> r] /\ tree = VastTree(r)
      BY <2>4 DEF FromVast
    <3>2. source.format = "vast" /\ source.body = r
      BY <3>1, FormatIs
    <3>3. NoneHolds(r.conditions, data) => MeansConditions(tree, r.shape = "all", r.conditions, data)
      BY <2>1, <3>1, VastTreeMeans
    <3>4. NoneHolds(r.conditions, data)
          => (verdict = "matched") = EveryOrSome(r.shape = "all", r.conditions, data)
      BY <2>2, <3>3
    <3> QED
      BY <3>2, <3>4
  <2>5. ~FromPrefixed /\ ~FromPlain /\ source # NoSource
    BY FormatIs DEF FromPrefixed, FromPlain, NoSource
  <2> QED
    BY <2>3, <2>4, <2>5 DEF Origin
<1> QED
  BY <1>1, TreeAndVerdictFit, PTL

\* _strip_incident_prefix moves a tree of any height out of its "incident."
\* namespace: the stripped tree says of a payload what the file's tree says
\* of the payload with itself as the namespace "incident".
THEOREM StrippingIsFaithful == Spec => []StrippingIsANamespace
<1>1. Origin /\ Judged => StrippingIsANamespace
  <2> SUFFICES ASSUME Origin, Judged, verdict # "none", source.format = "prefixed",
                      \A n \in Subtrees(source.body) : ~Unmoved(n)
               PROVE  verdict = IsSatisfiedBy(source.body, Nested(data))
    BY DEF StrippingIsANamespace, Nested
  <2>1. data \in Payload /\ verdict = IsSatisfiedBy(tree, data)
    BY DEF Judged
  <2>2. ~FromSla /\ ~FromVast /\ ~FromPlain /\ source # NoSource
    BY FormatIs DEF FromSla, FromVast, FromPlain, NoSource
  <2>3. PICK t \in PackTree : source = [format |-> "prefixed", body |-> t] /\ tree = Stripped(t)
    BY <2>2 DEF Origin, FromPrefixed
  <2>4. source.body = t /\ t \in Tree
    BY <2>3, FormatIs, ConditionConstants
  <2>5. data \in Value /\ Is("map", data)
    BY <2>1, ConditionConstants
  <2>6. Evaluate(Stripped(t), data) = Evaluate(t, Nested(data))
    BY <2>4, <2>5, EvaluateStripped
  <2> QED
    BY <2>1, <2>3, <2>4, <2>6 DEF IsSatisfiedBy
<1> QED
  BY <1>1, TreeAndVerdictFit, PTL

\* _count_leaves of the tree of a rule is the number of conditions its author
\* wrote, for lists of any length, and stripping a prefix does not change it.
THEOREM SpecificityIsTheAuthors == Spec => []SpecificityCountsConditions
<1>1. Origin /\ Judged => SpecificityCountsConditions
  <2> SUFFICES ASSUME Origin, Judged, tree # Rejected
               PROVE  CASE source.format \in {"sla", "vast"} ->
                             CountLeaves(tree) = Len(source.body.conditions)
                        [] OTHER -> CountLeaves(tree) = CountLeaves(source.body)
    BY DEF SpecificityCountsConditions
  <2>1. CASE FromSla
    <3>1. PICK r \in SlaRule : source = [format |-> "sla", body |-> r] /\ tree = SlaTree(r)
      BY <2>1 DEF FromSla
    <3>2. source.format = "sla" /\ source.body = r
      BY <3>1, FormatIs
    <3>3. CountLeaves(tree) = Len(r.conditions)
      BY <3>1, SlaTreeMeans
    <3> QED
      BY <3>2, <3>3
  <2>2. CASE FromVast
    <3>1. PICK r \in VastRule : source = [format |-> "vast", body |-> r] /\ tree = VastTree(r)
      BY <2>2 DEF FromVast
    <3>2. source.format = "vast" /\ source.body = r
      BY <3>1, FormatIs
    <3>3. CountLeaves(tree) = Len(r.conditions)
      BY <3>1, VastTreeMeans
    <3> QED
      BY <3>2, <3>3
  <2>3. CASE FromPrefixed
    <3>1. PICK t \in PackTree : source = [format |-> "prefixed", body |-> t] /\ tree = Stripped(t)
      BY <2>3 DEF FromPrefixed
    <3>2. source.format = "prefixed" /\ source.body = t
      BY <3>1, FormatIs
    <3>3. CountLeaves(tree) = CountLeaves(t)
      BY <3>1, CountStripped, ConditionConstants
    <3> QED
      BY <3>2, <3>3
  <2>4. CASE FromPlain
    <3>1. PICK t \in PackTree : source = [format |-> "plain", body |-> t] /\ tree = t
      BY <2>4 DEF FromPlain
    <3>2. source.format = "plain" /\ source.body = t
      BY <3>1, FormatIs
    <3> QED
      BY <3>1, <3>2
  <2> QED
    BY <2>1, <2>2, <2>3, <2>4 DEF Origin
<1> QED
  BY <1>1, TreeAndVerdictFit, PTL

\* RuleCondition.is_satisfied_by raises only where an operator lacks an
\* operand, which no rule of the SLA and the vast pack does, or out of a
\* formula over a value that is not a number, in a tree of any height.
THEOREM RaisesAreOfOperands == Spec => []RaisesOnlyOnOperands
<1>1. Origin /\ Judged => RaisesOnlyOnOperands
  <2> SUFFICES ASSUME Origin, Judged, verdict = "raised"
               PROVE  \E n \in Subtrees(tree) :
                        \/ LacksOperand(n) /\ source.format \notin {"sla", "vast"}
                        \/ OddFormula(n, data)
    BY DEF RaisesOnlyOnOperands, OddFormula
  <2>1. data \in Value /\ tree # Rejected /\ verdict = IsSatisfiedBy(tree, data)
    BY ConditionConstants DEF Judged
  <2>2. tree \in Tree
    BY <2>1, JudgedTree
  <2>3. Evaluate(tree, data) \in Uncaught
    BY <2>1, VerdictRaised
  <2>4. PICK n \in Subtrees(tree) : LacksOperand(n) \/ OddFormula(n, data)
    BY <2>1, <2>2, <2>3, EvaluateRaises
  <2>5. source.format \in {"sla", "vast"} => Whole(tree)
    <3>1. FromSla => Whole(tree)
      BY <2>1, SlaTreeMeans DEF FromSla
    <3>2. FromVast => Whole(tree)
      BY <2>1, VastTreeMeans DEF FromVast
    <3>3. FromPrefixed \/ FromPlain => source.format \notin {"sla", "vast"}
      BY FormatIs DEF FromPrefixed, FromPlain
    <3> QED
      BY <2>1, <3>1, <3>2, <3>3 DEF Origin
  <2> QED
    BY <2>4, <2>5 DEF Whole
<1> QED
  BY <1>1, TreeAndVerdictFit, PTL

\* The order in which the conditions of an and/or are written, at any depth,
\* matters only where one of them cannot be evaluated.
THEOREM OrderDoesNotMatter == Spec => []OrderIsIrrelevant
<1>1. Origin /\ Judged => OrderIsIrrelevant
  <2> SUFFICES ASSUME Origin, Judged, verdict # "none",
                      \A n \in Subtrees(tree) : ~Is("raised", Evaluate(n, data))
               PROVE  verdict = IsSatisfiedBy(Mirrored(tree), data)
    BY DEF OrderIsIrrelevant
  <2>1. tree # Rejected /\ verdict = IsSatisfiedBy(tree, data)
    BY DEF Judged
  <2>2. tree \in Tree
    BY <2>1, JudgedTree
  <2>3. Evaluate(Mirrored(tree), data) = Evaluate(tree, data)
    BY <2>2, EvaluateMirrored
  <2> QED
    BY <2>1, <2>3 DEF IsSatisfiedBy
<1> QED
  BY <1>1, TreeAndVerdictFit, PTL
=============================================================================
