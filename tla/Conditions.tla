----------------------------- MODULE Conditions -----------------------------
(***************************************************************************)
(* How a rule's condition gets from a rule-pack file to a verdict.         *)
(*                                                                         *)
(* Six loaders turn rule packs of four formats into JsonLogic-like trees   *)
(* (app/infrastructure/repositories/*_loader.py): the telecom SLA pack     *)
(* lists conditions under one logical operator, the vast pack lists them   *)
(* under "all" or "any", three packs are trees over an "incident."         *)
(* namespace that the loader strips, and the base and industry packs are   *)
(* trees that are taken as they are.  RuleEngine.evaluate                  *)
(* (app/engine) walks the tree over the incident's payload, and            *)
(* RuleCondition.is_satisfied_by turns what it returns or raises into      *)
(* matched or not matched.                                                 *)
(*                                                                         *)
(* A behavior loads one rule and evaluates one payload.  The code's        *)
(* recursion over a tree is a recursive function on the set of all trees   *)
(* up to a height.                                                         *)
(***************************************************************************)
EXTENDS Integers, Sequences, FiniteSetsExt

CONSTANTS
    SlaRule,    \* rules of the SLA pack: [conditions, logicalOperator]
    VastRule,   \* rules of the vast pack: [shape, conditions]
    PackTree,   \* condition trees of the other packs
    Payload,    \* the data rules are evaluated on
    Value,      \* the values in rules and payloads
    Name,       \* the parts of dotted paths, the keys of payloads
    OtherOp,    \* operators no evaluator is registered for
    MaxHeight,  \* a bound on the height of trees
    Copies(_, _), \* Copies(s, n): text s repeated n times
    Part,       \* pairs <<s, t>>: text s occurs inside text t
    Before      \* pairs <<s, t>>: text s sorts before text t

VARIABLES
    source,     \* the rule as its file has it, [format, body]
    tree,       \* the rule's condition tree; Rejected when the loader raised
    data,       \* the payload it was evaluated on
    verdict     \* "none", "matched", "unmatched" or "raised"

vars == <<source, tree, data, verdict>>

-----------------------------------------------------------------------------
(***************************************************************************)
(* Values.  Each kind of Python value is a record with a field of its own, *)
(* so that values of different kinds are different.  Python's True and     *)
(* False are the numbers 1 and 0.                                          *)
(***************************************************************************)
Nothing   == [none |-> TRUE]
Number(n) == [num |-> n]
Text(s)   == [text |-> s]
List(s)   == [list |-> s]
Map(f)    == [map |-> f]
Flag(b)   == Number(IF b THEN 1 ELSE 0)

Raised(e) == [raised |-> e]

Is(kind, v) == kind \in DOMAIN v

\* bool(v)
Truthy(v) ==
    CASE Is("num", v)  -> v.num # 0
      [] Is("text", v) -> v.text # ""
      [] Is("list", v) -> v.list # <<>>
      [] Is("map", v)  -> DOMAIN v.map # {}
      [] OTHER         -> FALSE

-----------------------------------------------------------------------------
(***************************************************************************)
(* Trees.  A node is [op, args].  {"var": path} has the dotted path as a   *)
(* sequence of names, and "listed" is the form {"var": [path, ...]}.  "*"  *)
(* multiplies by an integer and "* float" by the float the SLA loader      *)
(* writes.  An operator whose argument is no list is an "unlisted" node    *)
(* (text, which Python takes letter by letter, is left out).  A dictionary *)
(* without exactly one key is a "malformed" node, and both it and an       *)
(* operator no evaluator is registered for raise ValueError.               *)
(***************************************************************************)
Node(op, args) == [op |-> op, args |-> args]
Var(path)      == Node("var", path)

VarOp      == {"var", "listed"}
Comparison == {">", "<", ">=", "<="}
Formula    == {"*", "* float"}
Operator   == Comparison \union Formula
                         \union {"==", "!=", "in", "contains", "in_holiday_period"}
Combinator == {"and", "or"}
Op         == Operator \union Combinator \union {"unlisted", "malformed"} \union OtherOp

\* A literal is no dict: RuleEngine.evaluate would take it for a node.
Literal  == {v \in Value : ~Is("map", v)}
Variable == [op : {"var"}, args : Seq(Name)]
            \union [op : {"listed"}, args : Seq(Seq(Name))]

TreesUpTo[k \in 0..MaxHeight] ==
    Literal \union Variable \union
    IF k = 0 THEN {} ELSE [op : Op, args : Seq(TreesUpTo[k - 1])]

Tree == TreesUpTo[MaxHeight]

IsValue(v) ==
    \/ v = Nothing
    \/ Is("num", v) /\ v = Number(v.num) /\ v.num \in Int
    \/ Is("text", v) /\ v = Text(v.text)
    \/ Is("list", v) /\ v = List(v.list)
    \/ Is("map", v) /\ v = Map(v.map) /\ \A k \in DOMAIN v.map : v.map[k] \in Value

\* An SLA condition's value with a "*" in it is taken for a formula "field *
\* number", whose number float() may not be able to read: Nothing.
IsFormula(v) == /\ DOMAIN v = {"field", "times"} /\ v.field \in Seq(Name)
                /\ v.times \in {w \in Value : Is("num", w) \/ Is("none", w)}

IsList(s) == Len(s) \in Nat /\ DOMAIN s = 1..Len(s)

ASSUME ConditionConstants ==
    /\ MaxHeight \in Nat /\ MaxHeight >= 3    \* what the loaders build
    /\ OtherOp \cap (Operator \union Combinator
                     \union {"var", "listed", "unlisted", "malformed"}) = {}
    /\ Nothing \in Value /\ \A v \in Value : IsValue(v)
    \* Python orders any two strings.
    /\ \A v, w \in Value : Is("text", v) /\ Is("text", w) =>
          /\ v = w => <<v.text, w.text>> \notin Before
          /\ v # w => (<<v.text, w.text>> \in Before) = (<<w.text, v.text>> \notin Before)
    /\ \A d \in Payload : d \in Value /\ Is("map", d)
    /\ PackTree \subseteq Tree
    /\ \A r \in SlaRule : /\ IsList(r.conditions)
                          /\ \A i \in DOMAIN r.conditions :
                               /\ r.conditions[i].field \in Seq(Name)
                               /\ \/ r.conditions[i].value \in Literal
                                  \/ IsFormula(r.conditions[i].value)
    /\ \A r \in VastRule : /\ IsList(r.conditions)
                           /\ \A i \in DOMAIN r.conditions :
                                /\ r.conditions[i].field \in Seq(Name)
                                /\ r.conditions[i].value \in Literal

-----------------------------------------------------------------------------
(***************************************************************************)
(* The evaluators of app/engine.                                           *)
(***************************************************************************)
\* VarEvaluator: a missing part of the path gives None; the empty path gives
\* the whole payload.
Child(v, name) == IF Is("map", v) /\ name \in DOMAIN v.map THEN v.map[name] ELSE Nothing

Lookup(path, d) ==
    LET current[i \in 0..Len(path)] == IF i = 0 THEN d ELSE Child(current[i - 1], path[i])
    IN  current[Len(path)]

\* path = args[0] if isinstance(args, list) else args
Read(n, d) ==
    CASE n.op = "var" -> Lookup(n.args, d)
      [] n.op = "listed" -> IF n.args = <<>> THEN Raised("IndexError")
                                             ELSE Lookup(n.args[1], d)

\* a < b in Python, for the kinds that can be ordered with one another; for
\* others it raises TypeError.  (No condition here orders lists.)
Comparable(a, b) == \/ Is("num", a) /\ Is("num", b)
                    \/ Is("text", a) /\ Is("text", b)

Less(a, b) == IF Is("num", a) THEN a.num < b.num ELSE <<a.text, b.text>> \in Before

\* _Comparison.evaluate: None and TypeError both give False.
Compare(op, a, b) ==
    /\ Comparable(a, b)
    /\ CASE op = ">"  -> Less(b, a)
         [] op = "<"  -> Less(a, b)
         [] op = ">=" -> ~Less(a, b)
         [] op = "<=" -> ~Less(b, a)

\* needle in haystack, False for None and where Python raises TypeError.
Member(needle, haystack) ==
    \/ /\ Is("list", haystack) /\ ~Is("none", needle)
       /\ \E i \in DOMAIN haystack.list : haystack.list[i] = needle
    \/ /\ Is("text", haystack) /\ Is("text", needle)
       /\ needle.text = haystack.text \/ <<needle.text, haystack.text>> \in Part
    \/ /\ Is("map", haystack) /\ Is("text", needle)
       /\ needle.text \in DOMAIN haystack.map

\* An integer repeats a text or a list, not at all when it is negative.
Repeated(v, n) ==
    IF Is("text", v) THEN Text(Copies(v.text, n))
    ELSE List([i \in 1..(n * Len(v.list)) |-> v.list[1 + ((i - 1) % Len(v.list))]])

Repeats(v, w) == (Is("text", v) \/ Is("list", v)) /\ Is("num", w)

\* MultiplyEvaluator
Product(op, a, b) ==
    IF Is("none", a) \/ Is("none", b) THEN Nothing
    ELSE IF Is("num", a) /\ Is("num", b) THEN Number(a.num * b.num)
    ELSE CASE op = "*" /\ Repeats(a, b) -> Repeated(a, b.num)
           [] op = "*" /\ Repeats(b, a) -> Repeated(b, a.num)
           [] OTHER -> Raised("TypeError")

Apply(op, a, b) ==
    CASE op \in Comparison -> Flag(Compare(op, a, b))
      [] op = "=="         -> Flag(a = b)
      [] op = "!="         -> Flag(a # b)
      [] op = "in"         -> Flag(Member(a, b))
      [] op = "contains"   -> Flag(Member(b, a))
      [] op \in Formula    -> Product(op, a, b)

\* Mutant: returning from inside the loop at the first node.
JunctionFirst(op, results) ==
    IF results = <<>> THEN Flag(op = "and")
    ELSE IF Is("raised", results[1]) THEN results[1] ELSE Flag(Truthy(results[1]))

\* all() and any() stop at the first node that decides, or raises.
Junction(op, results) ==
    LET decides == {i \in DOMAIN results : \/ Is("raised", results[i])
                                           \/ Truthy(results[i]) = (op = "or")}
    IN  IF decides = {} THEN Flag(op = "and")
        ELSE LET first == results[Min(decides)]
             IN  IF Is("raised", first) THEN first ELSE Flag(op = "or")

Arity(op) == IF op = "in_holiday_period" THEN 1 ELSE 2

\* args[0] and args[1], read unasked
Operand(results, i) == IF i \in DOMAIN results THEN results[i] ELSE Raised("IndexError")

\* What an evaluator makes of its operands' results.  It evaluates as many as
\* it reads, left to right, outside its try block.
Combined(op, results) ==
    LET failing == {i \in 1..Arity(op) : Is("raised", Operand(results, i))}
    IN  CASE op \in Combinator -> Junction(op, results)
          [] op \in Operator ->
               IF failing # {} THEN Operand(results, Min(failing))
               ELSE IF op = "in_holiday_period" THEN Flag(Truthy(results[1]))
               ELSE Apply(op, results[1], results[2])
          [] op = "unlisted" -> Raised("TypeError")
          [] OTHER -> Raised("ValueError")

\* RuleEngine.evaluate
Evaluate(node, d) ==
    LET evaluate[n \in Tree] ==
            IF ~Is("op", n) THEN n
            ELSE IF n.op \in VarOp THEN Read(n, d)
            ELSE Combined(n.op, [i \in DOMAIN n.args |-> evaluate[n.args[i]]])
    IN  evaluate[node]

\* Mutant: nothing is caught.
IsSatisfiedByUncaught(node, d) ==
    LET result == Evaluate(node, d)
    IN  IF Is("raised", result) THEN "raised"
        ELSE IF Truthy(result) THEN "matched" ELSE "unmatched"

\* RuleCondition.is_satisfied_by: an unknown operator makes the rule not
\* match; any other exception goes on to the caller.
IsSatisfiedBy(node, d) ==
    LET result == Evaluate(node, d)
    IN  CASE result = Raised("ValueError") -> "unmatched"
          [] result \in {Raised("TypeError"), Raised("IndexError")} -> "raised"
          [] OTHER -> IF Truthy(result) THEN "matched" ELSE "unmatched"

\* sum() of a list of numbers
Total(s) ==
    LET sum[i \in 0..Len(s)] == IF i = 0 THEN 0 ELSE sum[i - 1] + s[i]
    IN  sum[Len(s)]

\* Mutant: every operator counts, a formula inside a comparison too.
CountOperators(node) ==
    LET count[n \in Tree] ==
            IF ~Is("op", n) \/ n.op \in VarOp \union {"malformed"} THEN 0
            ELSE (IF n.op \in Combinator THEN 0 ELSE 1)
                 + Total([i \in DOMAIN n.args |-> count[n.args[i]]])
    IN  count[node]

\* _count_leaves, the specificity of a condition
CountLeaves(node) ==
    LET count[n \in Tree] ==
            IF ~Is("op", n) \/ n.op = "malformed" THEN 0
            ELSE IF n.op \in Combinator
            THEN Total([i \in DOMAIN n.args |-> count[n.args[i]]])
            ELSE 1
    IN  count[node]

-----------------------------------------------------------------------------
(***************************************************************************)
(* The loaders.  A loader that raises stops the program at its start.      *)
(***************************************************************************)
Rejected == [rejected |-> TRUE]

\* sla_rule_pack_loader._OPERATOR_MAP and vast_rule_pack_loader._OPERATOR_MAP
SlaOperator  == [equals |-> "==", notEquals |-> "!=", in |-> "in",
                 greaterThan |-> ">", greaterThanOrEqual |-> ">=",
                 lessThan |-> "<", lessThanOrEqual |-> "<="]
VastOperator == [equals |-> "==", lte |-> "<=", gte |-> ">=", lt |-> "<", gt |-> ">",
                 in |-> "in", contains |-> "contains",
                 in_holiday_period |-> "in_holiday_period"]

\* _condition_node of the SLA pack
SlaNode(c) ==
    Node(SlaOperator[c.operator],
         <<Var(c.field),
           IF Is("times", c.value)
           THEN Node("* float", <<Var(c.value.field), c.value.times>>)
           ELSE c.value>>)

VastNode(c) == Node(VastOperator[c.operator], <<Var(c.field), c.value>>)

\* Mutant: the logical operator is not looked at.
JoinedByAnd(combinator, nodes) == IF Len(nodes) = 1 THEN nodes[1] ELSE Node("and", nodes)

\* A single condition is not wrapped.
Joined(combinator, nodes) == IF Len(nodes) = 1 THEN nodes[1] ELSE Node(combinator, nodes)

Unsupported(conditions, known) ==
    \E i \in DOMAIN conditions : conditions[i].operator \notin DOMAIN known

\* float() raises ValueError.
Unreadable(conditions) ==
    \E i \in DOMAIN conditions : /\ Is("times", conditions[i].value)
                               /\ Is("none", conditions[i].value.times)

\* logical_operator.upper() == "AND"
SaysAnd(s) == s \in {"AND", "ANd", "AnD", "And", "aND", "aNd", "anD", "and"}

\* _conditions_to_jsonlogic: whatever is not AND is an or.
SlaTree(r) ==
    IF Unsupported(r.conditions, SlaOperator) \/ Unreadable(r.conditions) THEN Rejected
    ELSE Joined(IF SaysAnd(r.logicalOperator) THEN "and" ELSE "or",
                [i \in DOMAIN r.conditions |-> SlaNode(r.conditions[i])])

\* _when_to_jsonlogic
VastTree(r) ==
    IF r.shape \notin {"all", "any"} \/ Unsupported(r.conditions, VastOperator) THEN Rejected
    ELSE Joined(IF r.shape = "all" THEN "and" ELSE "or",
                [i \in DOMAIN r.conditions |-> VastNode(r.conditions[i])])

\* Mutant: only the top of the tree is rewritten.
StrippedTop(node) ==
    IF ~Is("op", node) \/ node.op \in VarOp THEN node
    ELSE Node(node.op, [i \in DOMAIN node.args |->
           IF Is("op", node.args[i]) /\ node.args[i].op = "var"
              /\ Len(node.args[i].args) > 1 /\ Head(node.args[i].args) = "incident"
           THEN Var(Tail(node.args[i].args)) ELSE node.args[i]])

\* _strip_incident_prefix of the CSR-SLA, historical and network packs: it
\* rewrites a path that is text, not one in a list.
StrippedPath(path) ==
    IF Len(path) > 1 /\ path[1] = "incident" THEN Tail(path) ELSE path

Stripped(node) ==
    LET strip[n \in Tree] ==
            IF ~Is("op", n) \/ n.op = "listed" THEN n
            ELSE IF n.op = "var" THEN Var(StrippedPath(n.args))
            ELSE Node(n.op, [i \in DOMAIN n.args |-> strip[n.args[i]]])
    IN  strip[node]

-----------------------------------------------------------------------------
NoSource == [format |-> "none"]

Init == /\ source = NoSource
        /\ tree = Rejected
        /\ data = Nothing
        /\ verdict = "none"

\* A loader reads a rule of its pack; the other packs' rules are trees.
Load(format, rule, parsed) ==
    /\ source' = [format |-> format, body |-> rule]
    /\ tree' = parsed
    /\ UNCHANGED <<data, verdict>>

LoadSla == /\ source = NoSource
           /\ \E r \in SlaRule : Load("sla", r, SlaTree(r))

LoadVast == /\ source = NoSource
            /\ \E r \in VastRule : Load("vast", r, VastTree(r))

LoadPrefixed == /\ source = NoSource
                /\ \E t \in PackTree : Load("prefixed", t, Stripped(t))

LoadPlain == /\ source = NoSource
             /\ \E t \in PackTree : Load("plain", t, t)

\* The policy engine evaluates the rule on an incident's payload.
Match ==
    /\ tree # Rejected
    /\ verdict = "none"
    /\ \E d \in Payload : /\ data' = d
                          /\ verdict' = IsSatisfiedBy(tree, d)
    /\ UNCHANGED <<source, tree>>

Next == LoadSla \/ LoadVast \/ LoadPrefixed \/ LoadPlain \/ Match

Spec == Init /\ [][Next]_vars

-----------------------------------------------------------------------------
(***************************************************************************)
(* What the packs' own vocabulary means, without trees.                    *)
(***************************************************************************)
Greater(v, w) == Comparable(v, w) /\ Less(w, v)
Same(v, w)    == Comparable(v, w) /\ v = w

Relates(operator, v, w) ==
    CASE operator = "equals"    -> v = w
      [] operator = "notEquals" -> v # w
      [] operator = "in"        -> Member(v, w)
      [] operator = "contains"  -> Member(w, v)
      [] operator \in {"greaterThan", "gt"} -> Greater(v, w)
      [] operator \in {"lessThan", "lt"}    -> Greater(w, v)
      [] operator \in {"greaterThanOrEqual", "gte"} -> Greater(v, w) \/ Same(v, w)
      [] operator \in {"lessThanOrEqual", "lte"}    -> Greater(w, v) \/ Same(v, w)
      [] operator = "in_holiday_period" -> Truthy(v)

\* What a condition compares its field with
Compared(c, d) == IF Is("times", c.value)
                  THEN Product("* float", Lookup(c.value.field, d), c.value.times)
                  ELSE c.value

Missing(c, d) == \/ Is("none", Lookup(c.field, d))
                 \/ Is("times", c.value) /\ Is("none", Lookup(c.value.field, d))

\* "False or a missing referenced field both count as not-matched"
\* (decision-engine-design.md, 3b).
Holds(c, d) == /\ ~Missing(c, d)
               /\ Relates(c.operator, Lookup(c.field, d), Compared(c, d))

EveryOrSome(every, conditions, d) ==
    IF every THEN \A i \in DOMAIN conditions : Holds(conditions[i], d)
    ELSE \E i \in DOMAIN conditions : Holds(conditions[i], d)

\* The subtrees of a tree
Subtrees(node) ==
    LET below[n \in Tree] ==
            {n} \union IF ~Is("op", n) \/ n.op \in VarOp THEN {}
                       ELSE UNION {below[n.args[i]] : i \in DOMAIN n.args}
    IN  below[node]

Backwards(s) == [i \in DOMAIN s |-> s[Len(s) + 1 - i]]

\* A tree with the children of every and/or in the opposite order
Mirrored(node) ==
    LET mirror[n \in Tree] ==
            IF ~Is("op", n) \/ n.op \notin Combinator THEN n
            ELSE Node(n.op, Backwards([i \in DOMAIN n.args |-> mirror[n.args[i]]]))
    IN  mirror[node]

\* The comparisons that can be true of None: the evaluators of == and != do
\* not look for it.
TakesNone(c, d) == \/ c.operator = "notEquals"
                   \/ c.operator = "equals" /\ Is("none", Compared(c, d))

\* A variable that is the whole payload or the namespace itself, or whose path
\* is in a list
Unmoved(n) == /\ n \in Variable
              /\ \/ n.op = "var" /\ n.args \in {<<>>, <<"incident">>}
                 \/ /\ n.op = "listed" /\ n.args # <<>>
                    /\ n.args[1] = <<>> \/ n.args[1][1] = "incident"

\* A node whose evaluator looks for an operand it does not have
LacksOperand(n) ==
    /\ Is("op", n)
    /\ \/ n.op = "unlisted"
       \/ n.op = "listed" /\ n.args = <<>>
       \/ n.op \in Operator /\ Len(n.args) < Arity(n.op)

-----------------------------------------------------------------------------
\* The translations of _conditions_to_jsonlogic and _when_to_jsonlogic keep
\* the meaning of a pack's rule: a rule whose evaluation ends matches exactly
\* when every (or some) condition of its file holds of the payload, a missing
\* field satisfying none of them, for every operator, for lists of none, one
\* and several conditions, and for the formula "field * number".  (But !=, or
\* == with null, on a missing field is true in the code.)
TranslationKeepsMeaning ==
    verdict \in {"matched", "unmatched"} /\ source.format \in {"sla", "vast"} =>
        LET r == source.body
            every == IF source.format = "sla" THEN SaysAnd(r.logicalOperator)
                     ELSE r.shape = "all"
        IN  (\A i \in DOMAIN r.conditions :
               Missing(r.conditions[i], data) => ~TakesNone(r.conditions[i], data))
            => (verdict = "matched") = EveryOrSome(every, r.conditions, data)

\* _strip_incident_prefix moves a tree out of its "incident." namespace: the
\* stripped tree says of a payload what the file's tree says of the payload
\* with itself as the namespace "incident", whatever other namespaces both
\* read, unless it names the namespace as a whole or reads it by a path in a
\* list, which is not rewritten.
StrippingIsANamespace ==
    /\ verdict # "none" /\ source.format = "prefixed"
    /\ \A n \in Subtrees(source.body) : ~Unmoved(n)
    => LET f == data.map
           nested == Map([k \in DOMAIN f \union {"incident"} |->
                            IF k = "incident" THEN data ELSE f[k]])
       IN  verdict = IsSatisfiedBy(source.body, nested)

\* The tie-break on specificity (conflict_resolver.py) counts what the
\* author of a rule wrote: one for each condition of the file, whether the
\* loader wrapped it or not and whether its value is a formula or not, and
\* stripping a prefix does not change it.
SpecificityCountsConditions ==
    tree # Rejected =>
        CASE source.format \in {"sla", "vast"} ->
               CountLeaves(tree) = Len(source.body.conditions)
          [] OTHER -> CountLeaves(tree) = CountLeaves(source.body)

\* Evaluation raises out of is_satisfied_by only where an operator lacks an
\* operand, or from a formula over a value that is not a number: whatever
\* else a tree or a payload holds, a rule matches or does not.  (A rule of
\* the SLA and the vast pack has its operands.)
RaisesOnlyOnOperands ==
    verdict = "raised" =>
        \E n \in Subtrees(tree) :
            \/ LacksOperand(n) /\ source.format \notin {"sla", "vast"}
            \/ /\ Is("op", n) /\ n.op \in Formula /\ ~LacksOperand(n)
               /\ \E i \in 1..2 : LET v == Evaluate(n.args[i], data)
                                  IN  ~Is("num", v) /\ ~Is("none", v)

\* The order in which conditions are written matters only where one of them
\* cannot be evaluated: where none raises, the mirrored tree gives the same
\* verdict.
OrderIsIrrelevant ==
    /\ verdict # "none"
    /\ \A n \in Subtrees(tree) : ~Is("raised", Evaluate(n, data))
    => verdict = IsSatisfiedBy(Mirrored(tree), data)
=============================================================================
