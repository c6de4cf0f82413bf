---------------------------- MODULE MCConditions ----------------------------
(***************************************************************************)
(* Conditions and the rate limiter, on small inputs.  They share no state, *)
(* so a behavior is one of the one or one of the other.                    *)
(***************************************************************************)
EXTENDS Conditions, RateLimit

Tier  == <<"tier">>
Used  == <<"context", "used">>

McConstant == {Number(1), Text("gold"), List(<<Text("gold"), Number(1)>>)}

McCondition(operators, values) ==
    [field : {Tier, Used}, operator : operators, value : values]

McRuleLists(operators, values) ==
    LET one == McCondition(operators, values)
    IN  {<<>>} \union {<<c>> : c \in one} \union
        {<<c, d>> : c \in {x \in one : x.field = Tier}, d \in {x \in one : x.field = Used}}

McSlaRule ==
    [conditions : McRuleLists(DOMAIN SlaOperator \union {"matches"},
                              {Number(1), Text("gold"), [field |-> Tier, times |-> Number(2)],
                               [field |-> Tier, times |-> Nothing]}),
     logicalOperator : {"AND", "and", "OR"}]

McVastRule ==
    [shape : {"all", "any", "none"},
     conditions : McRuleLists(DOMAIN VastOperator \union {"notEquals"}, McConstant)]

\* Trees of depth three over both namespaces
McVar  == {Var(<<"incident", "tier">>), Var(Tier), Var(<<"incident", "context", "used">>),
           Var(<<"incident", "incident", "tier">>)}
\* Nodes a schema would refuse: without their operands, or with a path in a list
McOdd  == {Node("unlisted", <<>>), Node("in_holiday_period", <<>>), Node("listed", <<>>),
           Node("==", <<Var(<<"incident", "tier">>)>>),
           Node("==", <<Node("listed", <<Tier>>), Number(1)>>),
           Node("!=", <<Node("listed", <<<<"incident", "tier">>>>), Number(1)>>)}
McLeaf == {Node(op, <<v, w>>) : op \in {"==", "!=", ">=", "unknown"}, v \in McVar,
                                w \in {Number(1), Nothing}}
          \union {Node("malformed", <<>>), Node("in_holiday_period", <<Var(Used)>>),
                  Node(">", <<Var(Tier), Node("*", <<Var(Used), Number(2)>>)>>)}
          \union McOdd
McTree == McLeaf \union {Number(1), Var(<<>>), Node("and", <<>>),
                        Node("==", <<Var(<<"incident">>), Nothing>>)}
          \union {Node(op, <<m, n>>) : op \in {"and", "or"}, m \in McLeaf, n \in McLeaf}
          \union {Node("or", <<Node("and", <<m>>), n>>) : m \in McLeaf, n \in McLeaf}

McField == {Nothing, Number(0), Number(1), Number(2), Text("gold"), Text("golden"),
            List(<<Text("gold")>>)}
McUsed  == {Nothing, Number(1), Text("golden"), List(<<Text("gold")>>)}

\* A field is absent, or has a value; the context is a map or absent.
McPayload ==
    {Map([k \in {"tier"} \ {x \in {"tier"} : Is("none", v)} |-> v]) : v \in McField}
    \union {Map([tier |-> v, context |-> Map([used |-> w])]) : v \in McField, w \in McUsed}
    \union {Map([tier |-> Number(1), incident |-> Map([tier |-> Number(2)])])}

\* Everything that occurs in them
McValue == UNION {{v, Map([used |-> v]), Map([tier |-> v])} : v \in McField \union McConstant}
           \union McPayload

McName == {"tier", "context", "used", "incident"}

McPart   == {<<"gold", "golden">>}
McBefore == {<<"gold", "golden">>, <<"gold", "goldengolden">>, <<"golden", "goldengolden">>}

\* Nothing here repeats a text more than twice.
McCopies(s, n) == CASE n <= 0 -> "" [] n = 1 -> s [] n = 2 -> s \o s

Alone == now = 0 /\ sent = [c \in Client |-> 0]

McInit == Init /\ LimiterInit

McNext == \/ Alone /\ Next /\ UNCHANGED limiterVars
          \/ source = NoSource /\ LimiterNext /\ UNCHANGED vars

McSpec == McInit /\ [][McNext]_<<vars, limiterVars>>
=============================================================================
