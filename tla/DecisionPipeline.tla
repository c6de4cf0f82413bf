-------------------------- MODULE DecisionPipeline --------------------------
(***************************************************************************)
(* One evaluation of an incident: PipelineOrchestrator.run on the active   *)
(* rule pack.  Every service of the pipeline is one action; what it        *)
(* computes is an operator over the rules that matched, in the order in    *)
(* which the pack lists them.                                              *)
(*                                                                         *)
(* A condition tree is abstracted to whether the incident satisfies it and *)
(* to its number of leaves.  A severity band is 1..4 for Low to Critical,  *)
(* and Unknown for any other string.  Rule codes are numbers, in the       *)
(* order of the strings.                                                   *)
(***************************************************************************)
EXTENDS Integers, Sequences, FiniteSets, FiniteSetsExt

CONSTANTS
    RuleCode,    \* rule codes, a set of numbers
    Packs,       \* rule packs: functions from RuleCode to Rule
    Incidents,   \* incidents: what each rule makes of it, and a customer tier
    Flags,       \* the boolean action fields
    Teams,       \* values of the free-form field routeToTeam
    Groups,      \* conflict groups
    Tiers,       \* customer tiers
    SlaMatrix,   \* SlaMatrix[t][b]: response minutes, a partial table
    Absent       \* a key that is not in the dict, or None

VARIABLES
    pack,        \* the active pack
    incident,    \* the incident
    stage,       \* the service that runs next
    order,       \* the codes of active_rules(), in order
    actions,     \* the merged actions
    suppressed,  \* the suppressed rules: pairs of a code and a field
    risk,        \* the risk score
    plan         \* the execution plan: a sequence of action types

vars == <<pack, incident, stage, order, actions, suppressed, risk, plan>>
-----------------------------------------------------------------------------
Unknown == 0
Band == 1..4

Field == {"priority", "targetSLA", "routeToTeam"} \cup Flags

\* "n minutes" or "n hours", or a text that does not begin with a number
Duration == [n: Nat, unit: {"minutes", "hours", "unreadable"}]

Readable(d) == d.unit # "unreadable"

\* _parse_duration_minutes of one that can be read
Minutes(d) == IF d.unit = "hours" THEN 60 * d.n ELSE d.n

Value(f) == CASE f = "priority"    -> Band \cup {Unknown}
              [] f = "targetSLA"   -> Duration
              [] f = "routeToTeam" -> Teams
              [] OTHER             -> BOOLEAN

IsActions(a) == \A f \in Field : a[f] \in Value(f) \cup {Absent}

NoActions == [f \in Field |-> Absent]

\* The outcome of one rule's exceptions and conditions on an incident.
Outcome == [vetoed: BOOLEAN, met: BOOLEAN]

\* The retry hint of a rule: two action types.
Sequencing == [tryFirst: STRING, fallbackTo: STRING]

IsRule(r) ==
    /\ r.compliance \in BOOLEAN    \* family = "COMPLIANCE"
    /\ r.familyOrder \in Nat /\ r.weight \in Int /\ r.leaves \in Nat
    /\ r.group \in Groups \cup {Absent}
    /\ r.suppressor \in BOOLEAN /\ r.nonSuppressible \in BOOLEAN
    /\ r.active \in BOOLEAN
    /\ IsActions(r.actions)
    /\ r.floor \in Band \cup {Unknown, Absent} /\ r.bump \in BOOLEAN
    /\ r.score \in Int             \* contribution_score, 0 for None
    /\ r.sequencing \in Sequencing \cup {Absent}

ASSUME PipelineConstants ==
    /\ RuleCode \subseteq Nat /\ IsFiniteSet(RuleCode)
    /\ \A p \in Packs : DOMAIN p = RuleCode /\ \A c \in RuleCode : IsRule(p[c])
    /\ \A i \in Incidents : /\ i.outcome \in [RuleCode -> Outcome]
                            /\ i.tier \in Tiers \cup {Absent}
    /\ SlaMatrix \in [Tiers -> [Band -> Nat \cup {Absent}]]
    /\ Flags \cap {"priority", "targetSLA", "routeToTeam"} = {}
    /\ Absent \notin Groups /\ \A f \in Field : Absent \notin Value(f)
-----------------------------------------------------------------------------
(***************************************************************************)
(* Python's max(s, key=...): the first of the largest elements.            *)
(***************************************************************************)
FirstBest(s, Key(_)) ==
    s[CHOOSE i \in 1..Len(s) :
        /\ \A j \in 1..Len(s) : Key(s[j]) <= Key(s[i])
        /\ \A j \in 1..(i - 1) : Key(s[j]) < Key(s[i])]

Elements(s) == {s[i] : i \in 1..Len(s)}

\* [c for c in s if c in cs]
Among(s, cs) ==
    LET kept[i \in 0..Len(s)] == IF i = 0 THEN <<>>
                                 ELSE IF s[i] \in cs THEN Append(kept[i - 1], s[i])
                                 ELSE kept[i - 1]
    IN kept[Len(s)]

Weight(c) == pack[c].weight
Does(c, f) == pack[c].actions[f]

(***************************************************************************)
(* RulePack.active_rules and PolicyEngine.                                 *)
(***************************************************************************)
ActiveCodes == {c \in RuleCode : pack[c].active}

\* sorted() by family order and then descending weight
Before(c, d) == \/ pack[c].familyOrder < pack[d].familyOrder
                \/ /\ pack[c].familyOrder = pack[d].familyOrder
                   /\ Weight(c) >= Weight(d)

\* No query orders the rules of a pack and the sort is stable, so rules with
\* the same key come in any order.
Orders ==
    {s \in [1..Cardinality(ActiveCodes) -> ActiveCodes] :
        /\ Elements(s) = ActiveCodes
        /\ \A i, j \in DOMAIN s : i < j => Before(s[i], s[j])}

\* The rules of PolicyEngine.evaluate that match, in the order s.
Matched(s) == Among(s, {c \in RuleCode : /\ ~pack[c].compliance
                                        /\ ~incident.outcome[c].vetoed
                                        /\ incident.outcome[c].met})

(***************************************************************************)
(* ConflictResolver.                                                       *)
(***************************************************************************)
Writers(f, s) == Among(Matched(s), {c \in RuleCode : Does(c, f) # Absent})

Suppressors(w) == Among(w, {c \in RuleCode : pack[c].suppressor})

\* Some suppressor writes the field and nobody there is immune to it.
Silenced(w) == /\ Suppressors(w) # <<>>
               /\ \A c \in Elements(w) : ~pack[c].nonSuppressible

\* Mutant: non_suppressible is not asked.
Overruled(f, s) ==
    LET w == Writers(f, s)
    IN IF Suppressors(w) = <<>> THEN w ELSE <<FirstBest(Suppressors(w), Weight)>>

\* _apply_suppression
Effective(f, s) ==
    LET w == Writers(f, s)
    IN IF Silenced(w) THEN <<FirstBest(Suppressors(w), Weight)>>
       ELSE IF Suppressors(w) = <<>> THEN w
       ELSE Among(w, {c \in RuleCode : ~pack[c].suppressor})

Agree(f, e) == \A c, d \in Elements(e) : Does(c, f) = Does(d, f)

OneGroup(e) == \E g \in Groups : \A c \in Elements(e) : pack[c].group = g

\* _resolve_conflict_group: weight, then specificity, then rule code.
GroupWinner(e) ==
    LET heavy == {c \in Elements(e) : \A d \in Elements(e) : Weight(d) <= Weight(c)}
        narrow == {c \in heavy : \A d \in heavy : pack[d].leaves <= pack[c].leaves}
    IN Min(narrow)

\* _merge_field
MergedField(f, e) ==
    CASE f = "priority"  -> Max({Does(c, f) : c \in Elements(e)})
      [] f = "targetSLA" -> Does(FirstBest(e, LAMBDA c : -Minutes(Does(c, f))), f)
      [] f \in Flags     -> \E c \in Elements(e) : Does(c, f)
      [] OTHER           -> Does(FirstBest(e, Weight), f)

FieldValue(f, s) ==
    LET e == Effective(f, s)
    IN IF e = <<>> THEN Absent
       ELSE IF Agree(f, e) THEN Does(e[1], f)
       ELSE IF OneGroup(e) THEN Does(GroupWinner(e), f)
       ELSE MergedField(f, e)

\* Mutant: the winner is listed with the losers.
AllWriters(f, s) == IF Silenced(Writers(f, s)) THEN Elements(Writers(f, s)) ELSE {}

\* The entries of suppressed_rules for a field, by code.
Losers(f, s) ==
    LET w == Writers(f, s)
        e == Effective(f, s)
    IN (Elements(w) \ Elements(e))
         \cup IF e # <<>> /\ ~Agree(f, e) /\ OneGroup(e)
              THEN Elements(e) \ {GroupWinner(e)} ELSE {}

SuppressedRules(s) == {e \in RuleCode \X Field : e[1] \in Losers(e[2], s)}

Floors(s) == {pack[c].floor : c \in Elements(Matched(s))} \ {Absent}

Bumps(s) == Cardinality({c \in Elements(Matched(s)) : pack[c].bump})

\* _apply_priority_postprocessing on the merged priority, Low when there is
\* none but a floor.
Current(s) == IF FieldValue("priority", s) = Absent /\ Floors(s) # {}
              THEN 1 ELSE FieldValue("priority", s)

\* max() of no known floor, or index() of an unknown priority.
OutOfBand(s) == \/ Floors(s) # {} /\ Floors(s) \cap Band = {}
                \/ Current(s) = Unknown /\ (Floors(s) # {} \/ Bumps(s) > 0)

\* min() by the minutes of targets one of which has none: only where the
\* targets differ and no conflict group decides between their rules.
CannotMerge(s) ==
    LET e == Effective("targetSLA", s)
    IN /\ ~Agree("targetSLA", e) /\ ~OneGroup(e)
       /\ \E c \in Elements(e) : ~Readable(Does(c, "targetSLA"))

\* Mutant: targets are parsed before they are compared.
RaisesUncontested(s) ==
    \/ Current(s) # Absent /\ OutOfBand(s)
    \/ \E c \in Elements(Effective("targetSLA", s)) : ~Readable(Does(c, "targetSLA"))

Raises(s) == (Current(s) # Absent /\ OutOfBand(s)) \/ CannotMerge(s)

FinalPriority(s) ==
    IF Current(s) \notin Band THEN Current(s)
    ELSE LET floored == Max({Current(s)} \cup (Floors(s) \cap Band))
         IN Min({floored + Bumps(s), 4})

Resolved(s) == [f \in Field |-> IF f = "priority" THEN FinalPriority(s)
                                                  ELSE FieldValue(f, s)]

(***************************************************************************)
(* The services after it.                                                  *)
(***************************************************************************)
\* ComplianceApplier: the exceptions of a rule are not asked, and of two rules
\* that write a field the later one counts.
Compliance(s) == Among(s, {c \in RuleCode : /\ pack[c].compliance
                                           /\ incident.outcome[c].met})

Constrained(a, s) ==
    [f \in Field |->
        LET w == Among(Compliance(s), {c \in RuleCode : Does(c, f) # Absent})
        IN IF w = <<>> THEN a[f] ELSE Does(w[Len(w)], f)]

\* SlaMatrixLookup, only where no rule set a target.
WithTarget(a) ==
    IF \/ a["targetSLA"] # Absent \/ incident.tier = Absent
       \/ a["priority"] \notin Band
       \/ SlaMatrix[incident.tier][a["priority"]] = Absent
    THEN a
    ELSE [a EXCEPT !["targetSLA"] =
            [n |-> SlaMatrix[incident.tier][a["priority"]], unit |-> "minutes"]]

\* Mutant: break instead of continue.
RiskToFirst(s, sup) ==
    LET m == Matched(s)
        counted == {i \in 1..Len(m) :
                      \A j \in 1..i, f \in Field : <<m[j], f>> \notin sup}
        total == MapThenSumSet(LAMBDA i : pack[m[i]].score, counted)
    IN Max({0, Min({total, 120})})

TotalScore(cs) == MapThenSumSet(LAMBDA c : pack[c].score, cs)

\* RiskScorer: a rule suppressed on any field adds nothing.
RiskScore(s, sup) ==
    LET counted == {c \in Elements(Matched(s)) :
                      \A f \in Field : <<c, f>> \notin sup}
    IN Max({0, Min({TotalScore(counted), 120})})

BasePrecedence == <<"autoRemediate", "rerouteTraffic", "dispatchEngineer",
                    "customerNotification", "notifyNOC">>

\* ExecutionPlanBuilder: the sequenced steps, then the other actions.
Sequenced(s) == Among(Matched(s), {c \in RuleCode : pack[c].sequencing # Absent})

Hint(s, i) == pack[Sequenced(s)[(i + 1) \div 2]].sequencing

HintSteps(s) == [i \in 1..(2 * Len(Sequenced(s))) |->
                    IF i % 2 = 1 THEN Hint(s, i).tryFirst ELSE Hint(s, i).fallbackTo]

\* Mutant: inserted_types is not asked.
PlanTwice(a, s) ==
    HintSteps(s) \o Among(BasePrecedence, {f \in Flags : a[f] = TRUE})

ExecutionPlan(a, s) ==
    HintSteps(s) \o Among(BasePrecedence,
                          {f \in Flags : a[f] = TRUE} \ Elements(HintSteps(s)))
-----------------------------------------------------------------------------
Init ==
    /\ pack \in Packs
    /\ incident \in Incidents
    /\ stage = "evaluate"
    /\ order = <<>>
    /\ actions = NoActions
    /\ suppressed = {}
    /\ risk = 0
    /\ plan = <<>>

Advance(from, to) == stage = from /\ stage' = to /\ UNCHANGED <<pack, incident>>

\* get_active() and policy_engine.evaluate
Evaluate ==
    /\ Advance("evaluate", "resolve")
    /\ order' \in Orders
    /\ UNCHANGED <<actions, suppressed, risk, plan>>

\* conflict_resolver.resolve
Resolve ==
    /\ ~Raises(order)
    /\ Advance("resolve", "comply")
    /\ actions' = Resolved(order)
    /\ suppressed' = SuppressedRules(order)
    /\ UNCHANGED <<order, risk, plan>>

\* It raises: the evaluation is answered with an error and nothing is stored.
ResolveFails ==
    /\ Raises(order)
    /\ Advance("resolve", "failed")
    /\ UNCHANGED <<order, actions, suppressed, risk, plan>>

\* compliance_applier.apply
Comply ==
    /\ Advance("comply", "target")
    /\ actions' = Constrained(actions, order)
    /\ UNCHANGED <<order, suppressed, risk, plan>>

\* sla_matrix_lookup.resolve
FillTarget ==
    /\ Advance("target", "score")
    /\ actions' = WithTarget(actions)
    /\ UNCHANGED <<order, suppressed, risk, plan>>

\* risk_scorer.score
Score ==
    /\ Advance("score", "plan")
    /\ risk' = RiskScore(order, suppressed)
    /\ UNCHANGED <<order, actions, suppressed, plan>>

\* execution_plan_builder.build, and the Decision
BuildPlan ==
    /\ Advance("plan", "decided")
    /\ plan' = ExecutionPlan(actions, order)
    /\ UNCHANGED <<order, actions, suppressed, risk>>

Next == \/ Evaluate \/ Resolve \/ ResolveFails \/ Comply \/ FillTarget
        \/ Score \/ BuildPlan

Spec == Init /\ [][Next]_vars
-----------------------------------------------------------------------------
(***************************************************************************)
(* What the rules of a pack decide, said without an order: section 3b of   *)
(* docs/decision-engine-design.md, over the set of rules that match.  Where *)
(* it leaves a choice there is a set of values.                            *)
(***************************************************************************)
MatchedSet == {c \in ActiveCodes : ~pack[c].compliance /\ incident.outcome[c].met
                                   /\ ~incident.outcome[c].vetoed}

WriterSet(f) == {c \in MatchedSet : Does(c, f) # Absent}

Immune(f) == \E c \in WriterSet(f) : pack[c].nonSuppressible

SuppressorSet(f) == {c \in WriterSet(f) : pack[c].suppressor}

Survivors(f) == IF Immune(f) THEN WriterSet(f) \ SuppressorSet(f) ELSE WriterSet(f)

\* Steps 4(a), (b) and (d).  No rule has a lastReviewedAt for step (c).
Outranks(c, d) ==
    \/ Weight(c) > Weight(d)
    \/ Weight(c) = Weight(d) /\ pack[c].leaves > pack[d].leaves
    \/ Weight(c) = Weight(d) /\ pack[c].leaves = pack[d].leaves /\ c < d

Heaviest(cs) == {c \in cs : \A d \in cs : Weight(c) >= Weight(d)}

MayDecide(f, v) ==
    IF SuppressorSet(f) # {} /\ ~Immune(f)
    THEN \E c \in Heaviest(SuppressorSet(f)) : Does(c, f) = v
    ELSE IF \E g \in Groups : \A c \in Survivors(f) : pack[c].group = g
    THEN \E c \in Survivors(f) : /\ Does(c, f) = v
                                 /\ \A d \in Survivors(f) \ {c} :
                                      Outranks(c, d) \/ Agree(f, <<c, d>>)
    ELSE CASE f \in Flags -> v = \E c \in Survivors(f) : Does(c, f)
           [] f = "routeToTeam" ->
                \E c \in Heaviest(Survivors(f)) : Does(c, f) = v
           [] f = "priority" ->
                /\ \E c \in Survivors(f) : Does(c, f) = v
                /\ \A c \in Survivors(f) : Does(c, f) <= v
           [] f = "targetSLA" ->
                /\ \E c \in Survivors(f) : Does(c, f) = v
                /\ \A c \in Survivors(f) : Minutes(Does(c, f)) >= Minutes(v)

\* A field nobody is left to write is not decided.
Decides(f, v) == IF Survivors(f) = {} THEN v = Absent ELSE MayDecide(f, v)

FloorSet == {pack[c].floor : c \in MatchedSet} \cap Band

\* Priority: raised to the floors, then one band for each bump.
RaisedFrom(v, w) ==
    LET start == IF v = Absent /\ FloorSet # {} THEN 1 ELSE v
        bumps == {c \in MatchedSet : pack[c].bump}
    IN IF start \notin Band THEN w = start
       ELSE /\ w \in Band
            /\ \A x \in FloorSet \cup {start} : w >= x
            /\ \/ w = 4
               \/ \E x \in FloorSet \cup {start} : w = x + Cardinality(bumps)
-----------------------------------------------------------------------------
(***************************************************************************)
(* Properties.                                                             *)
(***************************************************************************)
\* Every variable has its type.
TypeOK ==
    /\ DOMAIN pack = RuleCode /\ \A c \in RuleCode : IsRule(pack[c])
    /\ incident.outcome \in [RuleCode -> Outcome]
    /\ stage \in {"evaluate", "resolve", "comply", "target", "score", "plan",
                  "decided", "failed"}
    /\ order \in Seq(RuleCode)
    /\ IsActions(actions)
    /\ suppressed \subseteq RuleCode \X Field
    /\ risk \in 0..120
    /\ plan \in Seq(STRING)

\* ConflictResolver.resolve, which walks lists, computes what section 3b says
\* of the set of matched rules: suppressors, immunity, conflict groups, merge,
\* floors and bumps.
ResolvedAsDesigned ==
    stage = "comply" =>
        /\ \A f \in Field \ {"priority"} : Decides(f, actions[f])
        /\ \E v \in Value("priority") \cup {Absent} :
             Decides("priority", v) /\ RaisedFrom(v, actions["priority"])

\* The trace can be believed: a rule listed as suppressed wrote the field, and
\* a decided value is that of a rule which is not listed for that field.
TraceExplains ==
    stage = "comply" =>
        /\ \A e \in suppressed : e[1] \in WriterSet(e[2])
        /\ \A f \in Field \ {"priority"} : actions[f] # Absent =>
             \E c \in WriterSet(f) : /\ Does(c, f) = actions[f]
                                     /\ <<c, f>> \notin suppressed

\* The rules whose relative order nothing determines.
Unordered(c, d) == /\ c # d
                   /\ pack[c].familyOrder = pack[d].familyOrder
                   /\ Weight(c) = Weight(d)

\* Two such rules of one kind write one field: two suppressors, or two
\* compliance rules.
Tied == \E c, d \in ActiveCodes, f \in Field :
    /\ Unordered(c, d)
    /\ Does(c, f) # Absent /\ Does(d, f) # Absent
    /\ \/ pack[c].suppressor /\ pack[d].suppressor
       \/ pack[c].compliance /\ pack[d].compliance

\* What run() decides with the rules in the order s, where nobody reads the
\* free-form texts.
Decision(s) ==
    LET a == Constrained(Resolved(s), s)
    IN [priority |-> a["priority"], flags |-> [f \in Flags |-> a[f]],
        risk |-> RiskScore(s, SuppressedRules(s))]

\* "The same decision every time the same rule set version is active"
\* (decision-engine-design.md:59), although no query orders the rules: the
\* priority, the actions and the risk that were decided are those of every
\* other order, as long as no two suppressors or compliance rules are tied.
Reproducible ==
    stage = "decided" /\ ~Tied => \A s \in Orders :
        Decision(s) = [priority |-> actions["priority"],
                       flags |-> [f \in Flags |-> actions[f]], risk |-> risk]

\* An evaluation fails over a band outside the four, or over a target that
\* cannot be read where the design leaves it to be compared: rules that
\* survive suppression set other targets and no conflict group has them all.
\* A rule's unreadable target alone, or one that all agree on, fails nothing.
FailsOnlyOnUnreadable ==
    stage = "failed" =>
        \/ \E c \in MatchedSet : pack[c].floor = Unknown \/ Does(c, "priority") = Unknown
        \/ LET writers == Survivors("targetSLA")
           IN /\ \E c, d \in writers : /\ ~Readable(Does(c, "targetSLA"))
                                       /\ Does(d, "targetSLA") # Does(c, "targetSLA")
              /\ ~\E g \in Groups : \A c \in writers : pack[c].group = g

\* The plan has every action that was decided, and an action a rule sequences
\* behind another is not also fired on its own: the base steps come last, once
\* each, and none of them repeats a sequenced step.
PlanCarriesDecision ==
    stage = "decided" =>
        /\ \A f \in Flags \cap Elements(BasePrecedence) :
             actions[f] = TRUE => f \in Elements(plan)
        /\ \A i, j \in 1..Len(plan) : i < j /\ plan[i] = plan[j] =>
             j <= 2 * Cardinality({c \in MatchedSet : pack[c].sequencing # Absent})
=============================================================================
