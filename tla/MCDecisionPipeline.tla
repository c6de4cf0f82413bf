------------------------ MODULE MCDecisionPipeline ------------------------
(***************************************************************************)
(* Instances of DecisionPipeline for TLC.                                  *)
(***************************************************************************)
EXTENDS DecisionPipeline, TLC

CONSTANTS noc, soc, g1, gold

Acts(p, d, sla, team) ==
    ("priority" :> p) @@ ("dispatchEngineer" :> d) @@ ("targetSLA" :> sla)
      @@ ("routeToTeam" :> team)

Plain(w, a) ==
    [compliance |-> FALSE, familyOrder |-> 1, weight |-> w, leaves |-> 1,
     group |-> Absent, suppressor |-> FALSE, nonSuppressible |-> FALSE,
     active |-> TRUE, actions |-> a, floor |-> Absent, bump |-> FALSE,
     score |-> 70, sequencing |-> Absent]

RestartFirst == [tryFirst |-> "remoteRestart", fallbackTo |-> "dispatchEngineer"]

Kinds(r) ==
    {r,
     [r EXCEPT !.group = g1], [r EXCEPT !.group = g1, !.leaves = 2],
     [r EXCEPT !.suppressor = TRUE, !.score = -20],
     [r EXCEPT !.suppressor = TRUE, !.familyOrder = 2, !.sequencing = RestartFirst],
     [r EXCEPT !.nonSuppressible = TRUE],
     [r EXCEPT !.suppressor = TRUE, !.nonSuppressible = TRUE],
     [r EXCEPT !.compliance = TRUE]}

\* Rules that only modify a priority, or write one outside the four bands, or
\* a target that cannot be read.
Modifiers(w) ==
    {[Plain(w, NoActions) EXCEPT !.floor = 3],
     [Plain(w, NoActions) EXCEPT !.floor = Unknown],
     [Plain(w, NoActions) EXCEPT !.bump = TRUE],
     Plain(w, [NoActions EXCEPT !["priority"] = Unknown]),
     Plain(w, [NoActions EXCEPT !["targetSLA"] = [n |-> 0, unit |-> "unreadable"]]),
     [Plain(w, NoActions) EXCEPT !.active = FALSE]}

Dispatching == Acts(2, TRUE, [n |-> 60, unit |-> "minutes"], noc)
Calming == Acts(4, FALSE, [n |-> 1, unit |-> "hours"], soc)

\* Two rules that contradict each other in every field, one hour and sixty
\* minutes included, of equal or different weight, and a third.
SmallPacks == {(1 :> r) @@ (2 :> s) @@ (3 :> t) :
    r \in Modifiers(1) \cup Kinds(Plain(1, Calming)) \cup Kinds(Plain(1, Dispatching)),
    s \in Modifiers(1) \cup Kinds(Plain(1, Dispatching)) \cup Kinds(Plain(2, Dispatching)),
    t \in Modifiers(1) \cup Kinds(Plain(1, Calming))}

Met == [vetoed |-> FALSE, met |-> TRUE]
AllMet == [c \in RuleCode |-> Met]

SmallIncidents ==
    {[outcome |-> AllMet, tier |-> gold],
     [outcome |-> [AllMet EXCEPT ![2].met = FALSE, ![3].vetoed = TRUE],
      tier |-> Absent]}

GoldMatrix == gold :> [b \in Band |-> IF b = 1 THEN Absent ELSE 15 * (5 - b)]
=============================================================================
