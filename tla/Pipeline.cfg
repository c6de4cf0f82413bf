\* Three rules of every kind, the third of which may not match.
SPECIFICATION Spec
CONSTANTS
    noc = noc
    soc = soc
    g1 = g1
    gold = gold
    RuleCode = {1, 2, 3}
    Packs <- SmallPacks
    Incidents <- SmallIncidents
    Flags = {"dispatchEngineer"}
    Teams = {noc, soc}
    Groups = {g1}
    Tiers = {gold}
    SlaMatrix <- GoldMatrix
    Absent = Absent
INVARIANTS ResolvedAsDesigned TraceExplains Reproducible FailsOnlyOnUnreadable PlanCarriesDecision
CHECK_DEADLOCK FALSE
