---------------------------- MODULE MCIncidents ----------------------------
(***************************************************************************)
(* Instances of Incidents for TLC.                                         *)
(***************************************************************************)
EXTENDS Incidents

CONSTANTS i1, i2, good, bad

Alike == Permutations(Handler) \cup Permutations(Pack)

It(i, payload, given) == [id |-> i, payload |-> payload, given |-> given]

\* Two clients that agree on an id, one that supplies the context itself, and
\* a payload whose evaluation raises.
SmallItems == {It(i1, good, {}), It(i1, bad, {}), It(i2, good, Provider)}

Req(op, keep, items) == [op |-> op, keep |-> keep, items |-> items]

\* Single items, bulks one item of which fails, creations and evaluations that
\* are not to be kept, and a bulk over the limit.
SmallRequests ==
    LET one == It(i1, good, {})  ill == It(i1, bad, {})  other == It(i2, good, Provider)
    IN {Req("create", TRUE, <<one>>), Req("create", TRUE, <<ill>>),
        Req("bulkCreate", TRUE, <<ill, other>>), Req("bulkCreate", FALSE, <<other, one>>),
        Req("evaluate", TRUE, <<one>>), Req("bulkEvaluate", TRUE, <<ill, other>>),
        Req("bulkEvaluate", FALSE, <<one>>), Req("bulkEvaluate", TRUE, <<one, other, one>>)}
=============================================================================
