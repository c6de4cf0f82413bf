SPECIFICATION McSpec
CONSTANTS
    SlaRule <- McSlaRule
    VastRule <- McVastRule
    PackTree <- McTree
    Value <- McValue
    Name <- McName
    OtherOp = {"unknown"}
    MaxHeight = 4
    Payload <- McPayload
    Copies <- McCopies
    Part <- McPart
    Before <- McBefore
    Client = {c1}
    Limit = 2
    Window = 3
    Second = 2
    MaxTime = 14
    MaxRequests = 6
INVARIANTS
    StrippingIsANamespace
    SpecificityCountsConditions
    RaisesOnlyOnOperands
    OrderIsIrrelevant
    TranslationKeepsMeaning
    AtMostTwiceTheLimit
    PatienceIsRewarded
CHECK_DEADLOCK FALSE
