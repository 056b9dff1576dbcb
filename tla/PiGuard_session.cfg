CONSTANTS
    r1 = r1
    n1 = n1
    m1 = m1
    m2 = m2
    Calls <- MCCalls
    Ids <- MCIds
    IdOf <- MCIdOf
    Kind <- MCKind
    Targeted = {}
    NoCall = NoCall
    NoSubject = NoSubject
    Policies <- MCPolicies
    HasUI = TRUE
    MaxVersion = 1
    MaxTroubles = 1
SPECIFICATION Spec
INVARIANTS
    EvidenceIsFresh
    ExclusiveRunsAlone
    OneReleasePerCall
    AskedIsConsented
    LeasesReturn
    CompletedIsSettled
PROPERTY
    PoisonUntilClosed
CHECK_DEADLOCK FALSE
