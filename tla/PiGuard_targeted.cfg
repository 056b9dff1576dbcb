CONSTANTS
    r1 = r1
    n1 = n1
    m1 = m1
    m2 = m2
    Calls <- PairCalls
    Ids <- PairCalls
    IdOf <- PairIdOf
    Kind <- PairKind
    Targeted = {m1}
    NoCall = NoCall
    NoSubject = NoSubject
    Policies <- MCPolicies
    HasUI = TRUE
    MaxVersion = 2
    MaxTroubles = 0
SPECIFICATION Spec
INVARIANT ConsentIsRecorded
CHECK_DEADLOCK FALSE
