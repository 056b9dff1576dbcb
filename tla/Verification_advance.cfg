CONSTANTS
    read = read
    write = write
    verify = verify
    session = session
    headless = headless
    fmt = fmt
    gen = gen
    test = test
    audit = audit
    c1 = c1
    c2 = c2
    Txns <- MCTxns
    Headless = {verify}
    Exclusive = {write}
    Runs = {session, headless}
    RunOf <- MCRunOf
    Gates <- MCGates
    Contracts <- MCContracts
    Workspaces <- MCWorkspaces
    Decision <- MCDecision
    Selected <- MCSelected
    Leaves <- MCLeaves
    Accepts <- MCAccepts
    NoSubject = NoSubject
    MaxPasses = 3
    MaxDisturbances = 1
SPECIFICATION Spec
INVARIANTS
    ReceiptIsEarned
    ReleasedIsFresh
    CompletedIsProven
    ConvergesIfIndependent
PROPERTY
    ImplementsRelease
CHECK_DEADLOCK FALSE
