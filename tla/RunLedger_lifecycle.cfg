CONSTANTS
    Procs = {p1, p2}
    NoProc = NoProc
    Keys <- MCKeys
    NoKey = NoKey
    Payloads <- MCPayloads
    Artifacts <- MCArtifacts
    GateFile <- MCGateFile
    Commands <- LifecycleCommands
    LegacyStatuses = {}
    OrdinaryLimit = 3
    FileLimit = 5
SPECIFICATION FairSpec
INVARIANTS
    TypeOK
    DecidesOnWholeJournal
    AckedIsCommitted
    TerminalIsLast
    RunJsonNeverAhead
    ReserveSuffices
PROPERTY
    ReadersNeverGoBack
    ImplementsLog
    EveryCommandEnds
CHECK_DEADLOCK FALSE
