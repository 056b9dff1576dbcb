CONSTANTS
    Procs = {p1, p2}
    NoProc = NoProc
    Keys <- MCKeys
    NoKey = NoKey
    Payloads <- MCPayloads
    Artifacts <- MCArtifacts
    GateFile <- MCGateFile
    Commands <- LegacyCommands
    LegacyStatuses = {"running"}
    OrdinaryLimit = 1
    FileLimit = 3
SPECIFICATION Spec
INVARIANT FullJournalIsReadable
CHECK_DEADLOCK FALSE
