CONSTANTS
    Procs = {p1, p2}
    NoProc = NoProc
    Keys <- MCKeys
    NoKey = NoKey
    Payloads <- MCPayloads
    Artifacts <- MCArtifacts
    GateFile <- MCGateFile
    Commands <- EvidenceCommands
    LegacyStatuses = {"running", "completed"}
    OrdinaryLimit = 4
    FileLimit = 6
SPECIFICATION Spec
SYMMETRY Symmetry
INVARIANTS
    EvidenceNeverOverwritten
    RepairCompletes
CHECK_DEADLOCK FALSE
