SPECIFICATION Spec
CONSTANTS
    Desired = {"cargo", "git"}
    Required = {"cargo"}
    System = {"git"}
    Paths = {"/opt/cargo", "repo/cargo"}
    Refused = {"repo/cargo"}
    Contents = {"good", "new"}
    Absent = Absent
    Leader = leader
    Descendants = {child}
    CanLeave = {}
    Limit = 1
    MaxChunks = 1
    MaxGates = 1
    MaxDisturbances = 2
INVARIANTS OutcomeIsComplete RunsBoundTools
PROPERTY EveryGateEnds
CHECK_DEADLOCK FALSE
