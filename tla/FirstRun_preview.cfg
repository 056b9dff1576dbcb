SPECIFICATION Spec
CONSTANTS
    Launches = {"v1", "v2"}
    VersionOf <- MCVersionOf
    Evidence = {"cargo", "none", "unsafe"}
    Ready = {"cargo"}
    Blocked = {"unsafe"}
    Absent = Absent
    Outsider = Outsider
    Partial = Partial
    MaxDirs = 4
    MaxDisturbances = 2
INVARIANT SessionJudgedFiles
CHECK_DEADLOCK FALSE
