SPECIFICATION Spec
CONSTANTS
    Runs = {"r1", "r2"}
    Rank <- MCRank
    Local = {"r1", "r2"}
    Questions = {{"r1"}, {"r1", "r2"}}
    Procs = {p1, p2}
    Commands <- MCCommands
    Gates = {"g1", "g2"}
    Stamps = {0, 1}
    Limits = {0, 1}
    MaxAttempts = 2
    StaleAfter = 1
    MaxClock = 1
    MaxCommands = 4
    Absent = Absent
SYMMETRY Symmetry
INVARIANTS ResumeIsJustified DashboardShowsItsGates
CHECK_DEADLOCK FALSE
