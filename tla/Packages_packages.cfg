SPECIFICATION Spec
CONSTANTS
    Absent = Absent
    Broken = Broken
    Link = Link
    PortableIds = {"nopal", "a", "b", "w"}
    Names = {"nopal", "a", "b", "w"}
    Versions = {"1.0.0"}
    SafePaths = {"SKILL.md", "tools/w"}
    Registries = {"npmjs"}
    Sris = {"s1", "s2", "s3"}
    Commands = {c1, c2}
    Projects = {"p1", "p2"}
    Contracts <- MCContracts
    Builtin <- MCBuiltin
    Roots <- MCRoots
    Checkout <- MCCheckout
    Installed <- MCInstalled
    Answers <- MCAnswers
    Damage <- MCDamage
    MaxBegins = 2
    MaxDisturbances = 1
INVARIANTS StoreHoldsArchives SessionKeepsItsPackages
PROPERTIES SyncRepairs UpdateReportIsTrue EveryCommandEnds
CHECK_DEADLOCK FALSE
