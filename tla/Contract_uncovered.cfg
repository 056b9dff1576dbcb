SPECIFICATION Spec
CONSTANTS
  Absent = NoValue
  Bad = WrongValue
  BadGlob = NoGlob
  NoValue = NoValue
  WrongValue = WrongValue
  NoGlob = NoGlob
  Reserved <- MCReserved
  Templates <- MCTemplates
  Baseline = "baseline"
  TaskTemplate <- MCTaskTemplate
  ManagerTemplate <- MCManagerTemplate
  PhpTemplate = "phpunit"
  Rivals <- MCRivals
  Covering <- MCCovering
  UserPolicies <- MCUserPolicies
  RepositoryPolicies <- MCRepositoryPolicies
  Workflows <- MCWorkflows
  Evidence <- MCEvidence
  FirstGates <- MCFirstGates
  Additions <- MCAdditions
  Requests <- MCRequests
  MaxEdits = 2
INVARIANT EveryFileProven
CHECK_DEADLOCK FALSE
