\* All four loaders, with every service failing or not.
SPECIFICATION Spec
CONSTANT EntryMayFail = TRUE
INVARIANTS
  InstalledIsUsable
  StatusTellsDatabase
  FailureLeavesNothing
  LateRngIsFound
CHECK_DEADLOCK FALSE
