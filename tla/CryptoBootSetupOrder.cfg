\* When is OneCryptoCrtSetup called, in relation to the entry function?
SPECIFICATION Spec
CONSTANT EntryMayFail = FALSE
INVARIANT SetupBeforeEntry
CHECK_DEADLOCK FALSE
