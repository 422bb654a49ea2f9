SPECIFICATION Spec
CONSTANT
  Family <- Families
  Known <- KnownFaults
INVARIANTS
  NothingLeaked
  NothingMisused
  TruthfulResult
  FailureGivesNothing
