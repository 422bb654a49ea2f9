\* Does EFI_SUCCESS mean that the required EKUs were found?
SPECIFICATION Spec
CONSTANTS
  Family <- EkuFamily
  Known <- NoFaults
INVARIANT TruthfulResult
