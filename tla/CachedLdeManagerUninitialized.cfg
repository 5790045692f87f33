CONSTANTS
  NCosets = 3
  MaxColumns = 2
  RetryAfterFailure = TRUE
  Uninitialized = Uninitialized
  None = None
SPECIFICATION LdeSpec
INVARIANTS NoUninitializedEvaluation
