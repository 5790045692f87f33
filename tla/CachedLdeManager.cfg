CONSTANTS
  NCosets = 3
  MaxColumns = 2
  RetryAfterFailure = FALSE
  Uninitialized = Uninitialized
  None = None
SPECIFICATION LdeSpec
INVARIANTS EvaluatedOnRequestedCoset TwiddlesMatchPreviousOffset
