CONSTANTS
  Configurations <- EightAndFewRows
  Wrong = Wrong
SPECIFICATION Spec
INVARIANTS NoAssertionFails AcceptsOnlyTheData
