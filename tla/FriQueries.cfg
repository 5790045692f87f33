CONSTANTS
  StepLists <- StepListsValue
  LogLast = {0, 1}
  NumQueries = 2
SPECIFICATION Spec
INVARIANTS AcceptsOnlyConsistentPaths RejectsOnlyInconsistentPaths
