CONSTANTS
  StepLists <- StepListsValue
  Bounds = {1, 2}
  Cosets = {2, 4, 8}
  LogMemory = {0, 2, 3, 4, 5, 20}
  NonChunked = {2, 4, 16}
  ChunkCounts = {2, 4, 16}
SPECIFICATION Spec
INVARIANTS NoAssertionFails TablesHoldTheirLayers AnswersAreTheCommitted
