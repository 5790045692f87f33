CONSTANTS
  Size = 10
  NumThreads = 1
SPECIFICATION FairSplitSpec
INVARIANTS NoIndexTwice NoIndexForgotten FewTasks
PROPERTIES Terminates
