CONSTANTS
  Size = 12
  chunk_size = 2
  thread_count = 3
  ValidSets <- FewValid
SPECIFICATION FairSpec
INVARIANTS ResultIsLowestNonce FailureIsJustified
PROPERTIES SearchEnds
