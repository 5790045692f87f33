CONSTANTS
  StepLists <- StepListsValue
  InteractionElements = {0, 2}
  PowBits = {0, 1}
  n_queries = 2
  mask_size = 2
  n_breaks = 2
SPECIFICATION Spec
INVARIANTS ChallengesBindTheTranscript HonestProofAccepted AcceptsOnlyTheProof
