CONSTANTS
  MaxHeight = 3
  Wrong = Wrong
SPECIFICATION Spec
INVARIANTS EveryNodeRight ReadsWhatWasSent AcceptsOnlyTheData
