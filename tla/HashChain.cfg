CONSTANTS
  DigestNumBytes = 3
  Messages <- CounterAndOther
  Other = Other
  Zero = Zero
  Idle = Idle
  MaxRequest = 7
  MaxCounter = 4
  MaxMixes = 2
SPECIFICATION Spec
INVARIANTS SpareFits EveryByteAccounted SeedIsNew
