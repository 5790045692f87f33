CONSTANTS
  MaxWord = 7
  n_steps = 2
  PublicSize = 2
  n_instances = 2
  n_parts = 2
  PartBase = 4
  begin_addr = 3
  MemVacant = 2
  RcVacant = 1
  Inputs <- InputsValue
  Empty = Empty
SPECIFICATION Spec
INVARIANTS TracesOnlyAMemory StopsOnlyForTheStatement ColumnsAddUp
