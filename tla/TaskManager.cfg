CONSTANTS
  a = a
  b = b
  d = d
  Main = main
  Workers = {w1, w2}
  Groups = {a, b, d}
  NTasks <- Sizes
  Inline = {d}
  Throwers <- FirstTasksThrow
  SpuriousWakeups = TRUE
  NoGroup = NoGroup
  NoExc = NoExc
  Unfinished = Unfinished
  Ok = Ok
SPECIFICATION SchedulerFairSpec
PROPERTIES ImplementsForkJoin EveryCallReturns ShutdownCompletes IdleThreadsJoinIn
INVARIANTS TypeOK SiblingsCountUnfinished CapturesAlive EachTaskOnce DestructorFindsNoTasks ReturnsWhenAllTasksComplete NoLostWakeup WaiterCounts
