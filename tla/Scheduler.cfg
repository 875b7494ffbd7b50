SPECIFICATION CallsSpec
CONSTANTS
  main = main
  idle = idle
  a = a
  b = b
  Thread <- MCThread
  Idle = idle
  Main = main
  Static <- MCStatic
  PrioMax = 3
  InitPrio <- MCInitPrio
  InitTick = 1
  WaitList = {}
  Defunct = Defunct
  NoThread = NoThread
  MaxLock = 1
  Kinds = {"queue", "life"}
  Ops = {"startup", "yield", "sleep", "suspend", "resume", "priority", "critical", "create", "exit", "delete", "isr_resume"}
INVARIANTS
  TypeOK
  QueuesConsistent
  HighestRuns
  CriticalKeepsCpu
  NoThreadLost
  FreedUnused
PROPERTIES
  ImplementsFixedPriority
