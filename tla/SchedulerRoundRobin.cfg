SPECIFICATION FairCallsSpec
CONSTANTS
  main = main
  idle = idle
  a = a
  b = b
  Thread <- MCThread
  Idle = idle
  Main = main
  Static <- MCStatic
  PrioMax = 3
  InitPrio <- MCInitPrio
  InitTick = 2
  WaitList = {}
  Defunct = Defunct
  NoThread = NoThread
  MaxLock = 1
  Kinds = {"queue"}
  Ops = {"startup", "yield", "sleep", "critical", "suspend", "find", "isr_resume"}
PROPERTIES
  RoundRobin
