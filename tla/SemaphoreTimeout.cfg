SPECIFICATION SemSpec
CONSTANTS
  main = main
  idle = idle
  a = a
  b = b
  Thread <- MCThread
  Idle = idle
  Main = main
  Static <- MCThread
  PrioMax = 3
  InitPrio <- MCInitPrio
  InitTick = 1
  WaitList = {Sem}
  Defunct = Defunct
  NoThread = NoThread
  MaxLock = 1
  Ops = {"startup"}
  Sem = Sem
  SemInit = 0
  ValueRange = 2
  SemOps = {"timed", "release"}
  MaxNet = 2
INVARIANTS
  TimeoutFindsSuspended
