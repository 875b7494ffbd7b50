SPECIFICATION Spec
CONSTANTS
  main = main
  idle = idle
  a = a
  b = b
  Thread <- MCThread
  Idle = idle
  Main = main
  Static <- MCStatic
  PrioMax = 3
  InitPrio <- MCInitPrio
  InitTick = 1
  WaitList = {}
  Defunct = Defunct
  NoThread = NoThread
  MaxLock = 1
  Ops = {"startup", "create", "sleep", "resume", "delete"}
INVARIANTS
  ClosedUnqueued
