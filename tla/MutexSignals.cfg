SPECIFICATION SignalsSpec
CONSTANTS
  main = main
  idle = idle
  a = a
  b = b
  Thread <- MCThread
  Idle = idle
  Main = main
  Static <- MCThread
  PrioMax = 4
  InitPrio <- MCInitPrio
  InitTick = 1
  WaitList = {W1}
  Defunct = Defunct
  NoThread = NoThread
  MaxLock = 1
  Ops = {"startup", "sleep"}
  Lists <- MCLists
  Flags = {"FIFO", "PRIO"}
  Calls = {"take", "release", "detach"}
  Mtx = W1
  W1 = W1
  NoPrio = NoPrio
  MaxHold = 2
  Sig = {s1, s2}
  s1 = s1
  s2 = s2
  SigInfoMax = 2
  MaxFrame = 3
  Works <- MCWorks
INVARIANTS
  MutualExclusion
  OwnerInherits
  PriorityRestored
  SignalWakesWaiter
  NodesConserved
