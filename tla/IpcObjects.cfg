SPECIFICATION IpcObjectsSpec
CONSTANTS
  main = main
  idle = idle
  a = a
  W1 = W1
  W2 = W2
  Thread <- MCThread
  Idle = idle
  Main = main
  Static <- MCThread
  PrioMax = 3
  InitPrio <- MCInitPrio
  InitTick = 1
  WaitList = {W1, W2}
  Defunct = Defunct
  NoThread = NoThread
  MaxLock = 1
  Ops = {"startup"}
  Flags = {"PRIO"}
  Lists <- MCLists
  Calls = {"send", "isr_send", "urgent", "recv", "alloc", "isr_alloc",
           "free", "isr_free", "reset", "detach"}
  Objects = {"event", "mailbox", "queue", "pool"}
  Evt = W1
  Bits = {"e1", "e2"}
  Requests <- MCRequests
  Receivers = W1
  Senders = W2
  Mail = {"m1", "m2"}
  NoMail = "none"
  Size = 2
  Mq = W1
  Node = {n1, n2, n3}
  Body = {"m1", "m2"}
  NoNode = NoNode
  NoBody = "none"
  Pool = W1
  PoolBlock = {b1, b2}
  MaxCount = 3
INVARIANTS
  WaitersListed
  SendWakesAll
  NoMessageShared
  BlocksConserved
  NobodyWaitsInVain
PROPERTIES
  ClearedOnce
  MailboxIsChannel
  QueueIsChannel
