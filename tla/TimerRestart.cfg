SPECIFICATION TimerSpec
CONSTANTS
  t1 = t1
  t2 = t2
  t3 = t3
  NoTimer = NoTimer
  Timer <- MCTwo
  Client = {c1, c2}
  TickRange = 10
  Times = {1, 2}
  MaxInit = 2
  MaxDelay = 1
  TimerOps = {"callback", "restart"}
INVARIANTS
  LinkedActive
