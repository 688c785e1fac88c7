\* A map that starts with one bucket and one lock.
SPECIFICATION Spec
CONSTANTS
  Threads = {t1, t2}
  Resizers = {t1, t2}
  Jobs = {"double", "expand", "rehash", "table"}
  MaxNumLocks = 4
  InitHp = 0
  MaxHp = 2
  MaxTurns = 2
INVARIANTS LockIndexInRange NoDeadlock
\* Every thread comes to the end of its turns.
CHECK_DEADLOCK FALSE
