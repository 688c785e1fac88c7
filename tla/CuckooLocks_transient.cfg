\* An insert doubles a small map while another thread waits for a lock.
SPECIFICATION Spec
CONSTANTS
  Threads = {t1, t2}
  Resizers = {t2}
  Jobs = {"double"}
  MaxNumLocks = 4
  InitHp = 0
  MaxHp = 2
  MaxTurns = 3
INVARIANTS
  ResizeAlone
\* Every thread comes to the end of its turns.
CHECK_DEADLOCK FALSE
