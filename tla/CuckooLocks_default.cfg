\* A map with as many buckets as there may be locks from the start: the size
\* the default constructor gives it.
SPECIFICATION FairSpec
CONSTANTS
  Threads = {t1, t2}
  Resizers = {t1, t2}
  Jobs = {"double", "expand", "rehash", "table"}
  MaxNumLocks = 2
  InitHp = 1
  MaxHp = 2
  MaxTurns = 2
INVARIANTS
  TypeOK
  BucketExclusion
  ResizeAlone
  UsingCurrent
  NoLockLeftBehind
PROPERTIES
  ImplementsBucketAccess
  OperationsReturn
\* Every thread comes to the end of its turns.
CHECK_DEADLOCK FALSE
