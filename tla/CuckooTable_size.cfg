\* Adding up counters while elements move.
CONSTANTS
  t1 = t1 t2 = t2 k1 = k1 k2 = k2 k3 = k3 v1 = v1 v2 = v2
  Threads = {t1, t2}
  Keys = {k1, k2, k3}
  Values = {v1, v2}
  Calls <- SizeCalls
  Hash1 <- Spread1
  Hash2 <- Spread2
  SlotsPerBucket = 1
  MaxPathLen = 3
  MaxNumLocks = 2
  InitHp = 1
  Limit = 2
  MaxHp = 2
  MinLoad = 0
  NothrowMove = TRUE
  MovesThrow = FALSE
  MaxCalls = 6
  Husk = Husk
  Absent = Absent
  Nobody = Nobody
  NoCall = NoCall
SPECIFICATION Spec
SYMMETRY ThreadSymmetry
\* The calls may be used up.
CHECK_DEADLOCK FALSE
INVARIANT SizeNotNegative
