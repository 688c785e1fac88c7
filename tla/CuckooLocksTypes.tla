-------------------------- MODULE CuckooLocksTypes --------------------------
(***************************************************************************)
(* Type correctness of CuckooLocks, and that no thread indexes a lock list *)
(* out of bounds.  Both hold for every size of the table and of the lock   *)
(* lists, and with the races that break exclusion in a small table: the    *)
(* lists only grow, and a list that is big enough is there before the      *)
(* hashpower that needs it.                                                *)
(***************************************************************************)
EXTENDS CuckooLocks, TLAPS

USE CuckooLocksAssumption DEF PCs, JobSet

-----------------------------------------------------------------------------
(* Sizes and indices.                                                      *)

\* The sizes of the tables that fit the bound.
LEMMA HashSizeFacts ==
  ASSUME NEW h \in 0 .. MaxHp
  PROVE  /\ HashSize(h) \in Nat \ {0}
         /\ HashSize(h) <= HashSize(MaxHp)
         /\ Buckets(h) \subseteq Buckets(MaxHp)
         /\ LockCount(h) \in 1 .. MaxNumLocks
<1>1. HashSize(h) \in Nat \ {0} /\ HashSize(MaxHp) \in Nat \ {0} /\ HashSize(h) <= HashSize(MaxHp)
  BY HashSizeAssumption, CuckooLocksAssumption
<1> QED BY <1>1, CuckooLocksAssumption DEF Buckets, LockCount

\* A lock index is below kMaxNumLocks ...
LEMMA LockIndType ==
  ASSUME NEW b \in Nat
  PROVE  LockInd(b) \in 0 .. MaxNumLocks - 1
BY CuckooLocksAssumption DEF LockInd

\* ... and never above the index of its bucket.
LEMMA LockIndBelow ==
  ASSUME NEW b \in Nat
  PROVE  LockInd(b) <= b
BY CuckooLocksAssumption DEF LockInd

\* The lock indices of a set of buckets.
LEMMA LockIndsType ==
  ASSUME NEW B \in SUBSET Buckets(MaxHp)
  PROVE  LockInds(B) \in SUBSET (0 .. MaxNumLocks - 1)
BY LockIndType, HashSizeFacts DEF LockInds, Buckets

\* list indices of lists that stay
LEMMA SameLocks == UNCHANGED lists => Locks' = Locks
BY DEF Locks

\* all_locks_ is never empty.
LEMMA ListsType ==
  ASSUME TypeOK
  PROVE  /\ lists \in Seq(1 .. MaxNumLocks)
         /\ Len(lists) \in Nat \ {0}
<1>1. lists \in Seq(1 .. MaxNumLocks) /\ lists # << >>
  BY ZenonT(10) DEF TypeOK
<1> QED BY <1>1

\* lock() of one more lock.
LEMMA LockLeastType ==
  ASSUME TypeOK, NEW t \in Threads, LockLeast(t), UNCHANGED lists
  PROVE  /\ locked' \subseteq Locks'
         /\ held' \in [Threads -> SUBSET Locks']
         /\ todo' \in [Threads -> SUBSET (0 .. MaxNumLocks - 1)]
<1>1. PICK l \in todo[t] :
        /\ locked' = locked \union {<<cur[t], l>>}
        /\ held'   = [held EXCEPT ![t] = @ \union {<<cur[t], l>>}]
        /\ todo'   = [todo EXCEPT ![t] = @ \ {l}]
  BY DEF LockLeast
<1>2. <<cur[t], l>> \in Locks
  BY DEF TypeOK, Locks
<1> QED BY <1>1, <1>2, SameLocks DEF TypeOK

\* unlock() of some locks.
LEMMA UnlockType ==
  ASSUME TypeOK, NEW t \in Threads, NEW L, Unlock(t, L), UNCHANGED lists
  PROVE  /\ locked' \subseteq Locks'
         /\ held' \in [Threads -> SUBSET Locks']
BY SameLocks DEF Unlock, TypeOK

\* A new list makes room for its locks and keeps the others.
LEMMA GrowLocksType ==
  ASSUME TypeOK, NEW t \in Threads, NEW h \in 0 .. MaxHp, GrowLocks(t, h)
  PROVE  /\ lists' \in Seq(1 .. MaxNumLocks)
         /\ Len(lists') \in Nat
         /\ Len(lists') >= Len(lists)
         /\ locked' \subseteq Locks'
         /\ held' \in [Threads -> SUBSET Locks']
<1>0. LockCount(h) \in 1 .. MaxNumLocks
  BY HashSizeFacts
<1>1. CASE lists[Len(lists)] < LockCount(h)
  <2> DEFINE n   == LockCount(h)
             new == {Len(lists) + 1} \X (0 .. n - 1)
  <2>1. /\ lists' = Append(lists, n)
        /\ locked' = locked \union new
        /\ held' = [held EXCEPT ![t] = @ \union new]
    BY <1>1 DEF GrowLocks
  <2> HIDE DEF n
  <2>2. n \in 1 .. MaxNumLocks
    BY <1>0 DEF n
  <2>3. /\ lists' \in Seq(1 .. MaxNumLocks)
        /\ Len(lists') = Len(lists) + 1
        /\ Len(lists) \in Nat
    BY <2>1, <2>2, ListsType
  <2>4. Locks \subseteq Locks' /\ new \subseteq Locks'
    BY <2>2, <2>3 DEF Locks
  <2> HIDE DEF new
  <2>5. locked' \subseteq Locks' /\ held' \in [Threads -> SUBSET Locks']
    BY <2>1, <2>4 DEF TypeOK
  <2> QED BY <2>3, <2>5
<1>2. CASE ~(lists[Len(lists)] < LockCount(h))
  <2>1. UNCHANGED <<lists, locked, held>>
    BY <1>2 DEF GrowLocks, locks
  <2>2. Locks' = Locks
    BY <2>1, SameLocks
  <2>3. locked' \subseteq Locks' /\ held' \in [Threads -> SUBSET Locks']
    BY <2>1, <2>2 DEF TypeOK
  <2> QED BY <2>1, <2>3, ListsType
<1> QED BY <1>1, <1>2

\* The next place in the code.
LEMMA GotoType ==
  ASSUME TypeOK, NEW t \in Threads, NEW label \in PCs, Goto(t, label)
  PROVE  pc' \in [Threads -> PCs]
BY DEF TypeOK, Goto

\* One turn more.
LEMMA TurnType ==
  ASSUME TypeOK, NEW t \in Threads, Turn(t)
  PROVE  turns' \in [Threads -> 0 .. MaxTurns]
<1>1. turns \in [Threads -> 0 .. MaxTurns]
  BY DEF TypeOK
<1> QED BY <1>1 DEF Turn

\* An operation that returns.
LEMMA LeaveType ==
  ASSUME TypeOK, NEW t \in Threads, Leave(t), UNCHANGED lists
  PROVE  /\ pc'      \in [Threads -> PCs]
         /\ job'     \in [Threads -> JobSet \union {"none"}]
         /\ snap'    \in [Threads -> 0 .. MaxHp]
         /\ buckets' \in [Threads -> SUBSET Buckets(MaxHp)]
         /\ cur'     \in [Threads -> 1 .. Len(lists')]
         /\ first'   \in [Threads -> 1 .. Len(lists')]
         /\ goal'    \in [Threads -> 0 .. MaxHp]
<1>1. 1 \in 1 .. Len(lists)
  BY ListsType
<1>2. pc' \in [Threads -> PCs]
  BY GotoType DEF Leave
<1>3. cur' \in [Threads -> 1 .. Len(lists')] /\ first' \in [Threads -> 1 .. Len(lists')]
  BY <1>1 DEF Leave, TypeOK
<1>4. /\ job' \in [Threads -> JobSet \union {"none"}]
      /\ buckets' \in [Threads -> SUBSET Buckets(MaxHp)]
  BY DEF Leave, TypeOK
<1>5. snap' \in [Threads -> 0 .. MaxHp] /\ goal' \in [Threads -> 0 .. MaxHp]
  BY DEF Leave, TypeOK
<1> QED BY <1>2, <1>3, <1>4, <1>5

\* The indices of a lock list.
LEMMA ListIndices ==
  ASSUME TypeOK, NEW n \in 1 .. Len(lists)
  PROVE  0 .. lists[n] - 1 \in SUBSET (0 .. MaxNumLocks - 1)
<1>1. lists[n] \in 1 .. MaxNumLocks
  BY ListsType
<1> QED BY <1>1

\* The indices of a longer list contain those of a shorter one.
LEMMA LongerList ==
  ASSUME NEW m \in Nat \ {0}, NEW n \in Nat, n >= m
  PROVE  1 .. m \subseteq 1 .. n /\ n # 0
OBVIOUS

\* A resizer that went through maybe_resize_locks.
LEMMA GrownType ==
  ASSUME TypeOK, NEW t \in Threads, NEW h \in 0 .. MaxHp, GrowLocks(t, h),
         pc' \in [Threads -> PCs],
         turns' \in [Threads -> 0 .. MaxTurns],
         goal' \in [Threads -> 0 .. MaxHp],
         UNCHANGED <<hp, oldHp, access, job, first, cur, todo>>
  PROVE  TypeOK'
<1>1. /\ lists' \in Seq(1 .. MaxNumLocks)
      /\ Len(lists') >= Len(lists)
      /\ Len(lists') \in Nat
      /\ locked' \subseteq Locks'
      /\ held' \in [Threads -> SUBSET Locks']
  BY GrowLocksType
<1>2. /\ Len(lists) \in Nat \ {0}
      /\ Len(lists') \in Nat
      /\ Len(lists') >= Len(lists)
  BY <1>1, ListsType
<1>3. 1 .. Len(lists) \subseteq 1 .. Len(lists') /\ Len(lists') # 0
  BY <1>2, LongerList
<1>5. lists' # << >>
  BY ONLY <1>3, Len(<< >>) = 0
<1>4. cur' \in [Threads -> 1 .. Len(lists')] /\ first' \in [Threads -> 1 .. Len(lists')]
  BY <1>3 DEF TypeOK
<1> QED BY <1>1, <1>4, <1>5 DEF TypeOK, access

\* The constructed map has its types.
LEMMA InitType == Init => TypeOK
<1> SUFFICES ASSUME Init PROVE TypeOK
  OBVIOUS
<1>1. LockCount(InitHp) \in 1 .. MaxNumLocks
  BY HashSizeFacts
<1>2. 0 \in 0 .. MaxTurns /\ 0 \in 0 .. MaxHp
  OBVIOUS
<1> QED BY <1>1, <1>2 DEF Init, TypeOK

\* Every step keeps the types.
LEMMA StepType == TypeOK /\ [Next]_vars => TypeOK'
<1> SUFFICES ASSUME TypeOK, [Next]_vars PROVE TypeOK'
  OBVIOUS
<1> USE DEF table, locks, access, resize
<1>0. CASE UNCHANGED vars
  BY <1>0, SameLocks DEF vars, TypeOK
<1>1. ASSUME NEW t \in Threads, Begin(t) PROVE TypeOK'
  BY <1>1, TurnType, GotoType, SameLocks DEF Begin, TypeOK
<1>2. ASSUME NEW t \in Threads, Snapshot(t) PROVE TypeOK'
  <2>1. pc' \in [Threads -> PCs]
    BY <1>2, GotoType DEF Snapshot
  <2>2. hp \in 0 .. MaxHp /\ snap' \in [Threads -> 0 .. MaxHp]
    BY <1>2 DEF Snapshot, TypeOK
  <2>3. PICK i1, i2 \in Buckets(hp) : buckets' = [buckets EXCEPT ![t] = {i1, i2}]
    BY <1>2 DEF Snapshot
  <2>4. {i1, i2} \in SUBSET Buckets(MaxHp)
    BY <2>2, HashSizeFacts
  <2>5. buckets' \in [Threads -> SUBSET Buckets(MaxHp)]
    BY <2>3, <2>4 DEF TypeOK
  <2> QED BY <1>2, <2>1, <2>2, <2>5, SameLocks DEF Snapshot, TypeOK
<1>3. ASSUME NEW t \in Threads, GetLocks(t) PROVE TypeOK'
  <2>1. pc' \in [Threads -> PCs]
    BY <1>3, GotoType DEF GetLocks
  <2>2. Len(lists) \in 1 .. Len(lists)
    BY ListsType
  <2>5. cur' \in [Threads -> 1 .. Len(lists)]
    BY <1>3, <2>2 DEF GetLocks, TypeOK
  <2>3. LockInds(buckets[t]) \in SUBSET (0 .. MaxNumLocks - 1)
    BY LockIndsType DEF TypeOK
  <2>4. todo' \in [Threads -> SUBSET (0 .. MaxNumLocks - 1)]
    BY <1>3, <2>3 DEF GetLocks, TypeOK
  <2> QED BY <1>3, <2>1, <2>4, <2>5, SameLocks DEF GetLocks, TypeOK
<1>4. ASSUME NEW t \in Threads, LockFirst(t) PROVE TypeOK'
  BY <1>4, LockLeastType, GotoType, SameLocks DEF LockFirst, TypeOK
<1>5. ASSUME NEW t \in Threads, CheckPasses(t) PROVE TypeOK'
  <2>1. pc' \in [Threads -> PCs]
    BY <1>5, GotoType DEF CheckPasses
  <2> QED BY <1>5, <2>1, SameLocks DEF CheckPasses, TypeOK
<1>6. ASSUME NEW t \in Threads, CheckFails(t) PROVE TypeOK'
  <2>1. pc' \in [Threads -> PCs]
    BY <1>6, GotoType DEF CheckFails
  <2> QED BY <1>6, <2>1, UnlockType, SameLocks DEF CheckFails, TypeOK
<1>7. ASSUME NEW t \in Threads, LockMore(t) PROVE TypeOK'
  <2>1. pc' \in [Threads -> PCs]
    BY <1>7, GotoType DEF LockMore
  <2> QED BY <1>7, <2>1, LockLeastType, SameLocks DEF LockMore, TypeOK
<1>8. ASSUME NEW t \in Threads, KeepTwo(t) PROVE TypeOK'
  <2>1. /\ buckets \in [Threads -> SUBSET Buckets(MaxHp)]
        /\ \E b \in buckets[t] :
             buckets' = [buckets EXCEPT ![t] = buckets[t] \ {b}]
    BY <1>8 DEF KeepTwo, TypeOK
  <2>3. buckets' \in [Threads -> SUBSET Buckets(MaxHp)]
    BY <2>1
  <2>2. locked' \subseteq Locks' /\ held' \in [Threads -> SUBSET Locks']
    BY <1>8, UnlockType DEF KeepTwo
  <2> QED BY <1>8, <2>2, <2>3, SameLocks DEF KeepTwo, TypeOK
<1>9. ASSUME NEW t \in Threads, Release(t) PROVE TypeOK'
  <2>1. pc' \in [Threads -> PCs]
    BY <1>9, GotoType DEF Release
  <2>2. locked' \subseteq Locks' /\ held' \in [Threads -> SUBSET Locks']
    BY <1>9, UnlockType DEF Release
  <2> QED BY <1>9, <2>1, <2>2, SameLocks DEF Release, TypeOK
<1>10. ASSUME NEW t \in Threads, Return(t) PROVE TypeOK'
  BY <1>10, LeaveType, SameLocks DEF Return, TypeOK
<1>11. ASSUME NEW t \in Threads, Cuckoo(t) PROVE TypeOK'
  <2>1. pc' \in [Threads -> PCs] /\ turns' \in [Threads -> 0 .. MaxTurns]
    BY <1>11, GotoType, TurnType DEF Cuckoo
  <2>2. snap[t] \in 0 .. MaxHp
    BY DEF TypeOK
  <2>3. PICK a, b, c \in Buckets(snap[t]) : buckets' = [buckets EXCEPT ![t] = {a, b, c}]
    BY <1>11 DEF Cuckoo
  <2>4. {a, b, c} \in SUBSET Buckets(MaxHp)
    BY <2>2, HashSizeFacts
  <2>5. buckets' \in [Threads -> SUBSET Buckets(MaxHp)]
    BY <2>3, <2>4 DEF TypeOK
  <2> QED BY <1>11, <2>1, <2>5, SameLocks DEF Cuckoo, TypeOK
<1>12. ASSUME NEW t \in Threads, TableFull(t) PROVE TypeOK'
  <2>1. pc' \in [Threads -> PCs] /\ turns' \in [Threads -> 0 .. MaxTurns]
    BY <1>12, GotoType, TurnType DEF TableFull
  <2>2. job' \in [Threads -> JobSet \union {"none"}]
    BY <1>12 DEF TableFull, TypeOK
  <2>5. snap[t] \in 0 .. MaxHp /\ snap[t] < MaxHp
    BY <1>12 DEF TableFull, TypeOK
  <2>3. snap[t] + 1 \in 0 .. MaxHp
    BY <2>5
  <2>4. goal' \in [Threads -> 0 .. MaxHp]
    BY <1>12, <2>3 DEF TableFull, TypeOK
  <2> QED BY <1>12, <2>1, <2>2, <2>4, SameLocks DEF TableFull, TypeOK
<1>13. ASSUME NEW t \in Threads, Rehash(t) PROVE TypeOK'
  <2>1. pc' \in [Threads -> PCs] /\ turns' \in [Threads -> 0 .. MaxTurns]
    BY <1>13, GotoType, TurnType DEF Rehash
  <2>2. job' \in [Threads -> JobSet \union {"none"}]
    BY <1>13 DEF Rehash, TypeOK
  <2>3. goal' \in [Threads -> 0 .. MaxHp]
    BY <1>13, ZenonT(40) DEF Rehash, TypeOK
  <2> QED BY <1>13, <2>1, <2>2, <2>3, SameLocks DEF Rehash, TypeOK
<1>14. ASSUME NEW t \in Threads, LockTable(t) PROVE TypeOK'
  <2>1. pc' \in [Threads -> PCs] /\ turns' \in [Threads -> 0 .. MaxTurns]
    BY <1>14, GotoType, TurnType DEF LockTable
  <2>2. job' \in [Threads -> JobSet \union {"none"}]
    BY <1>14 DEF LockTable, TypeOK
  <2> QED BY <1>14, <2>1, <2>2, SameLocks DEF LockTable, TypeOK
<1>15. ASSUME NEW t \in Threads, LockAll(t) PROVE TypeOK'
  <2>1. pc' \in [Threads -> PCs]
    BY <1>15, GotoType DEF LockAll
  <2>2. Len(lists) \in 1 .. Len(lists)
    BY ListsType
  <2>3. /\ first' \in [Threads -> 1 .. Len(lists)]
        /\ cur'   \in [Threads -> 1 .. Len(lists)]
    BY <1>15, <2>2 DEF LockAll, TypeOK
  <2>4. todo' \in [Threads -> SUBSET (0 .. MaxNumLocks - 1)]
    BY <1>15, <2>2, ListIndices DEF LockAll, TypeOK
  <2> QED BY <1>15, <2>1, <2>3, <2>4, SameLocks DEF LockAll, TypeOK
<1>16. ASSUME NEW t \in Threads, LockAllStep(t) PROVE TypeOK'
  BY <1>16, LockLeastType, SameLocks DEF LockAllStep, TypeOK
<1>17. ASSUME NEW t \in Threads, LockAllNext(t) PROVE TypeOK'
  <2>4. cur[t] \in 1 .. Len(lists) /\ cur[t] < Len(lists)
    BY <1>17 DEF LockAllNext, TypeOK
  <2>1. cur[t] + 1 \in 1 .. Len(lists)
    BY <2>4, ListsType
  <2>2. cur' \in [Threads -> 1 .. Len(lists)]
    BY <1>17, <2>1 DEF LockAllNext, TypeOK
  <2>3. todo' \in [Threads -> SUBSET (0 .. MaxNumLocks - 1)]
    BY <1>17, <2>1, ListIndices DEF LockAllNext, TypeOK
  <2> QED BY <1>17, <2>2, <2>3, SameLocks DEF LockAllNext, TypeOK
<1>18. ASSUME NEW t \in Threads, LockAllDone(t) PROVE TypeOK'
  BY <1>18, GotoType, SameLocks DEF LockAllDone, TypeOK
<1>19. ASSUME NEW t \in Threads, Overtaken(t) PROVE TypeOK'
  BY <1>19, GotoType, SameLocks DEF Overtaken, TypeOK
<1>20. ASSUME NEW t \in Threads, Refused(t) PROVE TypeOK'
  BY <1>20, GotoType, SameLocks DEF Refused, TypeOK
<1>21. ASSUME NEW t \in Threads, FastDouble(t) PROVE TypeOK'
  <2>1. pc' \in [Threads -> PCs]
    BY <1>21, GotoType DEF FastDouble
  <2>2. turns' \in [Threads -> 0 .. MaxTurns]
    BY <1>21, TurnType DEF FastDouble, TypeOK
  <2>6. hp \in 0 .. MaxHp /\ hp < MaxHp
    BY <1>21 DEF FastDouble, TypeOK
  <2>3. hp + 1 \in 0 .. MaxHp
    BY <2>6
  <2>4. goal' \in [Threads -> 0 .. MaxHp]
    BY <1>21, <2>3 DEF FastDouble, TypeOK
  <2>5. GrowLocks(t, hp + 1)
    BY <1>21 DEF FastDouble
  <2> QED BY <1>21, <2>1, <2>2, <2>3, <2>4, <2>5, GrownType DEF FastDouble
<1>22. ASSUME NEW t \in Threads, ExpandSimple(t) PROVE TypeOK'
  <2>1. pc' \in [Threads -> PCs]
    BY <1>22, GotoType DEF ExpandSimple
  <2>2. turns' \in [Threads -> 0 .. MaxTurns]
    BY <1>22, TurnType DEF ExpandSimple, TypeOK
  <2>3. goal[t] \in 0 .. MaxHp
    BY DEF TypeOK
  <2>4. PICK n \in 0 .. MaxHp :
          goal' = [goal EXCEPT ![t] = n] /\ GrowLocks(t, n)
    BY <1>22, <2>3 DEF ExpandSimple
  <2>5. goal' \in [Threads -> 0 .. MaxHp]
    BY <2>4 DEF TypeOK
  <2> QED BY <1>22, <2>1, <2>2, <2>4, <2>5, GrownType DEF ExpandSimple
<1>23. ASSUME NEW t \in Threads, SwapBuckets(t) PROVE TypeOK'
  BY <1>23, GotoType, SameLocks DEF SwapBuckets, TypeOK
<1>24. ASSUME NEW t \in Threads, SetHashpower(t) PROVE TypeOK'
  <2>1. pc' \in [Threads -> PCs]
    BY <1>24, GotoType DEF SetHashpower
  <2> QED BY <1>24, <2>1, SameLocks DEF SetHashpower, TypeOK
<1>25. ASSUME NEW t \in Threads, UnlockAll(t) PROVE TypeOK'
  <2>1. pc' \in [Threads -> PCs]
    BY <1>25, GotoType DEF UnlockAll
  <2>2. first[t] \in 1 .. Len(lists)
    BY DEF TypeOK
  <2>3. cur' \in [Threads -> 1 .. Len(lists)]
    BY <1>25, <2>2 DEF UnlockAll, TypeOK
  <2>4. todo' \in [Threads -> SUBSET (0 .. MaxNumLocks - 1)]
    BY <1>25, <2>2, ListIndices DEF UnlockAll, TypeOK
  <2> QED BY <1>25, <2>1, <2>3, <2>4, SameLocks DEF UnlockAll, TypeOK
<1>26. ASSUME NEW t \in Threads, UnlockStep(t) PROVE TypeOK'
  <2>1. locked' \subseteq Locks' /\ held' \in [Threads -> SUBSET Locks']
    BY <1>26, UnlockType DEF UnlockStep
  <2>3. /\ todo \in [Threads -> SUBSET (0 .. MaxNumLocks - 1)]
        /\ \E l \in todo[t] : todo' = [todo EXCEPT ![t] = @ \ {l}]
    BY <1>26 DEF UnlockStep, TypeOK
  <2>2. todo' \in [Threads -> SUBSET (0 .. MaxNumLocks - 1)]
    BY <2>3
  <2> QED BY <1>26, <2>1, <2>2, SameLocks DEF UnlockStep, TypeOK
<1>27. ASSUME NEW t \in Threads, UnlockNext(t) PROVE TypeOK'
  <2>4. cur[t] \in 1 .. Len(lists) /\ cur[t] < Len(lists)
    BY <1>27 DEF UnlockNext, TypeOK
  <2>1. cur[t] + 1 \in 1 .. Len(lists)
    BY <2>4, ListsType
  <2>2. cur' \in [Threads -> 1 .. Len(lists)]
    BY <1>27, <2>1 DEF UnlockNext, TypeOK
  <2>3. todo' \in [Threads -> SUBSET (0 .. MaxNumLocks - 1)]
    BY <1>27, <2>1, ListIndices DEF UnlockNext, TypeOK
  <2> QED BY <1>27, <2>2, <2>3, SameLocks DEF UnlockNext, TypeOK
<1>28. ASSUME NEW t \in Threads, UnlockDone(t) PROVE TypeOK'
  <2>1. CASE job[t] \in {"double", "expand"}
    BY <1>28, <2>1, GotoType, SameLocks DEF UnlockDone, TypeOK
  <2>2. CASE job[t] \notin {"double", "expand"}
    BY <1>28, <2>2, LeaveType, SameLocks DEF UnlockDone, TypeOK
  <2> QED BY <2>1, <2>2
<1> QED
  BY <1>0, <1>1, <1>2, <1>3, <1>4, <1>5, <1>6, <1>7, <1>8, <1>9, <1>10, <1>11,
     <1>12, <1>13, <1>14, <1>15, <1>16, <1>17, <1>18, <1>19, <1>20, <1>21,
     <1>22, <1>23, <1>24, <1>25, <1>26, <1>27, <1>28
  DEF Next, Access, Resize
(***************************************************************************)
(* Lock indices.  In every regime, whoever shrinks, grows or races: the    *)
(* current lock list is big enough for the hashpower of buckets_, of       *)
(* old_buckets_ and of every snapshot, because it is appended before the   *)
(* hashpower moves and never gets smaller.                                 *)
(***************************************************************************)

LastSize == lists[Len(lists)]

ThreadRange(t) ==
  /\ LockCount(snap[t]) <= LastSize
  /\ buckets[t] \subseteq Buckets(snap[t])
  /\ pc[t] \in {"swap", "set"} => LockCount(goal[t]) <= LastSize
  /\ pc[t] \in {"first", "check", "more"} =>
       todo[t] \subseteq 0 .. lists[cur[t]] - 1

RangeInv ==
  /\ LockCount(hp) <= LastSize
  /\ LockCount(oldHp) <= LastSize
  /\ LockCount(InitHp) <= LastSize
  /\ \A t \in Threads : ThreadRange(t)

\* A bigger table never wants fewer locks.
LEMMA LockCountMonotone ==
  ASSUME NEW h \in 0 .. MaxHp, NEW g \in 0 .. h
  PROVE  LockCount(g) <= LockCount(h)
<1>1. g \in 0 .. MaxHp
  OBVIOUS
<1>2. /\ HashSize(g) \in Nat /\ HashSize(h) \in Nat
      /\ HashSize(g) <= HashSize(h)
  BY <1>1, HashSizeAssumption
<1> QED BY <1>2 DEF LockCount

\* The constructed map has locks enough.
LEMMA InitRange == Init => RangeInv
<1> SUFFICES ASSUME Init PROVE RangeInv
  OBVIOUS
<1>1. LastSize = LockCount(InitHp)
  BY DEF Init, LastSize
<1>2. LockCount(InitHp) \in 1 .. MaxNumLocks /\ LockCount(0) <= LockCount(InitHp)
  BY HashSizeFacts, LockCountMonotone
<1> QED BY <1>1, <1>2 DEF Init, RangeInv, ThreadRange

\* The locks of buckets that a table of hashpower h has.
LEMMA LockIndsRange ==
  ASSUME NEW h \in 0 .. MaxHp, NEW B \in SUBSET Buckets(h),
         NEW n \in Nat, LockCount(h) <= n
  PROVE  LockInds(B) \subseteq 0 .. n - 1
<1> SUFFICES ASSUME NEW b \in B PROVE LockInd(b) \in 0 .. n - 1
  BY DEF LockInds
<1>1. HashSize(h) \in Nat /\ b \in Nat /\ b < HashSize(h)
  BY HashSizeFacts DEF Buckets
<1>2. LockInd(b) \in 0 .. MaxNumLocks - 1 /\ LockInd(b) <= b
  BY <1>1, LockIndType, LockIndBelow
<1> QED BY <1>1, <1>2 DEF LockCount

\* What TypeOK says of the threads' locals.
LEMMA PerThread ==
  ASSUME TypeOK
  PROVE  /\ pc      \in [Threads -> PCs]
         /\ snap    \in [Threads -> 0 .. MaxHp]
         /\ buckets \in [Threads -> SUBSET Buckets(MaxHp)]
         /\ todo    \in [Threads -> SUBSET (0 .. MaxNumLocks - 1)]
         /\ held    \in [Threads -> SUBSET Locks]
BY DEF TypeOK

\* The size of the current lock list.
LEMMA LastSizeType ==
  ASSUME TypeOK
  PROVE  LastSize \in 1 .. MaxNumLocks
BY ListsType DEF LastSize

\* maybe_resize_locks keeps the lists there are and makes the last one big
\* enough.
LEMMA GrowLocksRange ==
  ASSUME TypeOK, NEW t \in Threads, NEW h \in 0 .. MaxHp, GrowLocks(t, h)
  PROVE  /\ LastSize' >= LastSize
         /\ LastSize' >= LockCount(h)
         /\ LastSize' \in Nat
         /\ \A n \in 1 .. Len(lists) : lists'[n] = lists[n]
<1>0. LockCount(h) \in 1 .. MaxNumLocks /\ LastSize \in 1 .. MaxNumLocks
  BY HashSizeFacts, LastSizeType
<1>1. CASE lists[Len(lists)] < LockCount(h)
  <2> DEFINE n == LockCount(h)
  <2>1. lists' = Append(lists, n)
    BY <1>1 DEF GrowLocks
  <2>2. n \in 1 .. MaxNumLocks
    BY <1>0
  <2> HIDE DEF n
  <2>3. /\ LastSize' = n
        /\ \A i \in 1 .. Len(lists) : lists'[i] = lists[i]
    BY <2>1, <2>2, ListsType DEF LastSize
  <2>4. LastSize < n
    BY <1>1 DEF LastSize, n
  <2>5. LastSize' >= LastSize /\ LastSize' \in Nat
    BY <1>0, <2>2, <2>3, <2>4
  <2> QED BY <2>2, <2>3, <2>5 DEF n
<1>2. CASE ~(lists[Len(lists)] < LockCount(h))
  <2>1. UNCHANGED lists
    BY <1>2 DEF GrowLocks
  <2> QED BY <1>0, <1>2, <2>1 DEF LastSize
<1> QED BY <1>1, <1>2

\* What the other threads have at hand stays in range while the last lock
\* list only gets bigger.
LEMMA RangeFrame ==
  ASSUME TypeOK, RangeInv, NEW t \in Threads,
         LastSize' \in Nat, LastSize' >= LastSize,
         \A n \in 1 .. Len(lists) : lists'[n] = lists[n],
         LockCount(hp') <= LastSize', LockCount(oldHp') <= LastSize',
         ThreadRange(t)',
         \A u \in Threads \ {t} :
           UNCHANGED <<pc[u], snap[u], buckets[u], goal[u], todo[u], cur[u]>>
  PROVE  RangeInv'
<1>1. LastSize \in Nat
  BY LastSizeType
<1>2. ASSUME NEW h \in 0 .. MaxHp, LockCount(h) <= LastSize
      PROVE  LockCount(h) <= LastSize'
  BY <1>1, <1>2, HashSizeFacts
<1>3. ASSUME NEW u \in Threads \ {t} PROVE ThreadRange(u)'
  <2>1. /\ snap[u] \in 0 .. MaxHp /\ goal[u] \in 0 .. MaxHp
        /\ cur[u] \in 1 .. Len(lists)
    BY DEF TypeOK
  <2>2. ThreadRange(u)
    BY DEF RangeInv
  <2>3. UNCHANGED <<pc[u], snap[u], buckets[u], goal[u], todo[u], cur[u], lists[cur[u]]>>
    BY <2>1
  <2> QED BY <1>2, <2>1, <2>2, <2>3 DEF ThreadRange
<1>4. LockCount(InitHp) <= LastSize'
  BY <1>2 DEF RangeInv
<1> QED BY <1>3, <1>4 DEF RangeInv

\* A step that leaves the table alone disturbs only the thread that takes it.
LEMMA SameTableRange ==
  ASSUME TypeOK, RangeInv, NEW t \in Threads, UNCHANGED table, ThreadRange(t)',
         \A u \in Threads \ {t} :
           UNCHANGED <<pc[u], snap[u], buckets[u], goal[u], todo[u], cur[u]>>
  PROVE  RangeInv'
<1>1. UNCHANGED <<hp, oldHp, lists, LastSize>>
  BY DEF table, LastSize
<1>2. LastSize \in Nat
  BY LastSizeType
<1>3. LastSize' \in Nat /\ LastSize' >= LastSize
  BY <1>1, <1>2
<1> QED BY <1>1, <1>3, RangeFrame DEF RangeInv

\* A thread that is alone appends a list, or does not have to.
LEMMA GrownRange ==
  ASSUME TypeOK, RangeInv, NEW t \in Threads, NEW n \in 0 .. MaxHp,
         GrowLocks(t, n), goal'[t] = n, pc'[t] \in {"swap", "set"},
         UNCHANGED <<hp, oldHp, snap, buckets, cur, todo>>,
         \A u \in Threads \ {t} :
           UNCHANGED <<pc[u], snap[u], buckets[u], goal[u], todo[u], cur[u]>>
  PROVE  RangeInv'
<1>1. /\ LastSize' >= LastSize
      /\ LastSize' >= LockCount(n)
      /\ LastSize' \in Nat /\ LastSize \in Nat
      /\ \A i \in 1 .. Len(lists) : lists'[i] = lists[i]
  BY GrowLocksRange, LastSizeType
<1>2. \A h \in 0 .. MaxHp : LockCount(h) \in Nat
  BY HashSizeFacts
<1>3. hp \in 0 .. MaxHp /\ oldHp \in 0 .. MaxHp /\ snap[t] \in 0 .. MaxHp
  BY DEF TypeOK
<1>4. /\ LockCount(hp') <= LastSize'
      /\ LockCount(oldHp') <= LastSize'
      /\ LockCount(snap[t]) <= LastSize'
  <2>1. /\ LockCount(hp) <= LastSize
        /\ LockCount(oldHp) <= LastSize
        /\ LockCount(snap[t]) <= LastSize
    BY DEF RangeInv, ThreadRange
  <2> QED BY <1>1, <1>2, <1>3, <2>1
<1>5. LockCount(n) <= LastSize'
  BY <1>1, <1>2
<1>6. ThreadRange(t)'
  BY <1>4, <1>5 DEF ThreadRange, RangeInv
<1> QED BY <1>1, <1>4, <1>6, RangeFrame

\* A thread that is alone moves the hashpower.
LEMMA MovedRange ==
  ASSUME TypeOK, RangeInv, NEW t \in Threads,
         UNCHANGED <<lists, snap, buckets, cur, todo, goal>>,
         LockCount(hp') <= LastSize, LockCount(oldHp') <= LastSize,
         LockCount(goal[t]) <= LastSize,
         pc' \in {[pc EXCEPT ![t] = "set"], [pc EXCEPT ![t] = "alone"],
                  [pc EXCEPT ![t] = "finish"]}
  PROVE  RangeInv'
<1>1. LastSize' = LastSize /\ LastSize \in Nat
  BY LastSizeType DEF LastSize
<1>2. LastSize' \in Nat /\ LastSize' >= LastSize
  BY <1>1
<1>3. /\ pc'[t] \in {"set", "alone", "finish"}
      /\ \A u \in Threads \ {t} : pc'[u] = pc[u]
  BY DEF TypeOK
<1>4. ThreadRange(t)'
  BY <1>1, <1>3 DEF ThreadRange, RangeInv
<1>5. \A u \in Threads \ {t} :
        UNCHANGED <<pc[u], snap[u], buckets[u], goal[u], todo[u], cur[u]>>
  BY <1>3
<1>6. LockCount(hp') <= LastSize' /\ LockCount(oldHp') <= LastSize'
  BY <1>1
<1>7. \A n \in 1 .. Len(lists) : lists'[n] = lists[n]
  OBVIOUS
<1> QED BY <1>2, <1>4, <1>5, <1>6, <1>7, RangeFrame

\* Every step keeps the lists big enough.
LEMMA StepRange == TypeOK /\ RangeInv /\ [Next]_vars => RangeInv'
<1> SUFFICES ASSUME TypeOK, RangeInv, [Next]_vars PROVE RangeInv'
  OBVIOUS
<1> USE DEF locks, access, resize, Goto, Turn
<1>0. CASE UNCHANGED vars
  BY <1>0 DEF vars, table, RangeInv, ThreadRange, LastSize
<1>1. ASSUME NEW t \in Threads, Begin(t) PROVE RangeInv'
  <2>1. /\ UNCHANGED table
        /\ \A u \in Threads \ {t} :
             UNCHANGED <<pc[u], snap[u], buckets[u], goal[u], todo[u], cur[u]>>
    BY <1>1 DEF Begin, TypeOK
  <2>2. ThreadRange(t)'
    BY <1>1 DEF Begin, RangeInv, ThreadRange, TypeOK, LastSize, table
  <2> QED BY <2>1, <2>2, SameTableRange
<1>2. ASSUME NEW t \in Threads, Snapshot(t) PROVE RangeInv'
  <2>1. /\ UNCHANGED table
        /\ \A u \in Threads \ {t} :
             UNCHANGED <<pc[u], snap[u], buckets[u], goal[u], todo[u], cur[u]>>
    BY <1>2 DEF Snapshot, TypeOK
  <2>2. snap'[t] = hp /\ buckets'[t] \subseteq Buckets(hp) /\ pc'[t] = "get locks"
    BY <1>2, PerThread DEF Snapshot
  <2>3. UNCHANGED LastSize
    BY <2>1 DEF table, LastSize
  <2>4. ThreadRange(t)'
    BY <2>2, <2>3 DEF RangeInv, ThreadRange
  <2> QED BY <2>1, <2>4, SameTableRange
<1>3. ASSUME NEW t \in Threads, GetLocks(t) PROVE RangeInv'
  <2>1. /\ UNCHANGED table
        /\ \A u \in Threads \ {t} :
             UNCHANGED <<pc[u], snap[u], buckets[u], goal[u], todo[u], cur[u]>>
    BY <1>3 DEF GetLocks, TypeOK
  <2>2. LastSize \in Nat
    BY LastSizeType
  <2>7. snap[t] \in 0 .. MaxHp
    BY DEF TypeOK
  <2>6. /\ LockCount(snap[t]) <= LastSize
        /\ buckets[t] \in SUBSET Buckets(snap[t])
    BY DEF RangeInv, ThreadRange
  <2>3. LockInds(buckets[t]) \subseteq 0 .. LastSize - 1
    BY <2>2, <2>6, <2>7, LockIndsRange
  <2>4. /\ UNCHANGED <<snap, buckets, goal, lists>>
        /\ pc'[t] = "first"
        /\ todo'[t] = LockInds(buckets[t])
        /\ cur'[t] = Len(lists)
    BY <1>3 DEF GetLocks, TypeOK, table
  <2>5. ThreadRange(t)'
    BY <2>3, <2>4, <2>6 DEF ThreadRange, LastSize
  <2> QED BY <2>1, <2>5, SameTableRange
<1>4. ASSUME NEW t \in Threads, LockFirst(t) PROVE RangeInv'
  <2>1. /\ UNCHANGED table
        /\ \A u \in Threads \ {t} :
             UNCHANGED <<pc[u], snap[u], buckets[u], goal[u], todo[u], cur[u]>>
    BY <1>4 DEF LockFirst, TypeOK, LockLeast
  <2>2. todo'[t] \subseteq todo[t] /\ UNCHANGED <<snap, buckets, cur, goal>>
    BY <1>4, PerThread DEF LockFirst, LockLeast
  <2>3. ThreadRange(t)'
    BY <1>4, <2>1, <2>2
    DEF LockFirst, RangeInv, ThreadRange, TypeOK, LastSize, table
  <2> QED BY <2>1, <2>3, SameTableRange
<1>5. ASSUME NEW t \in Threads, CheckPasses(t) PROVE RangeInv'
  <2>1. /\ UNCHANGED table
        /\ \A u \in Threads \ {t} :
             UNCHANGED <<pc[u], snap[u], buckets[u], goal[u], todo[u], cur[u]>>
    BY <1>5 DEF CheckPasses, TypeOK
  <2>2. ThreadRange(t)'
    BY <1>5 DEF CheckPasses, RangeInv, ThreadRange, TypeOK, LastSize, table
  <2> QED BY <2>1, <2>2, SameTableRange
<1>6. ASSUME NEW t \in Threads, CheckFails(t) PROVE RangeInv'
  <2>1. /\ UNCHANGED table
        /\ \A u \in Threads \ {t} :
             UNCHANGED <<pc[u], snap[u], buckets[u], goal[u], todo[u], cur[u]>>
    BY <1>6 DEF CheckFails, TypeOK
  <2>2. ThreadRange(t)'
    BY <1>6 DEF CheckFails, RangeInv, ThreadRange, TypeOK, LastSize, table
  <2> QED BY <2>1, <2>2, SameTableRange
<1>7. ASSUME NEW t \in Threads, LockMore(t) PROVE RangeInv'
  <2>1. /\ UNCHANGED table
        /\ \A u \in Threads \ {t} :
             UNCHANGED <<pc[u], snap[u], buckets[u], goal[u], todo[u], cur[u]>>
    BY <1>7 DEF LockMore, TypeOK, LockLeast
  <2>2. todo'[t] \subseteq todo[t] /\ UNCHANGED <<snap, buckets, cur, goal>>
    BY <1>7, PerThread DEF LockMore, LockLeast
  <2>3. ThreadRange(t)'
    BY <1>7, <2>1, <2>2
    DEF LockMore, RangeInv, ThreadRange, TypeOK, LastSize, table
  <2> QED BY <2>1, <2>3, SameTableRange
<1>8. ASSUME NEW t \in Threads, KeepTwo(t) PROVE RangeInv'
  <2>1. /\ UNCHANGED table
        /\ \A u \in Threads \ {t} :
             UNCHANGED <<pc[u], snap[u], buckets[u], goal[u], todo[u], cur[u]>>
    BY <1>8 DEF KeepTwo, TypeOK
  <2>2. /\ buckets'[t] \subseteq buckets[t]
        /\ UNCHANGED <<snap, pc, cur, todo, goal>>
    BY <1>8, PerThread DEF KeepTwo
  <2>3. ThreadRange(t)'
    BY <2>1, <2>2 DEF RangeInv, ThreadRange, LastSize, table
  <2> QED BY <2>1, <2>3, SameTableRange
<1>9. ASSUME NEW t \in Threads, Release(t) PROVE RangeInv'
  <2>1. /\ UNCHANGED table
        /\ \A u \in Threads \ {t} :
             UNCHANGED <<pc[u], snap[u], buckets[u], goal[u], todo[u], cur[u]>>
    BY <1>9 DEF Release, TypeOK
  <2>2. ThreadRange(t)'
    BY <1>9 DEF Release, RangeInv, ThreadRange, TypeOK, LastSize, table
  <2> QED BY <2>1, <2>2, SameTableRange
<1>10. ASSUME NEW t \in Threads, Return(t) PROVE RangeInv'
  <2>1. /\ UNCHANGED table
        /\ \A u \in Threads \ {t} :
             UNCHANGED <<pc[u], snap[u], buckets[u], goal[u], todo[u], cur[u]>>
    BY <1>10 DEF Return, TypeOK, Leave
  <2>2. snap'[t] = InitHp /\ buckets'[t] = {} /\ pc'[t] = "idle"
    BY <1>10 DEF Return, Leave, TypeOK
  <2>3. ThreadRange(t)'
    BY <2>1, <2>2 DEF RangeInv, ThreadRange, LastSize, table
  <2> QED BY <2>1, <2>3, SameTableRange
<1>11. ASSUME NEW t \in Threads, Cuckoo(t) PROVE RangeInv'
  <2>1. /\ UNCHANGED table
        /\ \A u \in Threads \ {t} :
             UNCHANGED <<pc[u], snap[u], buckets[u], goal[u], todo[u], cur[u]>>
    BY <1>11 DEF Cuckoo, TypeOK
  <2>2. /\ buckets'[t] \subseteq Buckets(snap[t])
        /\ UNCHANGED snap
        /\ pc'[t] = "get locks"
    BY <1>11, PerThread DEF Cuckoo
  <2>3. ThreadRange(t)'
    BY <2>1, <2>2 DEF RangeInv, ThreadRange, LastSize, table
  <2> QED BY <2>1, <2>3, SameTableRange
<1>12. ASSUME NEW t \in Threads, TableFull(t) PROVE RangeInv'
  <2>1. /\ UNCHANGED table
        /\ \A u \in Threads \ {t} :
             UNCHANGED <<pc[u], snap[u], buckets[u], goal[u], todo[u], cur[u]>>
    BY <1>12 DEF TableFull, TypeOK
  <2>2. ThreadRange(t)'
    BY <1>12 DEF TableFull, RangeInv, ThreadRange, TypeOK, LastSize, table
  <2> QED BY <2>1, <2>2, SameTableRange
<1>13. ASSUME NEW t \in Threads, Rehash(t) PROVE RangeInv'
  <2>1. /\ UNCHANGED table
        /\ \A u \in Threads \ {t} :
             UNCHANGED <<pc[u], snap[u], buckets[u], goal[u], todo[u], cur[u]>>
    BY <1>13 DEF Rehash, TypeOK
  <2>2. ThreadRange(t)'
    BY <1>13 DEF Rehash, RangeInv, ThreadRange, TypeOK, LastSize, table
  <2> QED BY <2>1, <2>2, SameTableRange
<1>14. ASSUME NEW t \in Threads, LockTable(t) PROVE RangeInv'
  <2>1. /\ UNCHANGED table
        /\ \A u \in Threads \ {t} :
             UNCHANGED <<pc[u], snap[u], buckets[u], goal[u], todo[u], cur[u]>>
    BY <1>14 DEF LockTable, TypeOK
  <2>2. ThreadRange(t)'
    BY <1>14 DEF LockTable, RangeInv, ThreadRange, TypeOK, LastSize, table
  <2> QED BY <2>1, <2>2, SameTableRange
<1>15. ASSUME NEW t \in Threads, LockAll(t) PROVE RangeInv'
  <2>1. /\ UNCHANGED table
        /\ \A u \in Threads \ {t} :
             UNCHANGED <<pc[u], snap[u], buckets[u], goal[u], todo[u], cur[u]>>
    BY <1>15 DEF LockAll, TypeOK
  <2>2. ThreadRange(t)'
    BY <1>15 DEF LockAll, RangeInv, ThreadRange, TypeOK, LastSize, table
  <2> QED BY <2>1, <2>2, SameTableRange
<1>16. ASSUME NEW t \in Threads, LockAllStep(t) PROVE RangeInv'
  <2>1. /\ UNCHANGED table
        /\ \A u \in Threads \ {t} :
             UNCHANGED <<pc[u], snap[u], buckets[u], goal[u], todo[u], cur[u]>>
    BY <1>16 DEF LockAllStep, TypeOK, LockLeast
  <2>2. todo'[t] \subseteq todo[t] /\ UNCHANGED <<snap, buckets, cur, goal>>
    BY <1>16, PerThread DEF LockAllStep, LockLeast
  <2>3. ThreadRange(t)'
    BY <1>16, <2>1, <2>2
    DEF LockAllStep, RangeInv, ThreadRange, TypeOK, LastSize, table
  <2> QED BY <2>1, <2>3, SameTableRange
<1>17. ASSUME NEW t \in Threads, LockAllNext(t) PROVE RangeInv'
  <2>1. /\ UNCHANGED table
        /\ \A u \in Threads \ {t} :
             UNCHANGED <<pc[u], snap[u], buckets[u], goal[u], todo[u], cur[u]>>
    BY <1>17 DEF LockAllNext, TypeOK
  <2>2. ThreadRange(t)'
    BY <1>17 DEF LockAllNext, RangeInv, ThreadRange, TypeOK, LastSize, table
  <2> QED BY <2>1, <2>2, SameTableRange
<1>18. ASSUME NEW t \in Threads, LockAllDone(t) PROVE RangeInv'
  <2>1. /\ UNCHANGED table
        /\ \A u \in Threads \ {t} :
             UNCHANGED <<pc[u], snap[u], buckets[u], goal[u], todo[u], cur[u]>>
    BY <1>18 DEF LockAllDone, TypeOK
  <2>2. ThreadRange(t)'
    BY <1>18 DEF LockAllDone, RangeInv, ThreadRange, TypeOK, LastSize, table
  <2> QED BY <2>1, <2>2, SameTableRange
<1>19. ASSUME NEW t \in Threads, Overtaken(t) PROVE RangeInv'
  <2>1. /\ UNCHANGED table
        /\ \A u \in Threads \ {t} :
             UNCHANGED <<pc[u], snap[u], buckets[u], goal[u], todo[u], cur[u]>>
    BY <1>19 DEF Overtaken, TypeOK
  <2>2. ThreadRange(t)'
    BY <1>19 DEF Overtaken, RangeInv, ThreadRange, TypeOK, LastSize, table
  <2> QED BY <2>1, <2>2, SameTableRange
<1>20. ASSUME NEW t \in Threads, Refused(t) PROVE RangeInv'
  <2>1. /\ UNCHANGED table
        /\ \A u \in Threads \ {t} :
             UNCHANGED <<pc[u], snap[u], buckets[u], goal[u], todo[u], cur[u]>>
    BY <1>20 DEF Refused, TypeOK
  <2>2. ThreadRange(t)'
    BY <1>20 DEF Refused, RangeInv, ThreadRange, TypeOK, LastSize, table
  <2> QED BY <2>1, <2>2, SameTableRange
<1>21. ASSUME NEW t \in Threads, FastDouble(t) PROVE RangeInv'
  <2>1. PICK n \in 0 .. MaxHp : goal' = [goal EXCEPT ![t] = n] /\ GrowLocks(t, n)
    <3>1. hp \in 0 .. MaxHp /\ hp < MaxHp
      BY <1>21 DEF FastDouble, TypeOK
    <3>2. hp + 1 \in 0 .. MaxHp
      BY <3>1
    <3> QED BY <1>21, <3>2 DEF FastDouble
  <2>2. /\ UNCHANGED <<hp, oldHp, snap, buckets, cur, todo>>
        /\ pc' = [pc EXCEPT ![t] = "swap"]
    BY <1>21 DEF FastDouble
  <2> USE DEF TypeOK
  <2>3. \A u \in Threads \ {t} :
          UNCHANGED <<pc[u], snap[u], buckets[u], goal[u], todo[u], cur[u]>>
    BY <2>1, <2>2
  <2>4. pc'[t] = "swap" /\ goal'[t] = n
    BY <2>1, <2>2
  <2> QED BY <2>1, <2>2, <2>3, <2>4, GrownRange
<1>22. ASSUME NEW t \in Threads, ExpandSimple(t) PROVE RangeInv'
  <2>1. PICK n \in 0 .. MaxHp : goal' = [goal EXCEPT ![t] = n] /\ GrowLocks(t, n)
    <3>1. goal[t] \in 0 .. MaxHp
      BY DEF TypeOK
    <3> QED BY <1>22, <3>1 DEF ExpandSimple
  <2>2. /\ UNCHANGED <<hp, oldHp, snap, buckets, cur, todo>>
        /\ pc' = [pc EXCEPT ![t] = "set"]
    BY <1>22 DEF ExpandSimple
  <2> USE DEF TypeOK
  <2>3. \A u \in Threads \ {t} :
          UNCHANGED <<pc[u], snap[u], buckets[u], goal[u], todo[u], cur[u]>>
    BY <2>1, <2>2
  <2>4. pc'[t] = "set" /\ goal'[t] = n
    BY <2>1, <2>2
  <2> QED BY <2>1, <2>2, <2>3, <2>4, GrownRange
<1>23. ASSUME NEW t \in Threads, SwapBuckets(t) PROVE RangeInv'
  <2>1. /\ UNCHANGED <<lists, snap, buckets, cur, todo, goal>>
        /\ hp' = oldHp /\ oldHp' = hp
        /\ pc' = [pc EXCEPT ![t] = "set"]
        /\ pc[t] = "swap"
    BY <1>23 DEF SwapBuckets
  <2>2. LockCount(goal[t]) <= LastSize
    BY <2>1 DEF RangeInv, ThreadRange
  <2> QED BY <2>1, <2>2, MovedRange DEF RangeInv
<1>24. ASSUME NEW t \in Threads, SetHashpower(t) PROVE RangeInv'
  <2>1. /\ UNCHANGED <<lists, oldHp, snap, buckets, cur, todo, goal>>
        /\ hp' = goal[t]
        /\ pc' \in {[pc EXCEPT ![t] = "alone"], [pc EXCEPT ![t] = "finish"]}
        /\ pc[t] = "set"
    BY <1>24 DEF SetHashpower
  <2>2. LockCount(goal[t]) <= LastSize
    BY <2>1 DEF RangeInv, ThreadRange
  <2> QED BY <2>1, <2>2, MovedRange DEF RangeInv
<1>25. ASSUME NEW t \in Threads, UnlockAll(t) PROVE RangeInv'
  <2>1. /\ UNCHANGED table
        /\ \A u \in Threads \ {t} :
             UNCHANGED <<pc[u], snap[u], buckets[u], goal[u], todo[u], cur[u]>>
    BY <1>25 DEF UnlockAll, TypeOK
  <2>2. ThreadRange(t)'
    BY <1>25 DEF UnlockAll, RangeInv, ThreadRange, TypeOK, LastSize, table
  <2> QED BY <2>1, <2>2, SameTableRange
<1>26. ASSUME NEW t \in Threads, UnlockStep(t) PROVE RangeInv'
  <2>1. /\ UNCHANGED table
        /\ \A u \in Threads \ {t} :
             UNCHANGED <<pc[u], snap[u], buckets[u], goal[u], todo[u], cur[u]>>
    BY <1>26 DEF UnlockStep, TypeOK
  <2>2. ThreadRange(t)'
    BY <1>26 DEF UnlockStep, RangeInv, ThreadRange, TypeOK, LastSize, table
  <2> QED BY <2>1, <2>2, SameTableRange
<1>27. ASSUME NEW t \in Threads, UnlockNext(t) PROVE RangeInv'
  <2>1. /\ UNCHANGED table
        /\ \A u \in Threads \ {t} :
             UNCHANGED <<pc[u], snap[u], buckets[u], goal[u], todo[u], cur[u]>>
    BY <1>27 DEF UnlockNext, TypeOK
  <2>2. ThreadRange(t)'
    BY <1>27 DEF UnlockNext, RangeInv, ThreadRange, TypeOK, LastSize, table
  <2> QED BY <2>1, <2>2, SameTableRange
<1>28. ASSUME NEW t \in Threads, UnlockDone(t) PROVE RangeInv'
  <2>1. CASE job[t] \in {"double", "expand"}
    <3>1. /\ UNCHANGED table
          /\ \A u \in Threads \ {t} :
               UNCHANGED <<pc[u], snap[u], buckets[u], goal[u], todo[u], cur[u]>>
      BY <1>28, <2>1 DEF UnlockDone, TypeOK
    <3>2. ThreadRange(t)'
      BY <1>28, <2>1
      DEF UnlockDone, RangeInv, ThreadRange, TypeOK, LastSize, table
    <3> QED BY <3>1, <3>2, SameTableRange
  <2>2. CASE job[t] \notin {"double", "expand"}
    <3>1. /\ UNCHANGED table
          /\ \A u \in Threads \ {t} :
               UNCHANGED <<pc[u], snap[u], buckets[u], goal[u], todo[u], cur[u]>>
      BY <1>28, <2>2 DEF UnlockDone, Leave, TypeOK
    <3>2. snap'[t] = InitHp /\ buckets'[t] = {} /\ pc'[t] = "idle"
      BY <1>28, <2>2, PerThread DEF UnlockDone, Leave
    <3>3. ThreadRange(t)'
      BY <3>1, <3>2 DEF RangeInv, ThreadRange, LastSize, table
    <3> QED BY <3>1, <3>3, SameTableRange
  <2> QED BY <2>1, <2>2
<1> QED
  BY <1>0, <1>1, <1>2, <1>3, <1>4, <1>5, <1>6, <1>7, <1>8, <1>9, <1>10, <1>11,
     <1>12, <1>13, <1>14, <1>15, <1>16, <1>17, <1>18, <1>19, <1>20, <1>21,
     <1>22, <1>23, <1>24, <1>25, <1>26, <1>27, <1>28
  DEF Next, Access, Resize

-----------------------------------------------------------------------------
(* The theorems.                                                           *)

\* Every variable has its type in every execution.
THEOREM TypeCorrect == Spec => []TypeOK
<1>1. Init => TypeOK
  BY InitType
<1>2. TypeOK /\ [Next]_vars => TypeOK'
  BY StepType
<1> QED BY <1>1, <1>2, PTL DEF Spec

\* The lock lists are big enough for the hashpower in every execution.
THEOREM ListsBigEnough == Spec => []RangeInv
<1>1. Init => RangeInv
  BY InitRange
<1>2. TypeOK /\ RangeInv /\ [Next]_vars => RangeInv'
  BY StepRange
<1> QED BY <1>1, <1>2, TypeCorrect, PTL DEF Spec

\* No thread indexes a lock list out of bounds, whatever the sizes, the
\* number of threads and the races among them.
THEOREM IndicesInRange == Spec => []LockIndexInRange
<1>1. RangeInv => LockIndexInRange
  BY DEF RangeInv, ThreadRange, LockIndexInRange
<1> QED BY <1>1, ListsBigEnough, PTL
=============================================================================
