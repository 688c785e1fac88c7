-------------------------- MODULE CuckooLocksProofs -------------------------
(***************************************************************************)
(* Exclusion in CuckooLocks, for a map constructed with at least as many   *)
(* buckets as there may be locks.  A map constructed with the default size *)
(* has exactly that many.  Its one lock list is never replaced, so that a  *)
(* bucket has one lock for good; in a smaller map the lists come apart, as *)
(* the run locks_transient shows.                                          *)
(***************************************************************************)
EXTENDS CuckooLocksTypes, FiniteSetTheorems

USE CuckooLocksAssumption DEF PCs, JobSet

DefaultSize == HashSize(InitHp) >= MaxNumLocks

\* The lock indices of the one list, and the locks at some of them.
AllIndices == 0 .. MaxNumLocks - 1
At(I) == {1} \X I

(* What a thread's place in the code says of the locks it has.             *)
ThreadInv(t) ==
  /\ pc[t] \in {"idle", "snapshot", "get locks", "first", "released", "lock all"} =>
       held[t] = {}
  /\ pc[t] = "first" => todo[t] = LockInds(buckets[t])
  /\ pc[t] \in {"check", "more", "using"} =>
       /\ todo[t] \subseteq LockInds(buckets[t])
       /\ held[t] = At(LockInds(buckets[t]) \ todo[t])
       /\ held[t] # {}
  /\ pc[t] \in {"more", "using"} => snap[t] = hp
  /\ pc[t] = "using" => todo[t] = {}
  /\ pc[t] = "locking" => held[t] = At(AllIndices \ todo[t])
  /\ pc[t] \in Alone => held[t] = At(AllIndices)
  /\ pc[t] = "unlocking" => held[t] = At(todo[t])

(* A lock that is set belongs to exactly one thread.                       *)
OwnerInv ==
  /\ \A t \in Threads : held[t] \subseteq locked
  /\ \A k \in locked : \E t \in Threads : k \in held[t]
  /\ \A t, u \in Threads : t # u => held[t] \intersect held[u] = {}

ExclusionInv ==
  /\ lists = <<MaxNumLocks>>
  /\ OwnerInv
  /\ \A t \in Threads : ThreadInv(t)

\* The invariant holds in a map constructed with at least the default size.
LEMMA InitExclusion == DefaultSize /\ Init => ExclusionInv
<1> SUFFICES ASSUME DefaultSize, Init PROVE ExclusionInv
  OBVIOUS
<1>1. lists = <<MaxNumLocks>>
  <2>1. HashSize(InitHp) \in Nat
    BY HashSizeFacts
  <2>2. LockCount(InitHp) = MaxNumLocks
    BY <2>1 DEF DefaultSize, LockCount
  <2> QED BY <2>2 DEF Init
<1>2. OwnerInv
  BY DEF Init, OwnerInv
<1>3. \A t \in Threads : ThreadInv(t)
  BY DEF Init, ThreadInv, Alone
<1> QED BY <1>1, <1>2, <1>3 DEF ExclusionInv

\* There is one lock list, and nobody appends another.
LEMMA OneList ==
  ASSUME TypeOK, ExclusionInv
  PROVE  /\ Len(lists) = 1 /\ lists[1] = MaxNumLocks
         /\ \A t \in Threads : cur[t] = 1 /\ first[t] = 1
         /\ Locks = At(AllIndices)
<1>1. Len(lists) = 1 /\ lists[1] = MaxNumLocks
  BY DEF ExclusionInv
<1>2. \A t \in Threads : cur[t] \in 1 .. Len(lists) /\ first[t] \in 1 .. Len(lists)
  BY DEF TypeOK
<1>3. \A n \in 1 .. 1 : n = 1
  OBVIOUS
<1>4. 1 .. 1 = {1}
  OBVIOUS
<1> QED BY <1>1, <1>2, <1>3, <1>4 DEF Locks, At, AllIndices

\* maybe_resize_locks has nothing to do: the one list is as long as may be.
LEMMA NoNewList ==
  ASSUME TypeOK, ExclusionInv, NEW t \in Threads, NEW h \in 0 .. MaxHp, GrowLocks(t, h)
  PROVE  UNCHANGED <<lists, locked, held>>
<1>1. LockCount(h) \in 1 .. MaxNumLocks
  BY HashSizeFacts
<1>2. ~(lists[Len(lists)] < LockCount(h))
  <2>1. lists[Len(lists)] = MaxNumLocks
    BY OneList
  <2> QED BY <1>1, <2>1
<1> QED BY <1>2 DEF GrowLocks, locks

\* A set of three is more than one bucket.
LEMMA SingleBucket ==
  ASSUME NEW S, NEW b, Cardinality(S) = 3, b \in S
  PROVE  S \ {b} # {}
<1> SUFFICES ASSUME S = {b} PROVE FALSE
  OBVIOUS
<1>1. Cardinality({b}) = 1
  BY FS_Singleton
<1> QED BY <1>1

\* Ownership is kept by the three things that happen to locks.
LEMMA OwnerSame ==
  ASSUME OwnerInv, UNCHANGED <<locked, held>>
  PROVE  OwnerInv'
BY DEF OwnerInv

\* A thread takes a free lock.
LEMMA OwnerLock ==
  ASSUME TypeOK, OwnerInv, NEW t \in Threads, NEW k, k \notin locked,
         locked' = locked \union {k},
         held' = [held EXCEPT ![t] = @ \union {k}]
  PROVE  OwnerInv'
<1>1. held \in [Threads -> SUBSET Locks]
  BY DEF TypeOK
<1>2. \A u \in Threads : held'[u] = IF u = t THEN held[t] \union {k} ELSE held[u]
  BY <1>1
<1> QED BY <1>2 DEF OwnerInv

\* A thread gives back locks of its own.
LEMMA OwnerUnlock ==
  ASSUME TypeOK, OwnerInv, NEW t \in Threads, NEW L, L \subseteq held[t], Unlock(t, L)
  PROVE  OwnerInv'
<1>1. held \in [Threads -> SUBSET Locks]
  BY DEF TypeOK
<1>2. \A u \in Threads : held'[u] = IF u = t THEN held[t] \ L ELSE held[u]
  BY <1>1 DEF Unlock
<1>3. locked' = locked \ L
  BY DEF Unlock
<1> QED BY <1>2, <1>3 DEF OwnerInv

\* A step of t that leaves the hashpower alone does not disturb the others.
LEMMA ExclusionFrame ==
  ASSUME ExclusionInv, NEW t \in Threads, UNCHANGED <<hp, lists>>,
         OwnerInv', ThreadInv(t)',
         \A u \in Threads \ {t} :
           UNCHANGED <<pc[u], snap[u], buckets[u], todo[u], held[u]>>
  PROVE  ExclusionInv'
<1>1. ASSUME NEW u \in Threads \ {t} PROVE ThreadInv(u)'
  BY ZenonT(40) DEF ExclusionInv, ThreadInv
<1> QED BY <1>1 DEF ExclusionInv

\* When one thread has all the locks, no other thread has one.
LEMMA AloneHasAll ==
  ASSUME TypeOK, ExclusionInv, NEW t \in Threads, pc[t] \in Alone,
         NEW u \in Threads \ {t}
  PROVE  held[u] = {}
<1>1. held[t] = At(AllIndices)
  BY DEF ExclusionInv, ThreadInv
<1>2. held[u] \subseteq At(AllIndices)
  BY OneList, PerThread
<1>3. held[t] \intersect held[u] = {}
  BY DEF ExclusionInv, OwnerInv
<1> QED BY <1>1, <1>2, <1>3

\* LockLeast takes a lock that nobody has.
LEMMA LeastLock ==
  ASSUME TypeOK, ExclusionInv, NEW t \in Threads, LockLeast(t)
  PROVE  \E l \in todo[t] :
           /\ held'[t] = held[t] \union At({l})
           /\ todo'[t] = todo[t] \ {l}
           /\ \A u \in Threads \ {t} : UNCHANGED <<held[u], todo[u]>>
           /\ OwnerInv'
<1>1. PICK l \in todo[t] :
        /\ <<cur[t], l>> \notin locked
        /\ locked' = locked \union {<<cur[t], l>>}
        /\ held'   = [held EXCEPT ![t] = @ \union {<<cur[t], l>>}]
        /\ todo'   = [todo EXCEPT ![t] = @ \ {l}]
  BY DEF LockLeast
<1>2. cur[t] = 1 /\ At({l}) = {<<cur[t], l>>}
  BY OneList DEF At
<1>3. OwnerInv'
  BY <1>1, OwnerLock DEF ExclusionInv
<1>4. /\ held'[t] = held[t] \union At({l})
      /\ todo'[t] = todo[t] \ {l}
      /\ \A u \in Threads \ {t} : UNCHANGED <<held[u], todo[u]>>
  BY <1>1, <1>2, PerThread
<1> QED BY <1>1, <1>3, <1>4

\* Locks at indices.
LEMMA AtFacts ==
  /\ At({}) = {}
  /\ \A I : At(I) = {} => I = {}
  /\ \A I : I \ {} = I /\ I \ I = {}
  /\ \A I, J : At(I \ J) = At(I) \ At(J)
  /\ \A I, J : J \subseteq I => At(J) \subseteq At(I)
  /\ \A I, J, l : J \subseteq I /\ l \in J =>
       At(I \ (J \ {l})) = At(I \ J) \union At({l})
<1>1. At({}) = {} /\ \A I : At(I) = {} => I = {}
  <2>1. At({}) = {}
    BY DEF At
  <2>2. ASSUME NEW I, NEW l \in I PROVE At(I) # {}
    <3>1. <<1, l>> \in At(I)
      BY <2>2 DEF At
    <3> QED BY <3>1
  <2> QED BY <2>1, <2>2
<1>2. \A I : I \ {} = I /\ I \ I = {}
  OBVIOUS
<1>3. \A I, J : At(I \ J) = At(I) \ At(J)
  BY DEF At
<1>4. \A I, J : J \subseteq I => At(J) \subseteq At(I)
  BY DEF At
<1>5. \A I, J, l : J \subseteq I /\ l \in J =>
        At(I \ (J \ {l})) = At(I \ J) \union At({l})
  <2> TAKE I, J, l
  <2> HAVE J \subseteq I /\ l \in J
  <2>1. I \ (J \ {l}) = (I \ J) \union {l}
    OBVIOUS
  <2>2. \A A, B : At(A \union B) = At(A) \union At(B)
    BY DEF At
  <2>3. At((I \ J) \union {l}) = At(I \ J) \union At({l})
    BY <2>2, Zenon
  <2> QED BY <2>1, <2>3
<1> QED BY <1>1, <1>2, <1>3, <1>4, <1>5, Zenon

\* A step of t that leaves locks and hashpower alone.
LEMMA QuietStep ==
  ASSUME ExclusionInv, NEW t \in Threads, UNCHANGED <<hp, lists, locked, held>>,
         ThreadInv(t)',
         \A u \in Threads \ {t} : UNCHANGED <<pc[u], snap[u], buckets[u], todo[u]>>
  PROVE  ExclusionInv'
BY OwnerSame, ExclusionFrame DEF ExclusionInv

\* A thread that is alone moves the hashpower: no other thread has a lock, so
\* none depends on it.
LEMMA MovedStep ==
  ASSUME TypeOK, ExclusionInv, NEW t \in Threads, pc[t] \in Alone, pc'[t] \in Alone,
         UNCHANGED <<lists, locked, held, snap, buckets, todo>>,
         \A u \in Threads \ {t} : UNCHANGED pc[u]
  PROVE  ExclusionInv'
<1>1. ASSUME NEW u \in Threads \ {t} PROVE ThreadInv(u)'
  BY AloneHasAll DEF ExclusionInv, ThreadInv
<1>2. ThreadInv(t)'
  BY DEF ExclusionInv, ThreadInv, Alone
<1> QED BY <1>1, <1>2, OwnerSame DEF ExclusionInv

\* Every step keeps the invariant.
LEMMA StepExclusion ==
  TypeOK /\ RangeInv /\ ExclusionInv /\ [Next]_vars => ExclusionInv'
<1> SUFFICES ASSUME TypeOK, RangeInv, ExclusionInv, [Next]_vars PROVE ExclusionInv'
  OBVIOUS
<1> USE DEF Goto
<1>0. CASE UNCHANGED vars
  BY <1>0
  DEF vars, table, locks, access, resize, ExclusionInv, OwnerInv, ThreadInv
<1>1. ASSUME NEW t \in Threads, Begin(t) PROVE ExclusionInv'
  <2>1. /\ UNCHANGED <<hp, lists, locked, held>>
        /\ \A u \in Threads \ {t} : UNCHANGED <<pc[u], snap[u], buckets[u], todo[u]>>
    BY <1>1, PerThread DEF Begin, table, locks, access, resize
  <2>2. ThreadInv(t)'
    BY <1>1, <2>1, PerThread, OneList, AtFacts, ZenonT(40)
    DEF Begin, ThreadInv, ExclusionInv, Alone, AllIndices, access
  <2> QED BY <2>1, <2>2, QuietStep
<1>2. ASSUME NEW t \in Threads, Snapshot(t) PROVE ExclusionInv'
  <2>1. /\ UNCHANGED <<hp, lists, locked, held>>
        /\ \A u \in Threads \ {t} : UNCHANGED <<pc[u], snap[u], buckets[u], todo[u]>>
    BY <1>2, PerThread DEF Snapshot, table, locks, access, resize
  <2>2. ThreadInv(t)'
    BY <1>2, <2>1, PerThread, OneList, AtFacts, ZenonT(40)
    DEF Snapshot, ThreadInv, ExclusionInv, Alone, AllIndices, access
  <2> QED BY <2>1, <2>2, QuietStep
<1>3. ASSUME NEW t \in Threads, GetLocks(t) PROVE ExclusionInv'
  <2>1. /\ UNCHANGED <<hp, lists, locked, held>>
        /\ \A u \in Threads \ {t} : UNCHANGED <<pc[u], snap[u], buckets[u], todo[u]>>
    BY <1>3, PerThread DEF GetLocks, table, locks, access, resize
  <2>2. ThreadInv(t)'
    BY <1>3, <2>1, PerThread, OneList, AtFacts, ZenonT(40)
    DEF GetLocks, ThreadInv, ExclusionInv, Alone, AllIndices, access
  <2> QED BY <2>1, <2>2, QuietStep
<1>4. ASSUME NEW t \in Threads, LockFirst(t) PROVE ExclusionInv'
  <2>1. LockLeast(t) /\ UNCHANGED <<hp, lists, snap, buckets>>
    BY <1>4 DEF LockFirst, table, access
  <2>2. PICK l \in todo[t] :
          /\ held'[t] = held[t] \union At({l})
          /\ todo'[t] = todo[t] \ {l}
          /\ \A u \in Threads \ {t} : UNCHANGED <<held[u], todo[u]>>
          /\ OwnerInv'
    BY <2>1, LeastLock
  <2>3. \A u \in Threads \ {t} : UNCHANGED pc[u]
    BY <1>4, PerThread DEF LockFirst
  <2>4. pc[t] = "first" /\ pc'[t] = "check"
    BY <1>4, PerThread DEF LockFirst
  <2> DEFINE W == LockInds(buckets[t])
  <2>5. todo[t] \subseteq W /\ held[t] = At(W \ todo[t])
    <3>1. todo[t] = W /\ held[t] = {}
      BY <2>4 DEF ThreadInv, ExclusionInv
    <3>2. At(W \ W) = {}
      BY AtFacts
    <3> QED BY <3>1, <3>2
  <2>6. held'[t] = At(W \ todo'[t]) /\ todo'[t] \subseteq W
    <3>1. At(W \ (todo[t] \ {l})) = At(W \ todo[t]) \union At({l})
      BY <2>5, AtFacts
    <3> QED BY <2>2, <2>5, <3>1
  <2>7. held'[t] # {}
    <3>1. At({l}) # {}
      BY AtFacts
    <3> QED BY <2>2, <3>1
  <2>8. ThreadInv(t)'
    BY <2>1, <2>4, <2>6, <2>7 DEF ThreadInv, ExclusionInv, Alone
  <2> QED BY <2>1, <2>2, <2>3, <2>8, ExclusionFrame
<1>5. ASSUME NEW t \in Threads, CheckPasses(t) PROVE ExclusionInv'
  <2>1. /\ UNCHANGED <<hp, lists, locked, held>>
        /\ \A u \in Threads \ {t} : UNCHANGED <<pc[u], snap[u], buckets[u], todo[u]>>
    BY <1>5, PerThread DEF CheckPasses, table, locks, access, resize
  <2>2. ThreadInv(t)'
    BY <1>5, <2>1, PerThread, OneList, AtFacts, ZenonT(40)
    DEF CheckPasses, ThreadInv, ExclusionInv, Alone, AllIndices, access
  <2> QED BY <2>1, <2>2, QuietStep
<1>6. ASSUME NEW t \in Threads, CheckFails(t) PROVE ExclusionInv'
  <2>1. OwnerInv'
    BY <1>6, OwnerUnlock DEF CheckFails, ExclusionInv
  <2>2. /\ UNCHANGED <<hp, lists>>
        /\ \A u \in Threads \ {t} :
             UNCHANGED <<pc[u], snap[u], buckets[u], todo[u], held[u]>>
        /\ held'[t] = {} /\ pc'[t] = "snapshot"
    BY <1>6, PerThread DEF CheckFails, Unlock, table, access
  <2>3. ThreadInv(t)'
    BY <2>2 DEF ThreadInv, Alone
  <2> QED BY <2>1, <2>2, <2>3, ExclusionFrame
<1>7. ASSUME NEW t \in Threads, LockMore(t) PROVE ExclusionInv'
  <2>1. LockLeast(t) /\ UNCHANGED <<hp, lists, snap, buckets>>
    BY <1>7 DEF LockMore, table, access
  <2>2. PICK l \in todo[t] :
          /\ held'[t] = held[t] \union At({l})
          /\ todo'[t] = todo[t] \ {l}
          /\ \A u \in Threads \ {t} : UNCHANGED <<held[u], todo[u]>>
          /\ OwnerInv'
    BY <2>1, LeastLock
  <2>3. \A u \in Threads \ {t} : UNCHANGED pc[u]
    BY <1>7, PerThread DEF LockMore
  <2>4. pc[t] = "more" /\ pc'[t] = (IF todo'[t] = {} THEN "using" ELSE "more")
    BY <1>7, PerThread DEF LockMore
  <2> DEFINE W == LockInds(buckets[t])
  <2>5. todo[t] \subseteq W /\ held[t] = At(W \ todo[t])
    BY <2>4 DEF ThreadInv, ExclusionInv
  <2>6. held'[t] = At(W \ todo'[t]) /\ todo'[t] \subseteq W
    <3>1. At(W \ (todo[t] \ {l})) = At(W \ todo[t]) \union At({l})
      BY <2>5, AtFacts
    <3> QED BY <2>2, <2>5, <3>1
  <2>7. held'[t] # {}
    <3>1. At({l}) # {}
      BY AtFacts
    <3> QED BY <2>2, <3>1
  <2>8. ThreadInv(t)'
    BY <2>1, <2>4, <2>6, <2>7 DEF ThreadInv, ExclusionInv, Alone
  <2> QED BY <2>1, <2>2, <2>3, <2>8, ExclusionFrame
<1>8. ASSUME NEW t \in Threads, KeepTwo(t) PROVE ExclusionInv'
  <2> DEFINE Rest(b) == buckets[t] \ {b}
  <2>1. PICK b \in buckets[t] :
          /\ pc[t] = "using" /\ Cardinality(buckets[t]) = 3
          /\ buckets' = [buckets EXCEPT ![t] = Rest(b)]
          /\ Unlock(t, {<<cur[t], l>> : l \in {LockInd(b)} \ LockInds(Rest(b))})
          /\ UNCHANGED <<hp, lists, snap, pc, todo>>
    BY <1>8 DEF KeepTwo, table
  <2> DEFINE Gone == {LockInd(b)} \ LockInds(Rest(b))
  <2>2. {<<cur[t], l>> : l \in Gone} = At(Gone)
    BY OneList DEF At
  <2>3. held[t] = At(LockInds(buckets[t])) /\ snap[t] = hp /\ todo[t] = {}
    <3>1. /\ held[t] = At(LockInds(buckets[t]) \ todo[t])
          /\ snap[t] = hp /\ todo[t] = {}
      BY <2>1 DEF ExclusionInv, ThreadInv
    <3> QED BY <3>1, AtFacts
  <2>4. LockInds(buckets[t]) \ Gone = LockInds(Rest(b))
    BY DEF LockInds
  <2>5. Gone \subseteq LockInds(buckets[t])
    BY DEF LockInds
  <2>6. At(Gone) \subseteq held[t]
    <3> HIDE DEF Gone
    <3>1. At(Gone) \subseteq At(LockInds(buckets[t]))
      BY <2>5, AtFacts
    <3> QED BY <2>3, <3>1
  <2>7. OwnerInv'
    BY <2>1, <2>2, <2>6, OwnerUnlock DEF ExclusionInv
  <2>8. held'[t] = At(LockInds(Rest(b))) /\ buckets'[t] = Rest(b)
    <3>1. held'[t] = held[t] \ At(Gone) /\ buckets'[t] = Rest(b)
      BY <2>1, <2>2, PerThread DEF Unlock
    <3>2. At(LockInds(buckets[t]) \ Gone) = At(LockInds(buckets[t])) \ At(Gone)
      <4> HIDE DEF Gone
      <4> QED BY AtFacts
    <3> QED BY <3>1, <3>2, <2>3, <2>4
  <2>9. Rest(b) # {}
    BY <2>1, SingleBucket
  <2>10. ThreadInv(t)'
    <3>1. LockInds(Rest(b)) # {}
      BY <2>9 DEF LockInds
    <3>2. held'[t] # {}
      <4> HIDE DEF Rest
      <4> QED BY <2>8, <3>1, AtFacts
    <3>3. held'[t] = At(LockInds(Rest(b)) \ {})
      BY <2>8, AtFacts
    <3> QED BY <2>1, <2>3, <2>8, <3>2, <3>3 DEF ThreadInv, Alone, ExclusionInv
  <2>11. \A u \in Threads \ {t} :
           UNCHANGED <<pc[u], snap[u], buckets[u], todo[u], held[u]>>
    BY <2>1, PerThread DEF Unlock
  <2> QED BY <2>1, <2>7, <2>10, <2>11, ExclusionFrame
<1>9. ASSUME NEW t \in Threads, Release(t) PROVE ExclusionInv'
  <2>1. PICK k \in held[t] :
          /\ Unlock(t, {k})
          /\ pc' = [pc EXCEPT ![t] = IF held[t] = {k} THEN "released" ELSE "release"]
          /\ UNCHANGED <<hp, lists, snap, buckets, todo>>
    BY <1>9 DEF Release, table, access
  <2>2. OwnerInv'
    BY <2>1, OwnerUnlock DEF ExclusionInv
  <2>3. /\ \A u \in Threads \ {t} :
             UNCHANGED <<pc[u], snap[u], buckets[u], todo[u], held[u]>>
        /\ held'[t] = held[t] \ {k}
        /\ pc'[t] = IF held[t] = {k} THEN "released" ELSE "release"
    BY <2>1, PerThread DEF Unlock
  <2>4. ThreadInv(t)'
    BY <2>3 DEF ThreadInv, Alone
  <2> QED BY <2>1, <2>2, <2>3, <2>4, ExclusionFrame
<1>10. ASSUME NEW t \in Threads, Return(t) PROVE ExclusionInv'
  <2>1. /\ UNCHANGED <<hp, lists, locked, held>>
        /\ \A u \in Threads \ {t} : UNCHANGED <<pc[u], snap[u], buckets[u], todo[u]>>
    BY <1>10, PerThread DEF Return, Leave, table, locks, access, resize
  <2>2. ThreadInv(t)'
    BY <1>10, <2>1, PerThread, OneList, AtFacts, ZenonT(40)
    DEF Return, Leave, ThreadInv, ExclusionInv, Alone, AllIndices, access
  <2> QED BY <2>1, <2>2, QuietStep
<1>11. ASSUME NEW t \in Threads, Cuckoo(t) PROVE ExclusionInv'
  <2>1. /\ UNCHANGED <<hp, lists, locked, held>>
        /\ \A u \in Threads \ {t} : UNCHANGED <<pc[u], snap[u], buckets[u], todo[u]>>
    BY <1>11, PerThread DEF Cuckoo, table, locks, access, resize
  <2>2. ThreadInv(t)'
    BY <1>11, <2>1, PerThread, OneList, AtFacts, ZenonT(40)
    DEF Cuckoo, ThreadInv, ExclusionInv, Alone, AllIndices, access
  <2> QED BY <2>1, <2>2, QuietStep
<1>12. ASSUME NEW t \in Threads, TableFull(t) PROVE ExclusionInv'
  <2>1. /\ UNCHANGED <<hp, lists, locked, held>>
        /\ \A u \in Threads \ {t} : UNCHANGED <<pc[u], snap[u], buckets[u], todo[u]>>
    BY <1>12, PerThread DEF TableFull, table, locks, access, resize
  <2>2. ThreadInv(t)'
    BY <1>12, <2>1, PerThread, OneList, AtFacts, ZenonT(40)
    DEF TableFull, ThreadInv, ExclusionInv, Alone, AllIndices, access
  <2> QED BY <2>1, <2>2, QuietStep
<1>13. ASSUME NEW t \in Threads, Rehash(t) PROVE ExclusionInv'
  <2>1. /\ UNCHANGED <<hp, lists, locked, held>>
        /\ \A u \in Threads \ {t} : UNCHANGED <<pc[u], snap[u], buckets[u], todo[u]>>
    BY <1>13, PerThread DEF Rehash, table, locks, access, resize
  <2>2. ThreadInv(t)'
    <3>1. held[t] = {} /\ pc'[t] = "lock all"
      BY <1>13, PerThread DEF Rehash, ThreadInv, ExclusionInv
    <3> QED BY <2>1, <3>1 DEF ThreadInv, Alone
  <2> QED BY <2>1, <2>2, QuietStep
<1>14. ASSUME NEW t \in Threads, LockTable(t) PROVE ExclusionInv'
  <2>1. /\ UNCHANGED <<hp, lists, locked, held>>
        /\ \A u \in Threads \ {t} : UNCHANGED <<pc[u], snap[u], buckets[u], todo[u]>>
    BY <1>14, PerThread DEF LockTable, table, locks, access, resize
  <2>2. ThreadInv(t)'
    BY <1>14, <2>1, PerThread, OneList, AtFacts, ZenonT(40)
    DEF LockTable, ThreadInv, ExclusionInv, Alone, AllIndices, access
  <2> QED BY <2>1, <2>2, QuietStep
<1>15. ASSUME NEW t \in Threads, LockAll(t) PROVE ExclusionInv'
  <2>1. /\ UNCHANGED <<hp, lists, locked, held>>
        /\ \A u \in Threads \ {t} : UNCHANGED <<pc[u], snap[u], buckets[u], todo[u]>>
    BY <1>15, PerThread DEF LockAll, table, locks, access, resize
  <2>2. ThreadInv(t)'
    <3>1. held[t] = {} /\ pc'[t] = "locking" /\ todo'[t] = 0 .. lists[Len(lists)] - 1
      BY <1>15, PerThread DEF LockAll, ThreadInv, ExclusionInv
    <3>2. todo'[t] = AllIndices
      BY <3>1, OneList DEF AllIndices
    <3>3. held[t] = At(AllIndices \ AllIndices)
      BY <3>1, AtFacts
    <3> QED BY <2>1, <3>1, <3>2, <3>3 DEF ThreadInv, Alone
  <2> QED BY <2>1, <2>2, QuietStep
<1>16. ASSUME NEW t \in Threads, LockAllStep(t) PROVE ExclusionInv'
  <2>1. LockLeast(t) /\ UNCHANGED <<hp, lists, snap, buckets>>
    BY <1>16 DEF LockAllStep, table, access
  <2>2. PICK l \in todo[t] :
          /\ held'[t] = held[t] \union At({l})
          /\ todo'[t] = todo[t] \ {l}
          /\ \A u \in Threads \ {t} : UNCHANGED <<held[u], todo[u]>>
          /\ OwnerInv'
    BY <2>1, LeastLock
  <2>3. \A u \in Threads \ {t} : UNCHANGED pc[u]
    BY <1>16, PerThread DEF LockAllStep
  <2>4. pc[t] = "locking" /\ pc'[t] = "locking"
    BY <1>16, PerThread DEF LockAllStep
  <2> DEFINE W == AllIndices
  <2>5. todo[t] \subseteq W /\ held[t] = At(W \ todo[t])
    BY <2>4, PerThread DEF ThreadInv, ExclusionInv, AllIndices
  <2>6. held'[t] = At(W \ todo'[t]) /\ todo'[t] \subseteq W
    <3>1. At(W \ (todo[t] \ {l})) = At(W \ todo[t]) \union At({l})
      BY <2>5, AtFacts
    <3> QED BY <2>2, <2>5, <3>1
  <2>7. held'[t] # {}
    <3>1. At({l}) # {}
      BY AtFacts
    <3> QED BY <2>2, <3>1
  <2>8. ThreadInv(t)'
    BY <2>1, <2>4, <2>6, <2>7 DEF ThreadInv, ExclusionInv, Alone
  <2> QED BY <2>1, <2>2, <2>3, <2>8, ExclusionFrame
<1>17. ASSUME NEW t \in Threads, LockAllNext(t) PROVE ExclusionInv'
  <2>1. Len(lists) = 1 /\ cur[t] = 1
    BY OneList
  <2> QED BY <1>17, <2>1 DEF LockAllNext
<1>18. ASSUME NEW t \in Threads, LockAllDone(t) PROVE ExclusionInv'
  <2>1. /\ UNCHANGED <<hp, lists, locked, held>>
        /\ \A u \in Threads \ {t} : UNCHANGED <<pc[u], snap[u], buckets[u], todo[u]>>
    BY <1>18, PerThread DEF LockAllDone, table, locks, access, resize
  <2>2. ThreadInv(t)'
    <3>1. /\ held[t] = At(AllIndices \ todo[t]) /\ todo[t] = {}
          /\ pc'[t] = "alone"
      BY <1>18, PerThread DEF LockAllDone, ThreadInv, ExclusionInv
    <3>2. held[t] = At(AllIndices)
      BY <3>1, AtFacts
    <3> QED BY <2>1, <3>1, <3>2 DEF ThreadInv, Alone
  <2> QED BY <2>1, <2>2, QuietStep
<1>19. ASSUME NEW t \in Threads, Overtaken(t) PROVE ExclusionInv'
  <2>1. /\ UNCHANGED <<hp, lists, locked, held>>
        /\ \A u \in Threads \ {t} : UNCHANGED <<pc[u], snap[u], buckets[u], todo[u]>>
    BY <1>19, PerThread DEF Overtaken, table, locks, access, resize
  <2>2. ThreadInv(t)'
    BY <1>19, <2>1, PerThread, OneList, AtFacts, ZenonT(40)
    DEF Overtaken, ThreadInv, ExclusionInv, Alone, AllIndices, access
  <2> QED BY <2>1, <2>2, QuietStep
<1>20. ASSUME NEW t \in Threads, Refused(t) PROVE ExclusionInv'
  <2>1. /\ UNCHANGED <<hp, lists, locked, held>>
        /\ \A u \in Threads \ {t} : UNCHANGED <<pc[u], snap[u], buckets[u], todo[u]>>
    BY <1>20, PerThread DEF Refused, table, locks, access, resize
  <2>2. ThreadInv(t)'
    BY <1>20, <2>1, PerThread, OneList, AtFacts, ZenonT(40)
    DEF Refused, ThreadInv, ExclusionInv, Alone, AllIndices, access
  <2> QED BY <2>1, <2>2, QuietStep
<1>21. ASSUME NEW t \in Threads, FastDouble(t) PROVE ExclusionInv'
  <2>1. \E n \in 0 .. MaxHp : GrowLocks(t, n)
    <3>1. hp \in 0 .. MaxHp /\ goal[t] \in 0 .. MaxHp
      BY DEF TypeOK
    <3> QED BY <1>21, <3>1 DEF FastDouble
  <2>2. UNCHANGED <<lists, locked, held>>
    BY <2>1, NoNewList
  <2>3. /\ UNCHANGED <<hp, snap, buckets, todo>>
        /\ pc[t] \in Alone /\ pc'[t] \in Alone
        /\ \A u \in Threads \ {t} : UNCHANGED pc[u]
    BY <1>21, PerThread DEF FastDouble, access, Alone
  <2> QED BY <2>2, <2>3, MovedStep
<1>22. ASSUME NEW t \in Threads, ExpandSimple(t) PROVE ExclusionInv'
  <2>1. \E n \in 0 .. MaxHp : GrowLocks(t, n)
    <3>1. hp \in 0 .. MaxHp /\ goal[t] \in 0 .. MaxHp
      BY DEF TypeOK
    <3> QED BY <1>22, <3>1 DEF ExpandSimple
  <2>2. UNCHANGED <<lists, locked, held>>
    BY <2>1, NoNewList
  <2>3. /\ UNCHANGED <<hp, snap, buckets, todo>>
        /\ pc[t] \in Alone /\ pc'[t] \in Alone
        /\ \A u \in Threads \ {t} : UNCHANGED pc[u]
    BY <1>22, PerThread DEF ExpandSimple, access, Alone
  <2> QED BY <2>2, <2>3, MovedStep
<1>23. ASSUME NEW t \in Threads, SwapBuckets(t) PROVE ExclusionInv'
  <2>1. /\ pc[t] \in Alone /\ pc'[t] \in Alone
        /\ \A u \in Threads \ {t} : UNCHANGED pc[u]
    BY <1>23, PerThread DEF SwapBuckets, Alone
  <2>2. UNCHANGED <<lists, locked, held, snap, buckets, todo>>
    BY <1>23 DEF SwapBuckets, locks, access
  <2> QED BY <2>1, <2>2, MovedStep
<1>24. ASSUME NEW t \in Threads, SetHashpower(t) PROVE ExclusionInv'
  <2>1. /\ pc[t] \in Alone /\ pc'[t] \in Alone
        /\ \A u \in Threads \ {t} : UNCHANGED pc[u]
    BY <1>24, PerThread DEF SetHashpower, Alone
  <2>2. UNCHANGED <<lists, locked, held, snap, buckets, todo>>
    BY <1>24 DEF SetHashpower, locks, access
  <2> QED BY <2>1, <2>2, MovedStep
<1>25. ASSUME NEW t \in Threads, UnlockAll(t) PROVE ExclusionInv'
  <2>1. /\ UNCHANGED <<hp, lists, locked, held>>
        /\ \A u \in Threads \ {t} : UNCHANGED <<pc[u], snap[u], buckets[u], todo[u]>>
    BY <1>25, PerThread DEF UnlockAll, table, locks, access, resize
  <2>2. ThreadInv(t)'
    BY <1>25, <2>1, PerThread, OneList, AtFacts, ZenonT(40)
    DEF UnlockAll, ThreadInv, ExclusionInv, Alone, AllIndices, access
  <2> QED BY <2>1, <2>2, QuietStep
<1>26. ASSUME NEW t \in Threads, UnlockStep(t) PROVE ExclusionInv'
  <2>1. PICK l \in todo[t] :
          /\ pc[t] = "unlocking"
          /\ Unlock(t, {<<cur[t], l>>})
          /\ todo' = [todo EXCEPT ![t] = @ \ {l}]
          /\ UNCHANGED <<hp, lists, snap, buckets, pc>>
    BY <1>26 DEF UnlockStep, table, access
  <2>2. {<<cur[t], l>>} = At({l}) /\ held[t] = At(todo[t])
    <3>1. cur[t] = 1
      BY OneList
    <3>2. held[t] = At(todo[t])
      BY <2>1 DEF ExclusionInv, ThreadInv
    <3> QED BY <3>1, <3>2 DEF At
  <2>3. At({l}) \subseteq held[t]
    BY <2>2, AtFacts
  <2>4. OwnerInv'
    BY <2>1, <2>2, <2>3, OwnerUnlock DEF ExclusionInv
  <2>5. /\ \A u \in Threads \ {t} :
             UNCHANGED <<pc[u], snap[u], buckets[u], todo[u], held[u]>>
        /\ held'[t] = held[t] \ At({l}) /\ todo'[t] = todo[t] \ {l}
        /\ pc'[t] = "unlocking"
    BY <2>1, <2>2, PerThread DEF Unlock
  <2>6. ThreadInv(t)'
    BY <2>2, <2>5, AtFacts DEF ThreadInv, Alone
  <2> QED BY <2>1, <2>4, <2>5, <2>6, ExclusionFrame
<1>27. ASSUME NEW t \in Threads, UnlockNext(t) PROVE ExclusionInv'
  <2>1. Len(lists) = 1 /\ cur[t] = 1
    BY OneList
  <2> QED BY <1>27, <2>1 DEF UnlockNext
<1>28. ASSUME NEW t \in Threads, UnlockDone(t) PROVE ExclusionInv'
  <2>1. /\ UNCHANGED <<hp, lists, locked, held>>
        /\ \A u \in Threads \ {t} : UNCHANGED <<pc[u], snap[u], buckets[u], todo[u]>>
    BY <1>28, PerThread DEF UnlockDone, Leave, table, locks, access, resize
  <2>2. ThreadInv(t)'
    <3>1. /\ held[t] = At(todo[t]) /\ todo[t] = {}
          /\ pc'[t] \in {"snapshot", "idle"}
      BY <1>28, PerThread DEF UnlockDone, Leave, ThreadInv, ExclusionInv
    <3>2. held[t] = {}
      BY <3>1, AtFacts
    <3> QED BY <2>1, <3>1, <3>2 DEF ThreadInv, Alone
  <2> QED BY <2>1, <2>2, QuietStep
<1> QED
  BY <1>0, <1>1, <1>2, <1>3, <1>4, <1>5, <1>6, <1>7, <1>8, <1>9, <1>10, <1>11,
     <1>12, <1>13, <1>14, <1>15, <1>16, <1>17, <1>18, <1>19, <1>20, <1>21,
     <1>22, <1>23, <1>24, <1>25, <1>26, <1>27, <1>28
  DEF Next, Access, Resize

-----------------------------------------------------------------------------
(* What the invariant implies.                                             *)

\* All the locks in one hand leave none to the others.
LEMMA ImpliesResizeAlone == TypeOK /\ ExclusionInv => ResizeAlone
<1> SUFFICES ASSUME TypeOK, ExclusionInv,
                    NEW t \in Threads, NEW u \in Threads, t # u, pc[t] \in Alone
             PROVE  pc[u] \notin Alone \union {"using"}
  BY DEF ResizeAlone
<1>1. held[u] = {}
  BY AloneHasAll
<1>2. pc[u] # "using"
  BY <1>1 DEF ExclusionInv, ThreadInv
<1>3. At(AllIndices) # {}
  <2>1. 0 \in AllIndices
    BY DEF AllIndices
  <2> QED BY <2>1, AtFacts
<1>4. pc[u] \notin Alone
  BY <1>1, <1>3 DEF ExclusionInv, ThreadInv
<1> QED BY <1>2, <1>4

\* A thread that uses buckets holds exactly their locks.
LEMMA UsedLocks ==
  ASSUME ExclusionInv, NEW t \in Threads, pc[t] = "using"
  PROVE  held[t] = At(LockInds(buckets[t]))
<1>1. held[t] = At(LockInds(buckets[t]) \ {})
  BY DEF ExclusionInv, ThreadInv
<1> QED BY <1>1, AtFacts

\* Threads that hold the locks of two sets of buckets: the sets are disjoint.
LEMMA DisjointBuckets ==
  ASSUME OwnerInv, NEW t \in Threads, NEW u \in Threads, t # u,
         held[t] = At(LockInds(buckets[t])), held[u] = At(LockInds(buckets[u]))
  PROVE  buckets[t] \intersect buckets[u] = {}
<1> SUFFICES ASSUME NEW b \in buckets[t] \intersect buckets[u] PROVE FALSE
  OBVIOUS
<1>1. <<1, LockInd(b)>> \in held[t] \intersect held[u]
  BY DEF At, LockInds
<1> QED BY <1>1 DEF OwnerInv

\* Disjoint locks, disjoint buckets.
LEMMA ImpliesBucketExclusion == ExclusionInv => BucketExclusion
BY UsedLocks, DisjointBuckets DEF BucketExclusion, ExclusionInv

\* The buckets of the snapshot are buckets of the table.
LEMMA ImpliesUsingCurrent == RangeInv /\ ExclusionInv => UsingCurrent
BY DEF UsingCurrent, RangeInv, ThreadRange, ExclusionInv, ThreadInv

\* Every lock has its owner, and an idle thread owns none.
LEMMA ImpliesNoLockLeft == ExclusionInv => NoLockLeftBehind
<1> SUFFICES ASSUME ExclusionInv, NEW k \in locked
             PROVE  \E t \in Threads : k \in held[t] /\ pc[t] # "idle"
  BY DEF NoLockLeftBehind
<1>1. PICK t \in Threads : k \in held[t]
  BY DEF ExclusionInv, OwnerInv
<1>2. pc[t] # "idle"
  BY <1>1 DEF ExclusionInv, ThreadInv
<1> QED BY <1>1, <1>2

-----------------------------------------------------------------------------
(* Locks are taken in ascending order, so that nobody waits in a circle.   *)

Locking == {"check", "more", "locking"}

(* What a thread still wants comes after all it has.                       *)
Ascending(t) ==
  pc[t] \in Locking =>
    \A k \in AllIndices, l \in todo[t] : <<1, k>> \in held[t] => k < l

OrderInv == \A t \in Threads : Ascending(t)

\* LockLeast takes the least of what is wanted.
LEMMA LeastAscends ==
  ASSUME TypeOK, ExclusionInv, NEW t \in Threads, LockLeast(t),
         held[t] = {} \/ (pc[t] \in Locking /\ Ascending(t))
  PROVE  \A k \in AllIndices, l \in todo'[t] : <<1, k>> \in held'[t] => k < l
<1>1. PICK m \in todo[t] :
        /\ IsLeast(m, todo[t])
        /\ held' = [held EXCEPT ![t] = @ \union {<<cur[t], m>>}]
        /\ todo' = [todo EXCEPT ![t] = @ \ {m}]
  BY DEF LockLeast
<1>2. /\ held'[t] = held[t] \union {<<1, m>>}
      /\ todo'[t] = todo[t] \ {m}
  BY <1>1, OneList, PerThread
<1>3. todo[t] \subseteq AllIndices
  BY PerThread DEF AllIndices
<1> SUFFICES ASSUME NEW k \in AllIndices, NEW l \in todo'[t], <<1, k>> \in held'[t]
             PROVE  k < l
  OBVIOUS
<1>4. CASE k = m
  BY <1>1, <1>2, <1>3, <1>4 DEF IsLeast, AllIndices
<1>5. CASE k # m
  BY <1>2, <1>5 DEF Ascending
<1> QED BY <1>4, <1>5

\* A step of t that leaves the other threads where they are.
LEMMA OrderFrame ==
  ASSUME OrderInv, NEW t \in Threads, Ascending(t)',
         \A u \in Threads \ {t} : UNCHANGED <<pc[u], todo[u], held[u]>>
  PROVE  OrderInv'
<1>1. ASSUME NEW u \in Threads \ {t} PROVE Ascending(u)'
  BY DEF OrderInv, Ascending, AllIndices
<1> QED BY <1>1 DEF OrderInv

\* Of a set of lock indices that is not empty there is a greatest: the one
\* with the fewest above it.
LEMMA GreatestIndex ==
  ASSUME NEW W \in SUBSET AllIndices, W # {}
  PROVE  \E m \in W : \A l \in W : l <= m
<1> DEFINE Above(m) == {l \in W : m < l}
           A == {Above(m) : m \in W}
           R == StrictSubsetOrdering(AllIndices)
           F == FiniteSubsetsOf(AllIndices)
<1>1. A \subseteq F /\ A # {}
  <2>1. IsFiniteSet(AllIndices)
    BY FS_Interval DEF AllIndices
  <2>2. \A m \in W : Above(m) \in SUBSET AllIndices
    OBVIOUS
  <2>3. \A a \in SUBSET AllIndices : IsFiniteSet(a)
    BY <2>1, FS_Subset
  <2>4. \A m \in W : Above(m) \in F
    <3> HIDE DEF Above
    <3> QED BY <2>2, <2>3, Zenon DEF FiniteSubsetsOf
  <2>5. A # {}
    <3>1. PICK m \in W : TRUE
      OBVIOUS
    <3>2. Above(m) \in A
      OBVIOUS
    <3> QED BY <3>2, Zenon
  <2> HIDE DEF Above, F
  <2> QED BY <2>4, <2>5, Zenon
<1>2. \E a \in A : \A b \in A : ~(<<b, a>> \in R)
  <2>1. IsWellFoundedOn(R, F)
    <3>1. IsFiniteSet(AllIndices)
      BY FS_Interval DEF AllIndices
    <3> QED BY <3>1, FS_StrictSubsetOrderingWellFounded
  <2> HIDE DEF A, R, F
  <2> QED BY <1>1, <2>1, WFMin
<1>3. PICK m \in W : \A l \in W : ~(<<Above(l), Above(m)>> \in R)
  BY <1>2
<1>4. ASSUME NEW l \in W, ~(l <= m) PROVE FALSE
  <2>1. m \in Int /\ l \in Int /\ \A k \in W : k \in Int
    BY DEF AllIndices
  <2>2. m < l /\ ~(l < l)
    BY <1>4, <2>1
  <2>3. Above(l) \subseteq Above(m)
    <3>1. \A k \in W : l < k => m < k
      <4> TAKE k \in W
      <4>1. k \in Int
        BY <2>1
      <4> QED BY <2>1, <2>2, <4>1
    <3> QED BY <3>1, Zenon
  <2>4. l \in Above(m) /\ l \notin Above(l)
    BY <2>2
  <2>5. Above(m) \in SUBSET AllIndices
    OBVIOUS
  <2>6. <<Above(l), Above(m)>> \in R
    <3> HIDE DEF Above
    <3> QED BY <2>3, <2>4, <2>5 DEF StrictSubsetOrdering
  <2> QED BY <1>3, <2>6
<1> QED BY <1>4

\* Every step keeps the order.
LEMMA StepOrder ==
  TypeOK /\ ExclusionInv /\ OrderInv /\ [Next]_vars => OrderInv'
<1> SUFFICES ASSUME TypeOK, ExclusionInv, OrderInv, [Next]_vars PROVE OrderInv'
  OBVIOUS
<1> USE DEF Goto
<1>0. CASE UNCHANGED vars
  BY <1>0 DEF vars, locks, OrderInv, Ascending, AllIndices
<1>1. ASSUME NEW t \in Threads,
             \/ LockFirst(t) \/ LockMore(t) \/ LockAllStep(t)
      PROVE  OrderInv'
  <2>1. LockLeast(t) /\ \A u \in Threads \ {t} : UNCHANGED pc[u]
    BY <1>1, PerThread DEF LockFirst, LockMore, LockAllStep
  <2>2. \A u \in Threads \ {t} : UNCHANGED <<todo[u], held[u]>>
    BY <2>1, LeastLock
  <2>3. held[t] = {} \/ (pc[t] \in Locking /\ Ascending(t))
    BY <1>1 DEF LockFirst, LockMore, LockAllStep, ExclusionInv, ThreadInv,
                OrderInv, Locking
  <2>4. Ascending(t)'
    BY <2>1, <2>3, LeastAscends DEF Ascending, AllIndices
  <2> QED BY <2>1, <2>2, <2>4, OrderFrame
<1>2. ASSUME NEW t \in Threads, CheckPasses(t) PROVE OrderInv'
  <2>1. /\ pc[t] = "check" /\ UNCHANGED <<todo, held>>
        /\ \A u \in Threads \ {t} : UNCHANGED pc[u]
    BY <1>2, PerThread DEF CheckPasses, locks
  <2>2. Ascending(t)'
    BY <2>1 DEF OrderInv, Ascending, Locking, AllIndices
  <2> QED BY <2>1, <2>2, OrderFrame
<1>3. ASSUME NEW t \in Threads, LockAll(t) PROVE OrderInv'
  <2>1. /\ held[t] = {} /\ UNCHANGED held
        /\ \A u \in Threads \ {t} : UNCHANGED <<pc[u], todo[u]>>
    BY <1>3, PerThread DEF LockAll, locks, ExclusionInv, ThreadInv
  <2>2. Ascending(t)'
    BY <2>1 DEF Ascending
  <2> QED BY <2>1, <2>2, OrderFrame
<1>4. ASSUME NEW t \in Threads, LockAllNext(t) \/ UnlockNext(t) PROVE OrderInv'
  <2>1. Len(lists) = 1 /\ cur[t] = 1
    BY OneList
  <2> QED BY <1>4, <2>1 DEF LockAllNext, UnlockNext
<1>5. ASSUME NEW t \in Threads,
             \/ Begin(t) \/ Snapshot(t) \/ GetLocks(t) \/ CheckFails(t)
             \/ KeepTwo(t) \/ Release(t) \/ Return(t) \/ Cuckoo(t)
      PROVE  OrderInv'
  <2>1. /\ pc'[t] \notin Locking
        /\ \A u \in Threads \ {t} : UNCHANGED <<pc[u], todo[u], held[u]>>
    BY <1>5, PerThread
    DEF Begin, Snapshot, GetLocks, CheckFails, KeepTwo, Release, Return, Cuckoo,
        Unlock, Leave, locks, Locking
  <2>2. Ascending(t)'
    BY <2>1 DEF Ascending
  <2> QED BY <2>1, <2>2, OrderFrame
<1>6. ASSUME NEW t \in Threads,
             \/ TableFull(t) \/ Rehash(t) \/ LockTable(t) \/ LockAllDone(t)
             \/ Overtaken(t) \/ Refused(t) \/ SwapBuckets(t) \/ SetHashpower(t)
             \/ UnlockAll(t) \/ UnlockStep(t) \/ UnlockDone(t)
      PROVE  OrderInv'
  <2>1. /\ pc'[t] \notin Locking
        /\ \A u \in Threads \ {t} : UNCHANGED <<pc[u], todo[u], held[u]>>
    BY <1>6, PerThread
    DEF TableFull, Rehash, LockTable, LockAllDone, Overtaken, Refused, SwapBuckets,
        SetHashpower, UnlockAll, UnlockStep, UnlockDone, Unlock, Leave, locks, Locking
  <2>2. Ascending(t)'
    BY <2>1 DEF Ascending
  <2> QED BY <2>1, <2>2, OrderFrame
<1>7. ASSUME NEW t \in Threads, FastDouble(t) \/ ExpandSimple(t) PROVE OrderInv'
  <2>1. \E n \in 0 .. MaxHp : GrowLocks(t, n)
    <3>1. hp \in 0 .. MaxHp /\ goal[t] \in 0 .. MaxHp
      BY DEF TypeOK
    <3> QED BY <1>7, <3>1 DEF FastDouble, ExpandSimple
  <2>2. UNCHANGED held
    BY <2>1, NoNewList
  <2>3. /\ pc'[t] \notin Locking /\ UNCHANGED todo
        /\ \A u \in Threads \ {t} : UNCHANGED pc[u]
    BY <1>7, PerThread DEF FastDouble, ExpandSimple, Locking
  <2>4. Ascending(t)'
    BY <2>3 DEF Ascending
  <2> QED BY <2>2, <2>3, <2>4, OrderFrame
<1> QED
  BY <1>0, <1>1, <1>2, <1>3, <1>4, <1>5, <1>6, <1>7 DEF Next, Access, Resize

\* Whoever has the lock that a thread waits for would have to wait for a lock
\* further up: the one that waits furthest up waits for nobody who waits.
LEMMA ImpliesNoDeadlock == TypeOK /\ ExclusionInv /\ OrderInv => NoDeadlock
<1> SUFFICES ASSUME TypeOK, ExclusionInv, OrderInv,
                    \A t \in Threads : pc[t] = "idle" \/ Waits(t),
                    NEW s \in Threads, pc[s] # "idle"
             PROVE  FALSE
  BY DEF NoDeadlock
<1> DEFINE Wants(t, l) == /\ pc[t] \in {"first", "more", "locking"}
                          /\ l \in todo[t]
                          /\ <<1, l>> \in locked
           W == {l \in AllIndices : \E t \in Threads : Wants(t, l)}
<1>1. ASSUME NEW t \in Threads, pc[t] # "idle"
      PROVE  \E l \in AllIndices : Wants(t, l)
  <2>1. Waits(t) /\ cur[t] = 1
    BY <1>1, OneList
  <2>2. todo[t] \subseteq AllIndices
    BY PerThread DEF AllIndices
  <2> QED BY <2>1, <2>2 DEF Waits
<1>2. W # {}
  <2>1. PICK l \in AllIndices : Wants(s, l)
    BY <1>1
  <2> QED BY <2>1
<1>3. PICK m \in W : \A l \in W : l <= m
  <2> HIDE DEF W
  <2>1. W \subseteq AllIndices
    BY DEF W
  <2> QED BY <1>2, <2>1, GreatestIndex
<1>4. PICK u \in Threads : <<1, m>> \in held[u]
  BY DEF ExclusionInv, OwnerInv
<1>5. pc[u] # "idle" /\ pc[u] # "first"
  BY <1>4 DEF ExclusionInv, ThreadInv
<1>6. PICK l \in AllIndices : Wants(u, l)
  BY <1>1, <1>5
<1>7. m < l
  BY <1>4, <1>5, <1>6 DEF OrderInv, Ascending, Locking
<1>8. l <= m
  BY <1>3, <1>6
<1> QED BY <1>7, <1>8 DEF AllIndices

-----------------------------------------------------------------------------
(* The refinement of BucketAccess.                                         *)

\* A step that neither gives nor takes a bucket or the whole table.
LEMMA Stutter ==
  ASSUME TypeOK, NEW t \in Threads, UNCHANGED hp,
         \A u \in Threads \ {t} : UNCHANGED <<pc[u], buckets[u]>>,
         pc[t] # "using", pc'[t] # "using", pc[t] \in Alone <=> pc'[t] \in Alone
  PROVE  UNCHANGED Promise!vars
<1>1. UNCHANGED Uses
  BY DEF Uses
<1>2. UNCHANGED HasAll
  BY DEF HasAll
<1> QED BY <1>1, <1>2 DEF Promise!vars

\* The constructed map maps to the initial state of BucketAccess.
LEMMA InitPromise == Init => Promise!Init
BY DEF Init, Promise!Init, Uses, HasAll, Alone

\* A thread that has its last lock starts to use its buckets: nobody else uses
\* one of them, and nobody has all the locks.
LEMMA Acquires ==
  ASSUME TypeOK, RangeInv, ExclusionInv, TypeOK', RangeInv', ExclusionInv',
         NEW t \in Threads,
         UNCHANGED <<hp, buckets>>, pc' = [pc EXCEPT ![t] = "using"],
         pc[t] \in {"check", "more"}
  PROVE  Promise!Acquire(t)
<1>1. /\ pc'[t] = "using" /\ pc[t] \notin Alone
      /\ \A u \in Threads \ {t} : UNCHANGED pc[u]
  BY PerThread DEF Alone
<1>2. HasAll = {} /\ UNCHANGED HasAll
  <2>1. ResizeAlone'
    BY ImpliesResizeAlone, PTL
  <2>2. \A u \in Threads : pc'[u] \notin Alone
    BY <1>1, <2>1 DEF ResizeAlone, Alone
  <2> QED BY <1>1, <2>2 DEF HasAll
<1>3. Uses[t] = {}
  BY DEF Uses
<1>4. \A u \in Threads : Uses[u] \intersect buckets[t] = {}
  <2>1. BucketExclusion'
    BY ImpliesBucketExclusion, PTL
  <2> QED BY <1>1, <1>3, <2>1 DEF Uses, BucketExclusion
<1>5. Uses' = [Uses EXCEPT ![t] = buckets[t]]
  BY <1>1 DEF Uses
<1>6. buckets[t] \in SUBSET Buckets(hp)
  <2>1. UsingCurrent'
    BY ImpliesUsingCurrent, PTL
  <2>2. buckets'[t] \subseteq Buckets(hp')
    BY <1>1, <2>1 DEF UsingCurrent
  <2>3. Buckets(hp') = Buckets(hp)
    BY DEF Buckets
  <2> QED BY <2>2, <2>3
<1> QED BY <1>2, <1>3, <1>4, <1>5, <1>6 DEF Promise!Acquire

\* A thread that is alone moves the hashpower.
LEMMA Resizes ==
  ASSUME TypeOK, ExclusionInv, NEW t \in Threads, pc[t] \in Alone, pc'[t] \in Alone,
         hp' \in 0 .. MaxHp, UNCHANGED buckets,
         \A u \in Threads \ {t} : UNCHANGED pc[u]
  PROVE  Promise!Resize(t)
<1>1. HasAll = {t}
  BY ImpliesResizeAlone DEF ResizeAlone, HasAll
<1>2. UNCHANGED HasAll
  BY DEF HasAll
<1>3. UNCHANGED Uses
  BY DEF Uses, Alone
<1> QED BY <1>1, <1>2, <1>3 DEF Promise!Resize

\* Every step maps to a step of BucketAccess or to a stutter.
LEMMA StepPromise ==
  /\ TypeOK /\ RangeInv /\ ExclusionInv
  /\ TypeOK' /\ RangeInv' /\ ExclusionInv'
  /\ [Next]_vars
  => [Promise!Next]_(Promise!vars)
<1> SUFFICES ASSUME TypeOK, RangeInv, ExclusionInv,
                    TypeOK', RangeInv', ExclusionInv', [Next]_vars
             PROVE  [Promise!Next]_(Promise!vars)
  OBVIOUS
<1> USE DEF Goto
<1>0. CASE UNCHANGED vars
  BY <1>0 DEF vars, table, access, Promise!vars, Uses, HasAll
<1>1. ASSUME NEW t \in Threads, Begin(t) PROVE [Promise!Next]_(Promise!vars)
  <2>1. UNCHANGED hp /\ \A u \in Threads \ {t} : UNCHANGED <<pc[u], buckets[u]>>
    BY <1>1, PerThread DEF Begin, table, access
  <2>2. /\ pc[t] # "using" /\ pc'[t] # "using"
        /\ pc[t] \in Alone <=> pc'[t] \in Alone
    BY <1>1, PerThread DEF Begin, Alone
  <2> QED BY <2>1, <2>2, Stutter
<1>2. ASSUME NEW t \in Threads, Snapshot(t) PROVE [Promise!Next]_(Promise!vars)
  <2>1. UNCHANGED hp /\ \A u \in Threads \ {t} : UNCHANGED <<pc[u], buckets[u]>>
    BY <1>2, PerThread DEF Snapshot, table, access
  <2>2. /\ pc[t] # "using" /\ pc'[t] # "using"
        /\ pc[t] \in Alone <=> pc'[t] \in Alone
    BY <1>2, PerThread DEF Snapshot, Alone
  <2> QED BY <2>1, <2>2, Stutter
<1>3. ASSUME NEW t \in Threads, GetLocks(t) PROVE [Promise!Next]_(Promise!vars)
  <2>1. UNCHANGED hp /\ \A u \in Threads \ {t} : UNCHANGED <<pc[u], buckets[u]>>
    BY <1>3, PerThread DEF GetLocks, table, access
  <2>2. /\ pc[t] # "using" /\ pc'[t] # "using"
        /\ pc[t] \in Alone <=> pc'[t] \in Alone
    BY <1>3, PerThread DEF GetLocks, Alone
  <2> QED BY <2>1, <2>2, Stutter
<1>4. ASSUME NEW t \in Threads, LockFirst(t) PROVE [Promise!Next]_(Promise!vars)
  <2>1. UNCHANGED hp /\ \A u \in Threads \ {t} : UNCHANGED <<pc[u], buckets[u]>>
    BY <1>4, PerThread DEF LockFirst, table, access
  <2>2. /\ pc[t] # "using" /\ pc'[t] # "using"
        /\ pc[t] \in Alone <=> pc'[t] \in Alone
    BY <1>4, PerThread DEF LockFirst, Alone
  <2> QED BY <2>1, <2>2, Stutter
<1>5. ASSUME NEW t \in Threads, CheckPasses(t) PROVE [Promise!Next]_(Promise!vars)
  <2>1. /\ UNCHANGED <<hp, buckets>> /\ pc[t] = "check"
        /\ pc' = [pc EXCEPT ![t] = IF todo[t] = {} THEN "using" ELSE "more"]
    BY <1>5 DEF CheckPasses, table, access
  <2>2. CASE todo[t] = {}
    <3>1. pc' = [pc EXCEPT ![t] = "using"]
      BY <2>1, <2>2
    <3> QED BY <2>1, <3>1, Acquires DEF Promise!Next
  <2>3. CASE todo[t] # {}
    <3>1. /\ pc'[t] = "more" /\ pc[t] # "using"
          /\ pc[t] \in Alone <=> pc'[t] \in Alone
          /\ \A u \in Threads \ {t} : UNCHANGED <<pc[u], buckets[u]>>
      BY <2>1, <2>3, PerThread DEF Alone
    <3> QED BY <2>1, <3>1, Stutter
  <2> QED BY <2>2, <2>3
<1>6. ASSUME NEW t \in Threads, CheckFails(t) PROVE [Promise!Next]_(Promise!vars)
  <2>1. UNCHANGED hp /\ \A u \in Threads \ {t} : UNCHANGED <<pc[u], buckets[u]>>
    BY <1>6, PerThread DEF CheckFails, table, access
  <2>2. /\ pc[t] # "using" /\ pc'[t] # "using"
        /\ pc[t] \in Alone <=> pc'[t] \in Alone
    BY <1>6, PerThread DEF CheckFails, Alone
  <2> QED BY <2>1, <2>2, Stutter
<1>7. ASSUME NEW t \in Threads, LockMore(t) PROVE [Promise!Next]_(Promise!vars)
  <2>1. /\ UNCHANGED <<hp, buckets>> /\ pc[t] = "more"
        /\ pc' = [pc EXCEPT ![t] = IF todo'[t] = {} THEN "using" ELSE "more"]
    BY <1>7 DEF LockMore, table, access
  <2>2. CASE todo'[t] = {}
    <3>1. pc' = [pc EXCEPT ![t] = "using"]
      BY <2>1, <2>2
    <3> QED BY <2>1, <3>1, Acquires DEF Promise!Next
  <2>3. CASE todo'[t] # {}
    <3>1. /\ pc'[t] = "more" /\ pc[t] # "using"
          /\ pc[t] \in Alone <=> pc'[t] \in Alone
          /\ \A u \in Threads \ {t} : UNCHANGED <<pc[u], buckets[u]>>
      BY <2>1, <2>3, PerThread DEF Alone
    <3> QED BY <2>1, <3>1, Stutter
  <2> QED BY <2>2, <2>3
<1>8. ASSUME NEW t \in Threads, KeepTwo(t) PROVE [Promise!Next]_(Promise!vars)
  <2>1. PICK b \in buckets[t] :
          /\ pc[t] = "using"
          /\ buckets' = [buckets EXCEPT ![t] = buckets[t] \ {b}]
          /\ UNCHANGED <<hp, pc>>
    BY <1>8 DEF KeepTwo, table
  <2>2. Uses' = [Uses EXCEPT ![t] = buckets[t] \ {b}]
    BY <2>1, PerThread DEF Uses
  <2>3. Uses[t] = buckets[t] /\ UNCHANGED HasAll
    BY <2>1 DEF Uses, HasAll
  <2>4. Promise!Release(t)
    BY <2>1, <2>2, <2>3 DEF Promise!Release
  <2> QED BY <2>4 DEF Promise!Next
<1>9. ASSUME NEW t \in Threads, Release(t) PROVE [Promise!Next]_(Promise!vars)
  <2>1. /\ pc[t] \in {"using", "release"} /\ pc'[t] \in {"release", "released"}
        /\ UNCHANGED <<hp, buckets>> /\ \A u \in Threads \ {t} : UNCHANGED pc[u]
    BY <1>9, PerThread DEF Release, table, access
  <2>2. Uses' = [Uses EXCEPT ![t] = {}]
    BY <2>1 DEF Uses
  <2>3. UNCHANGED HasAll
    BY <2>1 DEF HasAll, Alone
  <2>4. Promise!Release(t)
    BY <2>1, <2>2, <2>3 DEF Promise!Release
  <2> QED BY <2>4 DEF Promise!Next
<1>10. ASSUME NEW t \in Threads, Return(t) PROVE [Promise!Next]_(Promise!vars)
  <2>1. UNCHANGED hp /\ \A u \in Threads \ {t} : UNCHANGED <<pc[u], buckets[u]>>
    BY <1>10, PerThread DEF Return, Leave, table, access
  <2>2. /\ pc[t] # "using" /\ pc'[t] # "using"
        /\ pc[t] \in Alone <=> pc'[t] \in Alone
    BY <1>10, PerThread DEF Return, Leave, Alone
  <2> QED BY <2>1, <2>2, Stutter
<1>11. ASSUME NEW t \in Threads, Cuckoo(t) PROVE [Promise!Next]_(Promise!vars)
  <2>1. UNCHANGED hp /\ \A u \in Threads \ {t} : UNCHANGED <<pc[u], buckets[u]>>
    BY <1>11, PerThread DEF Cuckoo, table, access
  <2>2. /\ pc[t] # "using" /\ pc'[t] # "using"
        /\ pc[t] \in Alone <=> pc'[t] \in Alone
    BY <1>11, PerThread DEF Cuckoo, Alone
  <2> QED BY <2>1, <2>2, Stutter
<1>12. ASSUME NEW t \in Threads, TableFull(t) PROVE [Promise!Next]_(Promise!vars)
  <2>1. UNCHANGED hp /\ \A u \in Threads \ {t} : UNCHANGED <<pc[u], buckets[u]>>
    BY <1>12, PerThread DEF TableFull, table, access
  <2>2. /\ pc[t] # "using" /\ pc'[t] # "using"
        /\ pc[t] \in Alone <=> pc'[t] \in Alone
    BY <1>12, PerThread DEF TableFull, Alone
  <2> QED BY <2>1, <2>2, Stutter
<1>13. ASSUME NEW t \in Threads, Rehash(t) PROVE [Promise!Next]_(Promise!vars)
  <2>1. UNCHANGED hp /\ \A u \in Threads \ {t} : UNCHANGED <<pc[u], buckets[u]>>
    BY <1>13, PerThread DEF Rehash, table, access
  <2>2. /\ pc[t] # "using" /\ pc'[t] # "using"
        /\ pc[t] \in Alone <=> pc'[t] \in Alone
    BY <1>13, PerThread DEF Rehash, Alone
  <2> QED BY <2>1, <2>2, Stutter
<1>14. ASSUME NEW t \in Threads, LockTable(t) PROVE [Promise!Next]_(Promise!vars)
  <2>1. UNCHANGED hp /\ \A u \in Threads \ {t} : UNCHANGED <<pc[u], buckets[u]>>
    BY <1>14, PerThread DEF LockTable, table, access
  <2>2. /\ pc[t] # "using" /\ pc'[t] # "using"
        /\ pc[t] \in Alone <=> pc'[t] \in Alone
    BY <1>14, PerThread DEF LockTable, Alone
  <2> QED BY <2>1, <2>2, Stutter
<1>15. ASSUME NEW t \in Threads, LockAll(t) PROVE [Promise!Next]_(Promise!vars)
  <2>1. UNCHANGED hp /\ \A u \in Threads \ {t} : UNCHANGED <<pc[u], buckets[u]>>
    BY <1>15, PerThread DEF LockAll, table, access
  <2>2. /\ pc[t] # "using" /\ pc'[t] # "using"
        /\ pc[t] \in Alone <=> pc'[t] \in Alone
    BY <1>15, PerThread DEF LockAll, Alone
  <2> QED BY <2>1, <2>2, Stutter
<1>16. ASSUME NEW t \in Threads, LockAllStep(t) PROVE [Promise!Next]_(Promise!vars)
  <2>1. UNCHANGED hp /\ \A u \in Threads \ {t} : UNCHANGED <<pc[u], buckets[u]>>
    BY <1>16, PerThread DEF LockAllStep, table, access
  <2>2. /\ pc[t] # "using" /\ pc'[t] # "using"
        /\ pc[t] \in Alone <=> pc'[t] \in Alone
    BY <1>16, PerThread DEF LockAllStep, Alone
  <2> QED BY <2>1, <2>2, Stutter
<1>17. ASSUME NEW t \in Threads, LockAllNext(t) PROVE [Promise!Next]_(Promise!vars)
  <2>1. UNCHANGED hp /\ \A u \in Threads \ {t} : UNCHANGED <<pc[u], buckets[u]>>
    BY <1>17, PerThread DEF LockAllNext, table, access
  <2>2. /\ pc[t] # "using" /\ pc'[t] # "using"
        /\ pc[t] \in Alone <=> pc'[t] \in Alone
    BY <1>17, PerThread DEF LockAllNext, Alone
  <2> QED BY <2>1, <2>2, Stutter
<1>18. ASSUME NEW t \in Threads, LockAllDone(t) PROVE [Promise!Next]_(Promise!vars)
  <2>1. /\ pc[t] = "locking" /\ pc'[t] = "alone" /\ pc'[t] \in Alone
        /\ UNCHANGED <<hp, buckets>> /\ \A u \in Threads \ {t} : UNCHANGED pc[u]
    BY <1>18, PerThread DEF LockAllDone, table, access, Alone
  <2>2. \A u \in Threads \ {t} : pc[u] \notin Alone \union {"using"}
    <3>1. ResizeAlone'
      BY ImpliesResizeAlone, PTL
    <3>2. \A u \in Threads \ {t} : pc'[u] \notin Alone' \union {"using"}
      BY <2>1, <3>1 DEF ResizeAlone, Alone
    <3> QED BY <2>1, <3>2 DEF Alone
  <2>3. HasAll = {} /\ HasAll' = {t}
    BY <2>1, <2>2 DEF HasAll, Alone
  <2>4. (\A u \in Threads : Uses[u] = {}) /\ UNCHANGED Uses
    BY <2>1, <2>2 DEF Uses
  <2>5. Promise!Seize(t)
    BY <2>1, <2>3, <2>4 DEF Promise!Seize
  <2> QED BY <2>5 DEF Promise!Next
<1>19. ASSUME NEW t \in Threads, Overtaken(t) PROVE [Promise!Next]_(Promise!vars)
  <2>1. UNCHANGED hp /\ \A u \in Threads \ {t} : UNCHANGED <<pc[u], buckets[u]>>
    BY <1>19, PerThread DEF Overtaken, table, access
  <2>2. /\ pc[t] # "using" /\ pc'[t] # "using"
        /\ pc[t] \in Alone <=> pc'[t] \in Alone
    BY <1>19, PerThread DEF Overtaken, Alone
  <2> QED BY <2>1, <2>2, Stutter
<1>20. ASSUME NEW t \in Threads, Refused(t) PROVE [Promise!Next]_(Promise!vars)
  <2>1. UNCHANGED hp /\ \A u \in Threads \ {t} : UNCHANGED <<pc[u], buckets[u]>>
    BY <1>20, PerThread DEF Refused, table, access
  <2>2. /\ pc[t] # "using" /\ pc'[t] # "using"
        /\ pc[t] \in Alone <=> pc'[t] \in Alone
    BY <1>20, PerThread DEF Refused, Alone
  <2> QED BY <2>1, <2>2, Stutter
<1>21. ASSUME NEW t \in Threads, FastDouble(t) PROVE [Promise!Next]_(Promise!vars)
  <2>1. UNCHANGED hp /\ \A u \in Threads \ {t} : UNCHANGED <<pc[u], buckets[u]>>
    BY <1>21, PerThread DEF FastDouble, table, access
  <2>2. /\ pc[t] # "using" /\ pc'[t] # "using"
        /\ pc[t] \in Alone <=> pc'[t] \in Alone
    BY <1>21, PerThread DEF FastDouble, Alone
  <2> QED BY <2>1, <2>2, Stutter
<1>22. ASSUME NEW t \in Threads, ExpandSimple(t) PROVE [Promise!Next]_(Promise!vars)
  <2>1. UNCHANGED hp /\ \A u \in Threads \ {t} : UNCHANGED <<pc[u], buckets[u]>>
    BY <1>22, PerThread DEF ExpandSimple, table, access
  <2>2. /\ pc[t] # "using" /\ pc'[t] # "using"
        /\ pc[t] \in Alone <=> pc'[t] \in Alone
    BY <1>22, PerThread DEF ExpandSimple, Alone
  <2> QED BY <2>1, <2>2, Stutter
<1>23. ASSUME NEW t \in Threads, SwapBuckets(t) PROVE [Promise!Next]_(Promise!vars)
  <2>1. /\ pc[t] \in Alone /\ pc'[t] \in Alone /\ UNCHANGED buckets
        /\ \A u \in Threads \ {t} : UNCHANGED pc[u]
    BY <1>23, PerThread DEF SwapBuckets, Alone, access
  <2>2. hp' \in 0 .. MaxHp
    BY DEF TypeOK
  <2> QED BY <2>1, <2>2, Resizes DEF Promise!Next
<1>24. ASSUME NEW t \in Threads, SetHashpower(t) PROVE [Promise!Next]_(Promise!vars)
  <2>1. /\ pc[t] \in Alone /\ pc'[t] \in Alone /\ UNCHANGED buckets
        /\ \A u \in Threads \ {t} : UNCHANGED pc[u]
    BY <1>24, PerThread DEF SetHashpower, Alone, access
  <2>2. hp' \in 0 .. MaxHp
    BY DEF TypeOK
  <2> QED BY <2>1, <2>2, Resizes DEF Promise!Next
<1>25. ASSUME NEW t \in Threads, UnlockAll(t) PROVE [Promise!Next]_(Promise!vars)
  <2>1. /\ pc[t] \in Alone /\ pc'[t] = "unlocking" /\ pc[t] # "using"
        /\ UNCHANGED <<hp, buckets>> /\ \A u \in Threads \ {t} : UNCHANGED pc[u]
    BY <1>25, PerThread DEF UnlockAll, table, access, Alone
  <2>2. HasAll = {t} /\ HasAll' = {}
    BY <2>1, ImpliesResizeAlone DEF ResizeAlone, HasAll, Alone
  <2>3. UNCHANGED Uses
    BY <2>1 DEF Uses
  <2>4. Promise!Yield(t)
    BY <2>1, <2>2, <2>3 DEF Promise!Yield
  <2> QED BY <2>4 DEF Promise!Next
<1>26. ASSUME NEW t \in Threads, UnlockStep(t) PROVE [Promise!Next]_(Promise!vars)
  <2>1. UNCHANGED hp /\ \A u \in Threads \ {t} : UNCHANGED <<pc[u], buckets[u]>>
    BY <1>26, PerThread DEF UnlockStep, table, access
  <2>2. /\ pc[t] # "using" /\ pc'[t] # "using"
        /\ pc[t] \in Alone <=> pc'[t] \in Alone
    BY <1>26, PerThread DEF UnlockStep, Alone
  <2> QED BY <2>1, <2>2, Stutter
<1>27. ASSUME NEW t \in Threads, UnlockNext(t) PROVE [Promise!Next]_(Promise!vars)
  <2>1. UNCHANGED hp /\ \A u \in Threads \ {t} : UNCHANGED <<pc[u], buckets[u]>>
    BY <1>27, PerThread DEF UnlockNext, table, access
  <2>2. /\ pc[t] # "using" /\ pc'[t] # "using"
        /\ pc[t] \in Alone <=> pc'[t] \in Alone
    BY <1>27, PerThread DEF UnlockNext, Alone
  <2> QED BY <2>1, <2>2, Stutter
<1>28. ASSUME NEW t \in Threads, UnlockDone(t) PROVE [Promise!Next]_(Promise!vars)
  <2>1. UNCHANGED hp /\ \A u \in Threads \ {t} : UNCHANGED <<pc[u], buckets[u]>>
    BY <1>28, PerThread DEF UnlockDone, Leave, table, access
  <2>2. /\ pc[t] # "using" /\ pc'[t] # "using"
        /\ pc[t] \in Alone <=> pc'[t] \in Alone
    BY <1>28, PerThread DEF UnlockDone, Leave, Alone
  <2> QED BY <2>1, <2>2, Stutter
<1> QED
  BY <1>0, <1>1, <1>2, <1>3, <1>4, <1>5, <1>6, <1>7, <1>8, <1>9, <1>10, <1>11,
     <1>12, <1>13, <1>14, <1>15, <1>16, <1>17, <1>18, <1>19, <1>20, <1>21,
     <1>22, <1>23, <1>24, <1>25, <1>26, <1>27, <1>28
  DEF Next, Access, Resize

-----------------------------------------------------------------------------
(* The theorems: for a table of at least the default size, whatever the     *)
(* number of threads, the hash function, and the races among operations,    *)
(* expansions and rehashes.                                                 *)

\* The invariant the theorems rest on.
THEOREM ExclusionInvariant ==
  ASSUME DefaultSize
  PROVE  Spec => []ExclusionInv
<1>1. Init => ExclusionInv
  BY InitExclusion
<1>2. TypeOK /\ RangeInv /\ ExclusionInv /\ [Next]_vars => ExclusionInv'
  BY StepExclusion
<1> QED BY <1>1, <1>2, TypeCorrect, ListsBigEnough, PTL DEF Spec

\* Two threads never use the same bucket: the "buckets and locks ... will stay
\* correct as long as the locks are held" of snapshot_and_lock_two.
THEOREM BucketsExclusive ==
  ASSUME DefaultSize
  PROVE  Spec => []BucketExclusion
BY ExclusionInvariant, ImpliesBucketExclusion, PTL

\* A thread that has taken all the locks is alone, as lock_all says.
THEOREM ResizerAlone ==
  ASSUME DefaultSize
  PROVE  Spec => []ResizeAlone
BY ExclusionInvariant, ImpliesResizeAlone, TypeCorrect, PTL

\* The buckets a thread has locked are buckets of the table as it is, and stay
\* so: the hashpower does not move under a thread that uses them.
THEOREM UsedBucketsCurrent ==
  ASSUME DefaultSize
  PROVE  Spec => []UsingCurrent
BY ExclusionInvariant, ImpliesUsingCurrent, ListsBigEnough, PTL

\* Nobody lets go of a lock that another thread has taken.
THEOREM HeldLocksStayLocked ==
  ASSUME DefaultSize
  PROVE  Spec => []HeldStaysLocked
<1>1. ExclusionInv => HeldStaysLocked
  BY DEF ExclusionInv, OwnerInv, HeldStaysLocked
<1> QED BY <1>1, ExclusionInvariant, PTL

\* No error path and no retry leaves a lock set.
THEOREM LocksNotLeftBehind ==
  ASSUME DefaultSize
  PROVE  Spec => []NoLockLeftBehind
BY ExclusionInvariant, ImpliesNoLockLeft, PTL

\* Never is everybody who is under way waiting: the lock_ind order of lock_two,
\* lock_three and lock_all is one and the same.
THEOREM DeadlockFree ==
  ASSUME DefaultSize
  PROVE  Spec => []NoDeadlock
<1>1. Init => OrderInv
  BY DEF Init, OrderInv, Ascending, Locking
<1>2. TypeOK /\ ExclusionInv /\ OrderInv /\ [Next]_vars => OrderInv'
  BY StepOrder
<1>3. TypeOK /\ ExclusionInv /\ OrderInv => NoDeadlock
  BY ImpliesNoDeadlock
<1> QED BY <1>1, <1>2, <1>3, TypeCorrect, ExclusionInvariant, PTL DEF Spec

\* The locks implement BucketAccess.
THEOREM LocksImplementBucketAccess ==
  ASSUME DefaultSize
  PROVE  Spec => ImplementsBucketAccess
<1>1. Init => Promise!Init
  BY InitPromise
<1>2. /\ TypeOK /\ RangeInv /\ ExclusionInv
      /\ TypeOK' /\ RangeInv' /\ ExclusionInv'
      /\ [Next]_vars
      => [Promise!Next]_(Promise!vars)
  BY StepPromise
<1> QED
  BY <1>1, <1>2, TypeCorrect, ListsBigEnough, ExclusionInvariant, PTL
  DEF Spec, ImplementsBucketAccess, Promise!Spec
=============================================================================
