---------------------------- MODULE CuckooLocks -----------------------------
(***************************************************************************)
(* The locking protocol of libcuckoo's cuckoohash_map, the concurrent map  *)
(* the backend ships to keep its clients in.                               *)
(*                                                                         *)
(* A bucket is protected by the spinlock with its index modulo             *)
(* kMaxNumLocks in the CURRENT lock list, the last one of all_locks_.      *)
(* Threads lock the few buckets they need in ascending order and then look *)
(* whether the hashpower is still the one they computed the buckets with.  *)
(* A thread that resizes locks every lock, appends a bigger lock list if   *)
(* the new table needs one, and changes the hashpower.  Old lists stay, as *)
(* threads may be waiting in them.                                         *)
(*                                                                         *)
(* Here are the locks, the hashpower and who may touch which bucket when.  *)
(* What the buckets contain is left out: a key is the set of its two       *)
(* buckets, and any set may be the key's, as with an arbitrary hash.       *)
(***************************************************************************)
EXTENDS Integers, Sequences, FiniteSets

CONSTANTS
  Threads,      \* the threads that use the map
  Resizers,     \* those of them that may change its size
  Jobs,         \* the ways in which they may do so
  MaxNumLocks,  \* kMaxNumLocks, 2^16 in the code
  InitHp,       \* the hashpower the map is constructed with
  MaxHp,        \* bound: the largest hashpower
  MaxTurns      \* bound: how often a thread sets out to take locks

\* "double" is the expansion an insert into a full table asks for, "expand"
\* the same for data that is not nothrow move constructible, "rehash" stands
\* for rehash and reserve, "table" for lock_table and clear.
JobSet == {"double", "expand", "rehash", "table"}

HashSize(h) == 2 ^ h

ASSUME CuckooLocksAssumption ==
  /\ Resizers \subseteq Threads
  /\ Jobs \subseteq JobSet
  /\ MaxNumLocks \in Nat \ {0}
  /\ MaxHp \in Nat
  /\ InitHp \in 0 .. MaxHp
  /\ MaxTurns \in Nat

\* The arithmetic of powers of two that the proofs need.
ASSUME HashSizeAssumption ==
  \A h \in 0 .. MaxHp :
    /\ HashSize(h) \in Nat \ {0}
    /\ \A g \in 0 .. h : HashSize(g) <= HashSize(h)

VARIABLES
  hp,       \* the hashpower of buckets_
  oldHp,    \* the hashpower of old_buckets_
  lists,    \* all_locks_: the size of every lock list
  locked,   \* the locks that are set, each a pair <<list, index>>
  pc,       \* [Threads -> what the thread does next]
  job,      \* [Threads -> why it takes all the locks]
  snap,     \* [Threads -> the hashpower it computed its buckets with]
  buckets,  \* [Threads -> the buckets it wants or has]
  cur,      \* [Threads -> the lock list it works on]
  first,    \* [Threads -> first_locked of its AllLocksManager]
  todo,     \* [Threads -> the indices in cur still to be locked or unlocked]
  held,     \* [Threads -> the locks it has taken and not given back]
  goal,     \* [Threads -> the hashpower it resizes to]
  turns     \* [Threads -> how often it set out to take locks]

table  == <<hp, oldHp, lists>>
locks  == <<locked, held>>
access == <<snap, buckets>>
resize == <<job, first, goal>>
vars   == <<table, locks, access, resize, pc, cur, todo, turns>>

PCs == {"idle", "snapshot", "get locks", "first", "check", "more", "using",
        "release", "released", "lock all", "locking", "alone", "swap",
        "set", "finish", "unlocking"}

\* A thread in one of these has the table for itself.
Alone == {"alone", "swap", "set", "finish"}

Buckets(h) == 0 .. HashSize(h) - 1
LockInd(b) == b % MaxNumLocks
LockInds(B) == {LockInd(b) : b \in B}
LockCount(h) == IF HashSize(h) < MaxNumLocks THEN HashSize(h) ELSE MaxNumLocks
Locks == (1 .. Len(lists)) \X (0 .. MaxNumLocks - 1)
IsLeast(l, S) == l \in S /\ \A k \in S : l <= k

TypeOK ==
  /\ hp      \in 0 .. MaxHp
  /\ oldHp   \in 0 .. MaxHp
  /\ lists   \in Seq(1 .. MaxNumLocks) /\ lists # << >>
  /\ locked  \subseteq Locks
  /\ pc      \in [Threads -> PCs]
  /\ job     \in [Threads -> JobSet \union {"none"}]
  /\ snap    \in [Threads -> 0 .. MaxHp]
  /\ buckets \in [Threads -> SUBSET Buckets(MaxHp)]
  /\ cur     \in [Threads -> 1 .. Len(lists)]
  /\ first   \in [Threads -> 1 .. Len(lists)]
  /\ todo    \in [Threads -> SUBSET (0 .. MaxNumLocks - 1)]
  /\ held    \in [Threads -> SUBSET Locks]
  /\ goal    \in [Threads -> 0 .. MaxHp]
  /\ turns   \in [Threads -> 0 .. MaxTurns]

\* The constructor; old_buckets_ has hashpower 0.
Init ==
  /\ hp      = InitHp
  /\ oldHp   = 0
  /\ lists   = <<LockCount(InitHp)>>
  /\ locked  = {}
  /\ pc      = [t \in Threads |-> "idle"]
  /\ job     = [t \in Threads |-> "none"]
  /\ snap    = [t \in Threads |-> InitHp]
  /\ buckets = [t \in Threads |-> {}]
  /\ cur     = [t \in Threads |-> 1]
  /\ first   = [t \in Threads |-> 1]
  /\ todo    = [t \in Threads |-> {}]
  /\ held    = [t \in Threads |-> {}]
  /\ goal    = [t \in Threads |-> InitHp]
  /\ turns   = [t \in Threads |-> 0]

Goto(t, label) == pc' = [pc EXCEPT ![t] = label]

\* The operation returns and its local variables are gone.
Leave(t) ==
  /\ Goto(t, "idle")
  /\ job'     = [job EXCEPT ![t] = "none"]
  /\ snap'    = [snap EXCEPT ![t] = InitHp]
  /\ buckets' = [buckets EXCEPT ![t] = {}]
  /\ cur'     = [cur EXCEPT ![t] = 1]
  /\ first'   = [first EXCEPT ![t] = 1]
  /\ goal'    = [goal EXCEPT ![t] = InitHp]

\* The bound: a thread sets out to take locks once more.
Turn(t) ==
  /\ turns[t] < MaxTurns
  /\ turns' = [turns EXCEPT ![t] = @ + 1]

\* Mutant: the indices are not sorted first.
MutLockUnsorted(t) ==
  \E l \in todo[t] :
    /\ <<cur[t], l>> \notin locked
    /\ locked' = locked \union {<<cur[t], l>>}
    /\ held'   = [held EXCEPT ![t] = @ \union {<<cur[t], l>>}]
    /\ todo'   = [todo EXCEPT ![t] = @ \ {l}]

\* lock() of the least lock in todo[t] succeeds.
LockLeast(t) ==
  \E l \in todo[t] :
    /\ IsLeast(l, todo[t])
    /\ <<cur[t], l>> \notin locked
    /\ locked' = locked \union {<<cur[t], l>>}
    /\ held'   = [held EXCEPT ![t] = @ \union {<<cur[t], l>>}]
    /\ todo'   = [todo EXCEPT ![t] = @ \ {l}]

\* unlock() of the locks L; LockManager lets go of its spinlock.
Unlock(t, L) ==
  /\ locked' = locked \ L
  /\ held'   = [held EXCEPT ![t] = @ \ L]

-----------------------------------------------------------------------------
(* Taking the locks of a few buckets.                                      *)

\* find_fn, update_fn, erase_fn or uprase_fn is called.
Begin(t) ==
  /\ pc[t] = "idle"
  /\ Turn(t)
  /\ Goto(t, "snapshot")
  /\ UNCHANGED <<table, locks, access, resize, cur, todo>>

\* snapshot_and_lock_two reads the hashpower and computes i1 and i2.
Snapshot(t) ==
  /\ pc[t] = "snapshot"
  /\ \E i1, i2 \in Buckets(hp) : buckets' = [buckets EXCEPT ![t] = {i1, i2}]
  /\ snap' = [snap EXCEPT ![t] = hp]
  /\ Goto(t, "get locks")
  /\ UNCHANGED <<table, locks, resize, cur, todo, turns>>

\* Mutant: only one of the locks.
MutGetFirstLock(t) ==
  /\ pc[t] = "get locks"
  /\ cur'  = [cur EXCEPT ![t] = Len(lists)]
  /\ todo' = [todo EXCEPT ![t] =
                {l \in LockInds(buckets[t]) : IsLeast(l, LockInds(buckets[t]))}]
  /\ Goto(t, "first")
  /\ UNCHANGED <<table, locks, access, resize, turns>>

\* lock_one, lock_two and lock_three: get_current_locks().
GetLocks(t) ==
  /\ pc[t] = "get locks"
  /\ cur'  = [cur EXCEPT ![t] = Len(lists)]
  /\ todo' = [todo EXCEPT ![t] = LockInds(buckets[t])]
  /\ Goto(t, "first")
  /\ UNCHANGED <<table, locks, access, resize, turns>>

LockFirst(t) ==
  /\ pc[t] = "first"
  /\ LockLeast(t)
  /\ Goto(t, "check")
  /\ UNCHANGED <<table, access, resize, cur, turns>>

\* Mutant: no check of the hashpower.
MutNoCheck(t) ==
  /\ pc[t] = "check"
  /\ Goto(t, IF todo[t] = {} THEN "using" ELSE "more")
  /\ UNCHANGED <<table, locks, access, resize, cur, todo, turns>>

\* check_hashpower: the hashpower is still the one of the snapshot.
CheckPasses(t) ==
  /\ pc[t] = "check"
  /\ hp = snap[t]
  /\ Goto(t, IF todo[t] = {} THEN "using" ELSE "more")
  /\ UNCHANGED <<table, locks, access, resize, cur, todo, turns>>

\* Mutant: hashpower_changed is thrown with the lock still taken.
MutCheckFailsLocked(t) ==
  /\ pc[t] = "check"
  /\ hp # snap[t]
  /\ todo' = [todo EXCEPT ![t] = {}]
  /\ held' = [held EXCEPT ![t] = {}]
  /\ Goto(t, "snapshot")
  /\ UNCHANGED <<table, locked, access, resize, cur, turns>>

\* It is not: hashpower_changed.  Whoever catches it, snapshot_and_lock_two
\* or, through failure_under_expansion, cuckoo_insert_loop, starts again.
CheckFails(t) ==
  /\ pc[t] = "check"
  /\ hp # snap[t]
  /\ Unlock(t, held[t])
  /\ todo' = [todo EXCEPT ![t] = {}]
  /\ Goto(t, "snapshot")
  /\ UNCHANGED <<table, access, resize, cur, turns>>

LockMore(t) ==
  /\ pc[t] = "more"
  /\ LockLeast(t)
  /\ Goto(t, IF todo'[t] = {} THEN "using" ELSE "more")
  /\ UNCHANGED <<table, access, resize, cur, turns>>

\* cuckoopath_move keeps the two buckets of the key and lets go of the third
\* one it locked with lock_three.
KeepTwo(t) ==
  /\ pc[t] = "using"
  /\ Cardinality(buckets[t]) = 3
  /\ \E b \in buckets[t] :
       LET rest == buckets[t] \ {b} IN
       /\ buckets' = [buckets EXCEPT ![t] = rest]
       /\ Unlock(t, {<<cur[t], l>> : l \in {LockInd(b)} \ LockInds(rest)})
  /\ UNCHANGED <<table, snap, resize, pc, cur, todo, turns>>

\* The lock managers let go, one after the other.
Release(t) ==
  /\ pc[t] \in {"using", "release"}
  /\ \E k \in held[t] :
       /\ Unlock(t, {k})
       /\ Goto(t, IF held[t] = {k} THEN "released" ELSE "release")
  /\ UNCHANGED <<table, access, resize, cur, todo, turns>>

\* The operation is over.
Return(t) ==
  /\ pc[t] = "released"
  /\ Leave(t)
  /\ UNCHANGED <<table, locks, todo, turns>>

\* run_cuckoo has let go of the buckets of a key that found no slot.  The
\* search for a cuckoo path and the moves along it lock one, two or three
\* buckets at a time and expect the hashpower of the snapshot.
Cuckoo(t) ==
  /\ pc[t] = "released"
  /\ Turn(t)
  /\ \E a, b, c \in Buckets(snap[t]) :
       buckets' = [buckets EXCEPT ![t] = {a, b, c}]
  /\ Goto(t, "get locks")
  /\ UNCHANGED <<table, locks, snap, resize, cur, todo>>

-----------------------------------------------------------------------------
(* Taking all the locks and resizing.                                      *)

\* failure_table_full: cuckoo_insert_loop calls cuckoo_fast_double.
TableFull(t) ==
  /\ pc[t] = "released"
  /\ t \in Resizers
  /\ snap[t] < MaxHp
  /\ Turn(t)
  /\ \E j \in Jobs \intersect {"double", "expand"} :
       job' = [job EXCEPT ![t] = j]
  /\ goal' = [goal EXCEPT ![t] = snap[t] + 1]
  /\ Goto(t, "lock all")
  /\ UNCHANGED <<table, locks, access, first, cur, todo>>

\* rehash(n) or reserve; nothing to do if n is the hashpower.
Rehash(t) ==
  /\ pc[t] = "idle"
  /\ t \in Resizers
  /\ "rehash" \in Jobs
  /\ Turn(t)
  /\ \E n \in (0 .. MaxHp) \ {hp} : goal' = [goal EXCEPT ![t] = n]
  /\ job' = [job EXCEPT ![t] = "rehash"]
  /\ Goto(t, "lock all")
  /\ UNCHANGED <<table, locks, access, first, cur, todo>>

\* lock_table() or clear().
LockTable(t) ==
  /\ pc[t] = "idle"
  /\ t \in Resizers
  /\ "table" \in Jobs
  /\ Turn(t)
  /\ job' = [job EXCEPT ![t] = "table"]
  /\ Goto(t, "lock all")
  /\ UNCHANGED <<table, locks, access, first, goal, cur, todo>>

\* Mutant: the loop over the locks starts at the second one.
MutLockAllFromOne(t) ==
  /\ pc[t] = "lock all"
  /\ first' = [first EXCEPT ![t] = Len(lists)]
  /\ cur'   = [cur EXCEPT ![t] = Len(lists)]
  /\ todo'  = [todo EXCEPT ![t] = 1 .. lists[Len(lists)] - 1]
  /\ Goto(t, "locking")
  /\ UNCHANGED <<table, locks, access, job, goal, turns>>

\* lock_all: first_locked = std::prev(all_locks_.end()).
LockAll(t) ==
  /\ pc[t] = "lock all"
  /\ first' = [first EXCEPT ![t] = Len(lists)]
  /\ cur'   = [cur EXCEPT ![t] = Len(lists)]
  /\ todo'  = [todo EXCEPT ![t] = 0 .. lists[Len(lists)] - 1]
  /\ Goto(t, "locking")
  /\ UNCHANGED <<table, locks, access, job, goal, turns>>

LockAllStep(t) ==
  /\ pc[t] = "locking"
  /\ LockLeast(t)
  /\ UNCHANGED <<table, access, resize, pc, cur, turns>>

\* ++current_locks: a list that was appended meanwhile is locked as well.
LockAllNext(t) ==
  /\ pc[t] = "locking"
  /\ todo[t] = {}
  /\ cur[t] < Len(lists)
  /\ cur'  = [cur EXCEPT ![t] = @ + 1]
  /\ todo' = [todo EXCEPT ![t] = 0 .. lists[cur[t] + 1] - 1]
  /\ UNCHANGED <<table, locks, access, resize, pc, turns>>

LockAllDone(t) ==
  /\ pc[t] = "locking"
  /\ todo[t] = {}
  /\ cur[t] = Len(lists)
  /\ Goto(t, "alone")
  /\ UNCHANGED <<table, locks, access, resize, cur, todo, turns>>

\* check_resize_validity of cuckoo_fast_double: another expansion was faster.
Overtaken(t) ==
  /\ pc[t] = "alone"
  /\ job[t] = "double"
  /\ hp # goal[t] - 1
  /\ Goto(t, "finish")
  /\ UNCHANGED <<table, locks, access, resize, cur, todo, turns>>

\* check_resize_validity throws load_factor_too_low or
\* maximum_hashpower_exceeded.
Refused(t) ==
  /\ pc[t] = "alone"
  /\ job[t] \in {"double", "expand", "rehash"}
  /\ job' = [job EXCEPT ![t] = "none"]
  /\ Goto(t, "finish")
  /\ UNCHANGED <<table, locks, access, first, goal, cur, todo, turns>>

\* Mutant: sized for the table as it is.
MutGrowLate(t, h) ==
  IF lists[Len(lists)] < LockCount(hp)
    THEN /\ lists'  = Append(lists, LockCount(hp))
         /\ locked' = locked \union ({Len(lists) + 1} \X (0 .. LockCount(hp) - 1))
         /\ held'   = [held EXCEPT ![t] =
                         @ \union ({Len(lists) + 1} \X (0 .. LockCount(hp) - 1))]
    ELSE UNCHANGED <<lists, locks>>

\* maybe_resize_locks: the new list is appended with all its locks taken.
GrowLocks(t, h) ==
  IF lists[Len(lists)] < LockCount(h)
    THEN /\ lists'  = Append(lists, LockCount(h))
         /\ locked' = locked \union ({Len(lists) + 1} \X (0 .. LockCount(h) - 1))
         /\ held'   = [held EXCEPT ![t] =
                         @ \union ({Len(lists) + 1} \X (0 .. LockCount(h) - 1))]
    ELSE UNCHANGED <<lists, locks>>

\* cuckoo_fast_double goes ahead; so does an insert into a locked_table.
FastDouble(t) ==
  /\ pc[t] = "alone"
  /\ hp < MaxHp
  /\ \/ /\ job[t] = "double"
        /\ hp = goal[t] - 1
        /\ UNCHANGED turns
     \/ /\ job[t] = "table"
        /\ Turn(t)
  /\ goal' = [goal EXCEPT ![t] = hp + 1]
  /\ GrowLocks(t, hp + 1)
  /\ Goto(t, "swap")
  /\ UNCHANGED <<hp, oldHp, access, job, first, cur, todo>>

\* cuckoo_expand_simple goes ahead; so does a rehash of a locked_table.  The
\* map it fills gets at least the hashpower asked for, more if the elements
\* do not fit.
ExpandSimple(t) ==
  /\ pc[t] = "alone"
  /\ \/ /\ job[t] \in {"expand", "rehash"}
        /\ \E n \in goal[t] .. MaxHp :
             /\ goal' = [goal EXCEPT ![t] = n]
             /\ GrowLocks(t, n)
        /\ UNCHANGED turns
     \/ /\ job[t] = "table"
        /\ Turn(t)
        /\ \E n \in (0 .. MaxHp) \ {hp} :
             /\ goal' = [goal EXCEPT ![t] = n]
             /\ GrowLocks(t, n)
  /\ Goto(t, "set")
  /\ UNCHANGED <<hp, oldHp, access, job, first, cur, todo>>

\* old_buckets_.swap(buckets_) of cuckoo_fast_double.
SwapBuckets(t) ==
  /\ pc[t] = "swap"
  /\ hp'    = oldHp
  /\ oldHp' = hp
  /\ Goto(t, "set")
  /\ UNCHANGED <<lists, locks, access, resize, cur, todo, turns>>

\* Mutant: twice the doubling.
MutSetHashpower(t) ==
  /\ pc[t] = "set"
  /\ hp' = goal[t] + 1
  /\ Goto(t, IF job[t] = "table" THEN "alone" ELSE "finish")
  /\ UNCHANGED <<oldHp, lists, locks, access, resize, cur, todo, turns>>

\* buckets_ = buckets_t(new_hp), or buckets_.swap(new_map.buckets_).
SetHashpower(t) ==
  /\ pc[t] = "set"
  /\ hp' = goal[t]
  /\ Goto(t, IF job[t] = "table" THEN "alone" ELSE "finish")
  /\ UNCHANGED <<oldHp, lists, locks, access, resize, cur, todo, turns>>

\* The AllLocksManager goes out of scope, or the locked_table is unlocked:
\* AllUnlocker starts at first_locked.
UnlockAll(t) ==
  /\ \/ pc[t] = "finish"
     \/ pc[t] = "alone" /\ job[t] = "table"
  /\ cur'  = [cur EXCEPT ![t] = first[t]]
  /\ todo' = [todo EXCEPT ![t] = 0 .. lists[first[t]] - 1]
  /\ Goto(t, "unlocking")
  /\ UNCHANGED <<table, locks, access, resize, turns>>

UnlockStep(t) ==
  /\ pc[t] = "unlocking"
  /\ \E l \in todo[t] :
       /\ IsLeast(l, todo[t])
       /\ Unlock(t, {<<cur[t], l>>})
       /\ todo' = [todo EXCEPT ![t] = @ \ {l}]
  /\ UNCHANGED <<table, access, resize, pc, cur, turns>>

\* ++it, compared with the end of the list as it is NOW.
UnlockNext(t) ==
  /\ pc[t] = "unlocking"
  /\ todo[t] = {}
  /\ cur[t] < Len(lists)
  /\ cur'  = [cur EXCEPT ![t] = @ + 1]
  /\ todo' = [todo EXCEPT ![t] = 0 .. lists[cur[t] + 1] - 1]
  /\ UNCHANGED <<table, locks, access, resize, pc, turns>>

\* An insert goes on with snapshot_and_lock_two, every other caller returns.
UnlockDone(t) ==
  /\ pc[t] = "unlocking"
  /\ todo[t] = {}
  /\ cur[t] = Len(lists)
  /\ IF job[t] \in {"double", "expand"}
       THEN /\ Goto(t, "snapshot")
            /\ UNCHANGED <<access, resize, cur>>
       ELSE Leave(t)
  /\ UNCHANGED <<table, locks, todo, turns>>

-----------------------------------------------------------------------------
Access(t) ==
  \/ Begin(t) \/ Snapshot(t) \/ GetLocks(t) \/ LockFirst(t)
  \/ CheckPasses(t) \/ CheckFails(t) \/ LockMore(t)
  \/ KeepTwo(t) \/ Release(t) \/ Return(t) \/ Cuckoo(t)

Resize(t) ==
  \/ TableFull(t) \/ Rehash(t) \/ LockTable(t)
  \/ LockAll(t) \/ LockAllStep(t) \/ LockAllNext(t) \/ LockAllDone(t)
  \/ Overtaken(t) \/ Refused(t) \/ FastDouble(t) \/ ExpandSimple(t)
  \/ SwapBuckets(t) \/ SetHashpower(t)
  \/ UnlockAll(t) \/ UnlockStep(t) \/ UnlockNext(t) \/ UnlockDone(t)

Next == \E t \in Threads : Access(t) \/ Resize(t)

(* The operating system runs every thread; a spinning thread gets the lock *)
(* once the lock stays free.                                               *)
Fairness == \A t \in Threads : WF_vars(pc[t] # "idle" /\ (Access(t) \/ Resize(t)))

Spec     == Init /\ [][Next]_vars
FairSpec == Spec /\ Fairness

-----------------------------------------------------------------------------
(* Properties.                                                             *)

\* A lock index is inside the lock list it is used with: a thread that sees
\* a new hashpower sees the lock list that goes with it.
\* cuckoohash_map.hh:1714-1717.
LockIndexInRange ==
  \A t \in Threads :
    pc[t] \in {"first", "check", "more"} =>
      todo[t] \subseteq 0 .. lists[cur[t]] - 1

\* Two threads never use the same bucket.  cuckoohash_map.hh:1062-1068.
BucketExclusion ==
  \A t, u \in Threads :
    (t # u /\ pc[t] = "using" /\ pc[u] = "using") =>
      buckets[t] \intersect buckets[u] = {}

\* While a thread has taken all the locks, no other thread uses a bucket or
\* has taken all the locks too.  cuckoohash_map.hh:1088-1089.
ResizeAlone ==
  \A t, u \in Threads :
    (t # u /\ pc[t] \in Alone) => pc[u] \notin Alone \union {"using"}

\* The buckets a thread uses exist, and are its key's, as long as it uses
\* them: the hashpower does not move.  cuckoohash_map.hh:1064-1067.
UsingCurrent ==
  \A t \in Threads :
    pc[t] = "using" => snap[t] = hp /\ buckets[t] \subseteq Buckets(hp)

\* Nobody lets go of a lock that another thread has taken.
\* cuckoohash_map.hh:1107-1108.
HeldStaysLocked ==
  \A t \in Threads : held[t] \subseteq locked

\* No lock is left behind: every lock that is set has a thread that will let
\* go of it, and it is not an idle one.  cuckoohash_map.hh:922-925.
NoLockLeftBehind ==
  \A k \in locked :
    \E t \in Threads : k \in held[t] /\ pc[t] # "idle"

\* The lock the thread wants next is taken.
Waits(t) ==
  /\ pc[t] \in {"first", "more", "locking"}
  /\ \E l \in todo[t] : IsLeast(l, todo[t]) /\ <<cur[t], l>> \in locked

\* Never does everybody who is under way wait for a lock: not with the three
\* locks of three buckets, not with all the locks, and not in lists that have
\* been replaced.  cuckoohash_map.hh:1035-1040.
NoDeadlock ==
  (\A t \in Threads : pc[t] = "idle" \/ Waits(t)) => \A t \in Threads : pc[t] = "idle"

\* The locks do what BucketAccess says: a thread that uses buckets has them
\* for itself, a thread that has all the locks is alone, and only then does
\* the hashpower move.
Uses   == [t \in Threads |-> IF pc[t] = "using" THEN buckets[t] ELSE {}]
HasAll == {t \in Threads : pc[t] \in Alone}

Promise == INSTANCE BucketAccess WITH
  Hashpowers <- 0 .. MaxHp,
  uses       <- Uses,
  alone      <- HasAll

ImplementsBucketAccess == Promise!Spec

\* Every operation returns: no deadlock among bucket locks taken in pairs
\* and threes and the resizers that take them all.  cuckoohash_map.hh:993-994.
OperationsReturn ==
  \A t \in Threads : (pc[t] # "idle") ~> (pc[t] = "idle")
=============================================================================
