---------------------------- MODULE CuckooTable -----------------------------
(***************************************************************************)
(* The contents of a cuckoohash_map: the slots of its buckets, the keys    *)
(* that move between them, the old buckets a doubling leaves to be moved   *)
(* later, and the element counters of the locks.                           *)
(*                                                                         *)
(* A key may be in one of two buckets.  An insert that finds both full     *)
(* lets go of its locks, looks for a path of keys that could each move to  *)
(* its other bucket, ending at a free slot, and moves them from the end.   *)
(* It takes the locks of one or two buckets at a time, and much may change *)
(* in between.  Each action of this module is what one thread does between *)
(* taking such locks and letting go of them, in one step: CuckooLocks      *)
(* shows that nobody else is in those buckets meanwhile.  The map has had  *)
(* kMaxNumLocks buckets or more when it was made, so that its lock list    *)
(* never changes.                                                          *)
(***************************************************************************)
EXTENDS Integers, Sequences, FiniteSets, Functions

CONSTANTS
  Threads,         \* the threads that use the map
  Keys,
  Values,
  Calls,           \* the calls they may make
  Hash1, Hash2,    \* [Keys and Husk -> the bits of the key's two indices]
  SlotsPerBucket,  \* slot_per_bucket(), 4 in the code
  MaxPathLen,      \* MAX_BFS_PATH_LEN, 5 in the code
  MaxNumLocks,     \* kMaxNumLocks, 2^16 in the code
  InitHp,          \* the hashpower the map is constructed with
  Limit,           \* maximum_hashpower()
  MaxHp,           \* bound: no table gets bigger, beyond the limit or not
  MinLoad,         \* minimum_load_factor(), in percent
  NothrowMove,     \* is_data_nothrow_move_constructible()
  MovesThrow,      \* moving an element to another slot or map may throw
  MaxCalls,        \* bound: how many calls the threads make together
  Husk,            \* the key of an element that was moved from
  Absent, Nobody, NoCall

HashSize(h) == 2 ^ h
Buckets(h)  == 0 .. HashSize(h) - 1

\* ^ of two numbers of h bits.
Bit(n, i)    == (n \div HashSize(i)) % 2
Xor(a, b, h) == CHOOSE c \in Buckets(h) :
                  \A i \in 0 .. h - 1 : Bit(c, i) = (Bit(a, i) + Bit(b, i)) % 2

KeyKinds    == {"find", "update", "erase", "insert", "assign", "uprase"}
WholeKinds  == {"clear", "lock table", "unlock", "size"}
LockedKinds == {"find", "erase", "insert", "clear", "rehash", "size", "unlock"}
AllCalls    == [kind : KeyKinds, key : Keys, val : Values]
                 \union [kind : {"rehash"}, hp : Nat]
                 \union [kind : WholeKinds]

ASSUME CuckooTableAssumption ==
  /\ Calls \subseteq AllCalls
  /\ Husk \notin Keys
  /\ Hash1 \in [Keys \union {Husk} -> Nat]
  /\ Hash2 \in [Keys \union {Husk} -> Nat]
  /\ SlotsPerBucket \in Nat \ {0}
  /\ MaxPathLen \in Nat \ {0}
  /\ MaxHp \in Nat
  /\ InitHp \in 0 .. Limit
  /\ Limit \in 0 .. MaxHp
  /\ \E l \in 0 .. InitHp : MaxNumLocks = HashSize(l)
  /\ MinLoad \in 0 .. 100
  /\ NothrowMove \in BOOLEAN
  /\ MovesThrow \in BOOLEAN
  /\ MaxCalls \in Nat
  /\ Absent \notin Values /\ Nobody \notin Threads /\ NoCall \notin Calls

\* The arithmetic of powers of two that the proofs need.
ASSUME HashSizeAssumption ==
  \A h \in 0 .. MaxHp :
    /\ HashSize(h) \in Nat \ {0}
    /\ HashSize(h + 1) = 2 * HashSize(h)
    /\ \A g \in 0 .. h : HashSize(h) = HashSize(g) * HashSize(h - g)
    /\ \A a, b \in Buckets(h) : Xor(a, b, h) \in Buckets(h)

VARIABLES
  hp,          \* the hashpower of buckets_
  stored,      \* the elements in buckets_
  oldHp,       \* the hashpower of old_buckets_
  old,         \* the elements in old_buckets_ that are still to be moved
  unmigrated,  \* the locks that are not is_migrated
  remaining,   \* num_remaining_lazy_rehash_locks_
  counter,     \* [Locks -> elem_counter]
  locker,      \* the thread that has a locked_table, or Nobody
  pc,          \* [Threads -> what the thread does next]
  call,        \* [Threads -> what it was called to do]
  last,        \* [Threads -> what its last call returned]
  snap,        \* [Threads -> the hashpower it reckons with]
  queue,       \* [Threads -> the b_queue of its slot_search]
  code,        \* [Threads -> the path code slot_search returned]
  path,        \* [Threads -> the CuckooRecords of its cuckoo path]
  sum,         \* [Threads -> the locks size() has read, and their sum]
  calls        \* how many calls have been made

table  == <<hp, stored, counter>>
lazy   == <<oldHp, old, unmigrated, remaining>>
search == <<queue, code, path>>
local  == <<snap, search, sum>>
vars   == <<table, lazy, locker, pc, call, last, local, calls>>

Locks       == 0 .. MaxNumLocks - 1
Slots       == 0 .. SlotsPerBucket - 1
LockInd(b)  == b % MaxNumLocks
LockInds(B) == {LockInd(b) : b \in B}

\* index_hash, and alt_index of it: the bits of a 64-bit number below h.
\* alt_index leads from either bucket of a key to the other.
I1(k, h)        == Hash1[k] % HashSize(h)
I2(k, h)        == Hash2[k] % HashSize(h)
Home(k, h)      == {I1(k, h), I2(k, h)}
SameHash(k, j)  == Hash1[k] = Hash1[j] /\ Hash2[k] = Hash2[j]

\* Of a bucket that is neither, it flips the bits in which the two differ.
AltIndex(k, h, b) ==
  IF b = I1(k, h) THEN I2(k, h)
  ELSE IF b = I2(k, h) THEN I1(k, h)
  ELSE Xor(b % HashSize(h), Xor(I1(k, h), I2(k, h), h), h)

\* An element's tag is the key whose partial is kept with it: that of its own
\* key, or of the key that was moved out of it.
Element == [bucket : Nat, slot : Slots, key : Keys \union {Husk},
            tag : Keys \union {Husk}, val : Values]
Steps   == [bucket : Nat, slot : Slots, key : Keys \union {Husk, Absent}]
PCs     == {"idle", "snapshot", "lock", "search", "trace", "move", "full",
            "resize", "expand", "clear", "lock table", "unlock", "sum"}

TypeOK ==
  /\ hp         \in 0 .. MaxHp
  /\ stored     \subseteq Element
  /\ oldHp      \in 0 .. MaxHp
  /\ old        \subseteq Element
  /\ unmigrated \subseteq Locks
  /\ remaining  \in 0 .. MaxNumLocks
  /\ counter    \in [Locks -> Int]
  /\ locker     \in Threads \union {Nobody}
  /\ pc         \in [Threads -> PCs]
  /\ call       \in [Threads -> Calls \union {NoCall}]
  /\ snap       \in [Threads -> 0 .. MaxHp]
  /\ \A t \in Threads : path[t] \in Seq(Steps) /\ Len(path[t]) <= MaxPathLen
  /\ calls      \in 0 .. MaxCalls

Init ==
  /\ hp         = InitHp
  /\ stored     = {}
  /\ oldHp      = 0
  /\ old        = {}
  /\ unmigrated = {}
  /\ remaining  = 0
  /\ counter    = [l \in Locks |-> 0]
  /\ locker     = Nobody
  /\ pc         = [t \in Threads |-> "idle"]
  /\ call       = [t \in Threads |-> NoCall]
  /\ last       = [t \in Threads |-> <<"nothing">>]
  /\ snap       = [t \in Threads |-> 0]
  /\ queue      = [t \in Threads |-> << >>]
  /\ code       = [t \in Threads |-> << >>]
  /\ path       = [t \in Threads |-> << >>]
  /\ sum        = [t \in Threads |-> [next |-> 0, total |-> 0]]
  /\ calls      = 0

-----------------------------------------------------------------------------
(* Buckets, slots and old buckets.                                         *)

Key(t)   == call[t].key
Mine(t)  == Home(Key(t), snap[t])
Free(E, b)       == {s \in Slots : \A e \in E : e.bucket = b => e.slot # s}
Hits(t, E)       == {e \in E : e.bucket \in Mine(t) /\ e.key = Key(t)}
IsLeast(s, S)    == s \in S /\ \A r \in S : s <= r
IsGreatest(s, S) == s \in S /\ \A r \in S : r <= s
Total            == FoldFunction(LAMBDA x, y : x + y, 0, counter)

\* move_bucket: by one bit more, the element's bucket is one of the upper
\* half of the doubled table.
GoesUp(e, h) ==
  \/ /\ e.bucket = I1(e.key, h)
     /\ I1(e.key, h + 1) = e.bucket + HashSize(h)
  \/ /\ e.bucket = I2(e.key, h)
     /\ I2(e.key, h + 1) = e.bucket + HashSize(h)

\* Mutant: the upper buckets are filled from slot 0, and again.
MutMoved(e, E, h) ==
  IF GoesUp(e, h) THEN [e EXCEPT !.bucket = @ + HashSize(h), !.slot = 0] ELSE e

\* Where move_bucket puts the element e of the old buckets E: the upper
\* buckets are filled slot by slot, the others keep their slots.
Moved(e, E, h) ==
  IF GoesUp(e, h)
    THEN LET before == {f \in E : /\ f.bucket = e.bucket
                                  /\ f.slot < e.slot
                                  /\ GoesUp(f, h)}
         IN  [e EXCEPT !.bucket = @ + HashSize(h), !.slot = Cardinality(before)]
    ELSE e

Waiting(L) == {e \in old : LockInd(e.bucket) \in L \intersect unmigrated}

\* The elements in buckets_ when the locks L have been through rehash_lock.
Arrived(L) == stored \union {Moved(e, old, oldHp) : e \in Waiting(L)}

\* Mutant: counted down for every lock taken.
MutMigrate(L) ==
  /\ unmigrated' = unmigrated \ L
  /\ remaining'  = remaining - Cardinality(IF unmigrated = {} THEN {} ELSE L)
  /\ old' = IF unmigrated \intersect L # {} /\ remaining' = 0
              THEN {} ELSE old \ Waiting(L)
  /\ UNCHANGED oldHp

\* The rest of rehash_lock<kIsLazy>: the last lock frees old_buckets_.
Migrate(L) ==
  /\ unmigrated' = unmigrated \ L
  /\ remaining'  = remaining - Cardinality(unmigrated \intersect L)
  /\ old' = IF unmigrated \intersect L # {} /\ remaining' = 0
              THEN {} ELSE old \ Waiting(L)
  /\ UNCHANGED oldHp

\* num_remaining_lazy_rehash_locks(0) when every lock has been rehashed.
Settle ==
  /\ unmigrated' = {}
  /\ remaining'  = 0
  /\ old'        = {}

Count(b, n) == counter' = [counter EXCEPT ![LockInd(b)] = @ + n]

Goto(t, label)  == pc' = [pc EXCEPT ![t] = label]
Forget(t, var)  == [var EXCEPT ![t] = << >>]

\* Mutant: a locked_table keeps nobody out.
MutMayEnter(t) == TRUE

\* Nobody else has a locked_table.
MayEnter(t) == locker \in {Nobody, t}

\* Mutant: the buckets are read as they are.
MutEnter(t, B) ==
  /\ MayEnter(t)
  /\ hp = snap[t]
  /\ UNCHANGED lazy

\* Mutant: no check_hashpower.
MutEnterUnchecked(t, B) ==
  /\ MayEnter(t)
  /\ Migrate(LockInds(B))

\* The locks of the buckets B are taken, the hashpower is as it was, and what
\* waits to be moved under these locks is moved.
Enter(t, B) ==
  /\ MayEnter(t)
  /\ hp = snap[t]
  /\ Migrate(LockInds(B))

\* The call returns r.
Return(t, r) ==
  /\ Goto(t, "idle")
  /\ call'  = [call EXCEPT ![t] = NoCall]
  /\ last'  = [last EXCEPT ![t] = r]
  /\ snap'  = [snap EXCEPT ![t] = 0]
  /\ queue' = Forget(t, queue)
  /\ code'  = Forget(t, code)
  /\ path'  = Forget(t, path)
  /\ sum'   = [sum EXCEPT ![t] = [next |-> 0, total |-> 0]]

Stay(t) == UNCHANGED <<locker, call, last, sum, calls>>

-----------------------------------------------------------------------------
(* Calls, and those that find their key's buckets and are done.            *)

StartOf(kind) ==
  CASE kind \in KeyKinds -> "snapshot"
    [] kind = "rehash"   -> "resize"
    [] kind = "size"     -> "sum"
    [] OTHER             -> kind

\* A member function is called; the thread that has a locked_table calls
\* those of the locked_table.
Begin(t) ==
  /\ pc[t] = "idle"
  /\ calls < MaxCalls
  /\ \E c \in Calls :
       /\ IF locker = t THEN c.kind \in LockedKinds ELSE c.kind # "unlock"
       /\ call' = [call EXCEPT ![t] = c]
       /\ Goto(t, StartOf(c.kind))
  /\ calls' = calls + 1
  /\ UNCHANGED <<table, lazy, locker, last, local>>

\* snapshot_and_lock_two reads the hashpower.
Snapshot(t) ==
  /\ pc[t] = "snapshot"
  /\ snap' = [snap EXCEPT ![t] = hp]
  /\ Goto(t, "lock")
  /\ Stay(t)
  /\ UNCHANGED <<table, lazy, search>>

\* check_hashpower throws hashpower_changed, in snapshot_and_lock_two or in
\* the search for a path, which run_cuckoo gives up.
HashpowerChanged(t) ==
  /\ pc[t] \in {"lock", "search", "trace", "move"}
  /\ MayEnter(t)
  /\ hp # snap[t]
  /\ Goto(t, "snapshot")
  /\ queue' = Forget(t, queue)
  /\ code'  = Forget(t, code)
  /\ path'  = Forget(t, path)
  /\ Stay(t)
  /\ UNCHANGED <<table, lazy, snap>>

\* find_fn, update_fn and erase_fn do not find the key.
Misses(t) ==
  /\ pc[t] = "lock"
  /\ call[t].kind \in {"find", "update", "erase"}
  /\ Enter(t, Mine(t))
  /\ stored' = Arrived(LockInds(Mine(t)))
  /\ Hits(t, stored') = {}
  /\ Return(t, <<"no">>)
  /\ UNCHANGED <<hp, counter, locker, calls>>

\* They do find it.
Finds(t) ==
  /\ pc[t] = "lock"
  /\ Enter(t, Mine(t))
  /\ LET E == Arrived(LockInds(Mine(t))) IN
     \E e \in Hits(t, E) :
       \/ /\ call[t].kind = "find"
          /\ stored' = E
          /\ Return(t, <<"value", e.val>>)
          /\ UNCHANGED counter
       \/ /\ call[t].kind = "update"
          /\ stored' = (E \ {e}) \union {[e EXCEPT !.val = call[t].val]}
          /\ Return(t, <<"yes">>)
          /\ UNCHANGED counter
       \/ /\ call[t].kind = "erase"
          /\ stored' = E \ {e}
          /\ Count(e.bucket, -1)
          /\ Return(t, <<"yes">>)
  /\ UNCHANGED <<hp, locker, calls>>

-----------------------------------------------------------------------------
(* uprase_fn.                                                              *)

\* failure_key_duplicated: the key is one of the elements E already, and the
\* functor has the element e for itself; that of uprase has it erased.
Meets(t, E) ==
  \E e \in Hits(t, E) :
    /\ \/ /\ call[t].kind = "insert"
          /\ stored' = E
          /\ UNCHANGED counter
       \/ /\ call[t].kind = "assign"
          /\ stored' = (E \ {e}) \union {[e EXCEPT !.val = call[t].val]}
          /\ UNCHANGED counter
       \/ /\ call[t].kind = "uprase"
          /\ stored' = E \ {e}
          /\ Count(e.bucket, -1)
    /\ Return(t, <<"no">>)

\* Mutant: the counter is left to the functor.
MutAdds(t, E, b, s) ==
  LET e == [bucket |-> b, slot |-> s,
         key |-> Key(t), tag |-> Key(t), val |-> call[t].val] IN
  /\ \/ /\ call[t].kind \in {"insert", "assign"}
        /\ stored' = E \union {e}
        /\ UNCHANGED counter
     \/ /\ call[t].kind = "uprase"
        /\ stored' = E
        /\ UNCHANGED counter
  /\ Return(t, <<"yes">>)

\* add_to_bucket, and the functor.
Adds(t, E, b, s) ==
  LET e == [bucket |-> b, slot |-> s,
         key |-> Key(t), tag |-> Key(t), val |-> call[t].val] IN
  /\ \/ /\ call[t].kind \in {"insert", "assign"}
        /\ stored' = E \union {e}
        /\ Count(b, 1)
     \/ /\ call[t].kind = "uprase"
        /\ stored' = E
        /\ UNCHANGED counter
  /\ Return(t, <<"yes">>)

Inserts(t) == call[t].kind \in {"insert", "assign", "uprase"}

\* cuckoo_insert: the key is there already.
InsertMeets(t) ==
  /\ pc[t] = "lock"
  /\ Inserts(t)
  /\ Enter(t, Mine(t))
  /\ Meets(t, Arrived(LockInds(Mine(t))))
  /\ UNCHANGED <<hp, locker, calls>>

\* It is not, and there is a free slot: the last one of the first bucket if
\* that has one, of the second bucket otherwise.
InsertAdds(t) ==
  /\ pc[t] = "lock"
  /\ Inserts(t)
  /\ Enter(t, Mine(t))
  /\ LET E  == Arrived(LockInds(Mine(t)))
         i1 == I1(Key(t), snap[t])
     IN  /\ Hits(t, E) = {}
         /\ \E b \in Mine(t), s \in Slots :
              /\ IsGreatest(s, Free(E, b))
              /\ b # i1 => Free(E, i1) = {}
              /\ Adds(t, E, b, s)
  /\ UNCHANGED <<hp, locker, calls>>

\* The b_queue that slot_search starts with.
FirstQueue(t) ==
  << [bucket |-> I1(Key(t), snap[t]), code |-> <<0>>],
     [bucket |-> I2(Key(t), snap[t]), code |-> <<1>>] >>

\* cuckoopath_search starts, for the first time or over again.
SearchAgain(t) ==
  /\ Goto(t, "search")
  /\ queue' = [queue EXCEPT ![t] = FirstQueue(t)]
  /\ code'  = Forget(t, code)
  /\ path'  = Forget(t, path)

\* There is none: run_cuckoo lets go of both buckets.
InsertSearches(t) ==
  /\ pc[t] = "lock"
  /\ Inserts(t)
  /\ Enter(t, Mine(t))
  /\ stored' = Arrived(LockInds(Mine(t)))
  /\ Hits(t, stored') = {}
  /\ \A b \in Mine(t) : Free(stored', b) = {}
  /\ SearchAgain(t)
  /\ Stay(t)
  /\ UNCHANGED <<hp, counter, snap>>

\* The ith slot slot_search looks at in the bucket it dequeued as x.
SlotAt(x, i) == (x.code[Len(x.code)] + i) % SlotsPerBucket

\* slot_search dequeues a bucket and finds a free slot in it.
SearchFinds(t) ==
  /\ pc[t] = "search"
  /\ LET x == Head(queue[t]) IN
     /\ Enter(t, {x.bucket})
     /\ stored' = Arrived(LockInds({x.bucket}))
     /\ \E i \in Slots :
          /\ IsLeast(i, {j \in Slots : SlotAt(x, j) \in Free(stored', x.bucket)})
          /\ code' = [code EXCEPT ![t] = Append(x.code, SlotAt(x, i))]
  /\ queue' = Forget(t, queue)
  /\ Goto(t, "trace")
  /\ Stay(t)
  /\ UNCHANGED <<hp, counter, snap, path>>

\* Mutant: one bucket more.
MutShort(x) == Len(x.code) <= MaxPathLen

\* The path to the bucket x may become longer.
Short(x) == Len(x.code) < MaxPathLen

\* It finds none and enqueues the other buckets of the elements in it, by
\* their tags, unless the path is long enough.  Nothing left to dequeue: the table is full.
SearchGoesOn(t) ==
  /\ pc[t] = "search"
  /\ LET x == Head(queue[t])
         next(i) ==
           LET s == SlotAt(x, i - 1)
               e == CHOOSE f \in stored' : f.bucket = x.bucket /\ f.slot = s
           IN  [bucket |-> AltIndex(e.tag, snap[t], x.bucket),
                code   |-> Append(x.code, s)]
     IN
     /\ Enter(t, {x.bucket})
     /\ stored' = Arrived(LockInds({x.bucket}))
     /\ Free(stored', x.bucket) = {}
     /\ queue' = [queue EXCEPT ![t] = Tail(@) \o
                    (IF Short(x)
                       THEN [i \in 1 .. SlotsPerBucket |-> next(i)]
                       ELSE << >>)]
  /\ Goto(t, IF queue'[t] = << >> THEN "full" ELSE "search")
  /\ Stay(t)
  /\ UNCHANGED <<hp, counter, snap, code, path>>

\* cuckoopath_search goes along the path and notes what is there now.
Trace(t) ==
  /\ pc[t] = "trace"
  /\ LET i    == Len(path[t]) + 1
         s    == code[t][i + 1]
         b    == IF i = 1
                   THEN IF code[t][1] = 0 THEN I1(Key(t), snap[t])
                                          ELSE I2(Key(t), snap[t])
                   ELSE AltIndex(path[t][i - 1].key, snap[t], path[t][i - 1].bucket)
         here == {e \in stored' : e.bucket = b /\ e.slot = s}
         done == here = {} \/ i + 1 = Len(code[t])
     IN
     /\ Enter(t, {b})
     /\ stored' = Arrived(LockInds({b}))
     /\ \E k \in IF here = {} THEN {Absent} ELSE {e.key : e \in here} :
          path' = [path EXCEPT ![t] =
                     Append(@, [bucket |-> b, slot |-> s, key |-> k])]
     /\ Goto(t, IF done THEN "move" ELSE "trace")
     /\ code' = IF done THEN Forget(t, code) ELSE code
  /\ Stay(t)
  /\ UNCHANGED <<hp, counter, snap, queue>>

\* Mutant: no second look for the key.
MutLands(t, E) == Adds(t, E, path[t][1].bucket, path[t][1].slot)

\* The path's first slot is free and both buckets of the key are locked; the
\* key may have been inserted meanwhile.
Lands(t, E) ==
  \/ Meets(t, E)
  \/ /\ Hits(t, E) = {}
     /\ Adds(t, E, path[t][1].bucket, path[t][1].slot)

\* cuckoopath_move along a path of one slot, which should be free.
MoveNone(t) ==
  /\ pc[t] = "move"
  /\ Len(path[t]) = 1
  /\ Enter(t, Mine(t))
  /\ LET E == Arrived(LockInds(Mine(t))) IN
     \/ /\ path[t][1].slot \in Free(E, path[t][1].bucket)
        /\ Lands(t, E)
        /\ UNCHANGED <<hp, locker, calls>>
     \/ /\ path[t][1].slot \notin Free(E, path[t][1].bucket)
        /\ stored' = E
        /\ SearchAgain(t)
        /\ Stay(t)
        /\ UNCHANGED <<hp, counter, snap>>

\* The buckets cuckoopath_move locks for the last move of the path p: the
\* move out of the first slot needs both buckets of the key as well.
MoveLocks(t, p) ==
  LET d == Len(p) IN
  IF d = 2 THEN Mine(t) \union {p[2].bucket} ELSE {p[d - 1].bucket, p[d].bucket}

\* Mutant: who is in the slot does not matter.
MutMovable(E, from, to) ==
  {e \in E : /\ e.bucket = from.bucket /\ e.slot = from.slot
             /\ to.slot \in Free(E, to.bucket)}

\* The elements that may still be moved so: the slot to move to is free, and
\* the one to move from has a key of the hash that was noted.
Movable(E, from, to) ==
  {e \in E : /\ e.bucket = from.bucket /\ e.slot = from.slot
             /\ SameHash(e.key, from.key)
             /\ to.slot \in Free(E, to.bucket)}

\* cuckoopath_move moves the key of the last slot but one.
MoveOne(t) ==
  /\ pc[t] = "move"
  /\ Len(path[t]) > 1
  /\ LET p    == path[t]
         d    == Len(p)
         B    == MoveLocks(t, p)
         E    == Arrived(LockInds(B))
     IN
     /\ Enter(t, B)
     /\ \E e \in Movable(E, p[d - 1], p[d]) :
          LET F == (E \ {e}) \union
                     {[e EXCEPT !.bucket = p[d].bucket, !.slot = p[d].slot]}
          IN
          \/ /\ d = 2
             /\ Lands(t, F)
             /\ UNCHANGED <<hp, locker, calls>>
          \/ /\ d > 2
             /\ stored' = F
             /\ path' = [path EXCEPT ![t] = SubSeq(p, 1, d - 1)]
             /\ Stay(t)
             /\ UNCHANGED <<hp, counter, snap, pc, queue, code>>

\* The move throws: nothing has changed, or the key is out of its old slot
\* and lost with the new one.
MoveThrows(t) ==
  /\ MovesThrow /\ ~NothrowMove
  /\ pc[t] = "move"
  /\ Len(path[t]) > 1
  /\ LET p == path[t]
         E == Arrived(LockInds(MoveLocks(t, p)))
     IN
     /\ Enter(t, MoveLocks(t, p))
     /\ \E e \in Movable(E, p[Len(p) - 1], p[Len(p)]) :
          stored' \in {E, (E \ {e}) \union {[e EXCEPT !.key = Husk]}}
  /\ Return(t, <<"threw">>)
  /\ UNCHANGED <<hp, counter, locker, calls>>

\* It finds another key, or none, or the free slot taken: a new search.
MoveFails(t) ==
  /\ pc[t] = "move"
  /\ Len(path[t]) > 1
  /\ LET p == path[t]
         E == Arrived(LockInds(MoveLocks(t, p)))
     IN
     /\ Enter(t, MoveLocks(t, p))
     /\ Movable(E, p[Len(p) - 1], p[Len(p)]) = {}
     /\ stored' = E
  /\ SearchAgain(t)
  /\ Stay(t)
  /\ UNCHANGED <<hp, counter, snap>>

-----------------------------------------------------------------------------
(* The whole table.                                                        *)

All == Arrived(Locks)

\* check_resize_validity throws: above the maximum hashpower, or too empty to
\* grow by itself.
Forbidden(n, automatic) ==
  \/ n > Limit
  \/ automatic /\ 100 * Total < MinLoad * HashSize(hp) * SlotsPerBucket

\* What cuckoo_fast_double makes of the buckets when all of them have been
\* moved: they wait to be moved again, or they are moved at once, as there
\* are fewer of them than locks or as the caller has a locked_table.
Doubled ==
  IF HashSize(hp) < MaxNumLocks \/ locker # Nobody
    THEN /\ stored' = {Moved(e, All, hp) : e \in All}
         /\ Settle
    ELSE /\ stored'     = {}
         /\ old'        = All
         /\ unmigrated' = Locks
         /\ remaining'  = MaxNumLocks

\* cuckoo_fast_double: the table doubles.
Doubles(t) ==
  /\ pc[t] = "full"
  /\ NothrowMove
  /\ MayEnter(t)
  /\ ~Forbidden(snap[t] + 1, TRUE)
  /\ hp = snap[t]
  /\ Doubled
  /\ hp'    = hp + 1
  /\ oldHp' = hp
  /\ Goto(t, "snapshot")
  /\ Stay(t)
  /\ UNCHANGED <<counter, snap, search>>

\* Mutant: the same doubling is tried again.
MutOvertaken(t) ==
  /\ pc[t] = "full"
  /\ NothrowMove
  /\ MayEnter(t)
  /\ ~Forbidden(snap[t] + 1, TRUE)
  /\ hp # snap[t]
  /\ Goto(t, "full")
  /\ Stay(t)
  /\ UNCHANGED <<table, lazy, snap, search>>

\* Another expansion was faster.
Overtaken(t) ==
  /\ pc[t] = "full"
  /\ NothrowMove
  /\ MayEnter(t)
  /\ ~Forbidden(snap[t] + 1, TRUE)
  /\ hp # snap[t]
  /\ Goto(t, "snapshot")
  /\ Stay(t)
  /\ UNCHANGED <<table, lazy, snap, search>>

Goal(t)      == IF pc[t] = "full" THEN snap[t] + 1 ELSE call[t].hp
Expanding(t) == pc[t] = "expand" \/ (pc[t] = "full" /\ ~NothrowMove)

\* The insert or the rehash ends with the exception of check_resize_validity.
Refused(t) ==
  /\ Expanding(t) \/ pc[t] = "full"
  /\ MayEnter(t)
  /\ Forbidden(Goal(t), pc[t] = "full")
  /\ Return(t, <<"threw">>)
  /\ UNCHANGED <<table, lazy, locker, calls>>

\* Mutant: by the hashpower of the table that is replaced.
MutFillings(E, n) ==
  LET KeysOf   == {e.key : e \in E}
      Val(k)   == (CHOOSE e \in E : e.key = k).val
      Bucket(k, c) == IF c[1] = 1 THEN I1(k, hp) ELSE I2(k, hp)
  IN  {{[bucket |-> Bucket(k, f[k]), slot |-> f[k][2],
         key |-> k, tag |-> k, val |-> Val(k)] :
          k \in KeysOf} : f \in [KeysOf -> {1, 2} \X Slots]}

\* The keys of the elements E, each in one of its two buckets of a table of
\* hashpower n, no two in one slot: what inserting them one by one may give.
Fillings(E, n) ==
  LET KeysOf   == {e.key : e \in E}
      Val(k)   == (CHOOSE e \in E : e.key = k).val
      Bucket(k, c) == IF c[1] = 1 THEN I1(k, n) ELSE I2(k, n)
      Apart(f) == \A j, k \in KeysOf :
                    j # k => \/ Bucket(j, f[j]) # Bucket(k, f[k])
                             \/ f[j][2] # f[k][2]
  IN  {{[bucket |-> Bucket(k, f[k]), slot |-> f[k][2],
         key |-> k, tag |-> k, val |-> Val(k)] :
          k \in KeysOf} : f \in {g \in [KeysOf -> {1, 2} \X Slots] : Apart(g)}}

\* cuckoo_expand_simple: every element is inserted into a new map, which gets
\* bigger than asked for if they do not fit; to start with, they have to be
\* more than a bucket holds.  The new map has no maximum_hashpower of its own,
\* so that the table may outgrow the limit.  It may be a small one and be
\* filled by several threads: what they can do to each other there, as in
\* CuckooLocks, is left out.  The counters stay.
ExpandsSimple(t) ==
  /\ Expanding(t)
  /\ MayEnter(t)
  /\ ~Forbidden(Goal(t), pc[t] = "full")
  /\ \E n \in Goal(t) .. MaxHp :
       /\ n > Goal(t) => Cardinality(All) > SlotsPerBucket
       /\ stored' \in Fillings(All, n)
       /\ hp' = n
  /\ Settle
  /\ UNCHANGED <<counter, oldHp, locker, calls>>
  /\ IF pc[t] = "full"
       THEN /\ Goto(t, "snapshot")
            /\ UNCHANGED <<call, last, local>>
       ELSE Return(t, <<"yes">>)

Before(e, f) ==
  e.bucket < f.bucket \/ (e.bucket = f.bucket /\ e.slot < f.slot)

\* One of these insertions throws: the element's constructor, or the new
\* map, whose load factor may be too low to grow.  The elements before that
\* one have been moved out of the table, which stays in use.
FillFails(t) ==
  /\ MovesThrow
  /\ Expanding(t)
  /\ MayEnter(t)
  /\ ~Forbidden(Goal(t), pc[t] = "full")
  /\ \E f \in All :
       stored' = {IF Before(e, f) THEN [e EXCEPT !.key = Husk] ELSE e : e \in All}
  /\ Settle
  /\ Return(t, <<"threw">>)
  /\ UNCHANGED <<hp, counter, oldHp, locker, calls>>

\* cuckoo_rehash: the hashpower is the one asked for.
NoRehash(t) ==
  /\ pc[t] = "resize"
  /\ hp = call[t].hp
  /\ Return(t, <<"no">>)
  /\ UNCHANGED <<table, lazy, locker, calls>>

\* It is another: cuckoo_expand_simple.
Rehashes(t) ==
  /\ pc[t] = "resize"
  /\ hp # call[t].hp
  /\ Goto(t, "expand")
  /\ Stay(t)
  /\ UNCHANGED <<table, lazy, snap, search>>

\* clear.
Clear(t) ==
  /\ pc[t] = "clear"
  /\ MayEnter(t)
  /\ stored'  = {}
  /\ counter' = [l \in Locks |-> 0]
  /\ Settle
  /\ Return(t, <<"yes">>)
  /\ UNCHANGED <<hp, oldHp, locker, calls>>

\* lock_table: all the locks, and everything is moved that waits.
LockTable(t) ==
  /\ pc[t] = "lock table"
  /\ locker  = Nobody
  /\ locker' = t
  /\ stored' = All
  /\ Settle
  /\ Return(t, <<"yes">>)
  /\ UNCHANGED <<hp, oldHp, counter, calls>>

\* unlock of the locked_table.
UnlockTable(t) ==
  /\ pc[t] = "unlock"
  /\ locker' = Nobody
  /\ Return(t, <<"yes">>)
  /\ UNCHANGED <<table, lazy, calls>>

\* size() reads the next counter, without its lock.
ReadCounter(t) ==
  /\ pc[t] = "sum"
  /\ sum[t].next < MaxNumLocks
  /\ sum' = [sum EXCEPT ![t] = [next  |-> @.next + 1,
                                total |-> @.total + counter[@.next]]]
  /\ UNCHANGED <<table, lazy, locker, pc, call, last, snap, search, calls>>

SizeReturns(t) ==
  /\ pc[t] = "sum"
  /\ sum[t].next = MaxNumLocks
  /\ Return(t, <<"size", sum[t].total>>)
  /\ UNCHANGED <<table, lazy, locker, calls>>

-----------------------------------------------------------------------------
Access(t) ==
  \/ Snapshot(t) \/ HashpowerChanged(t) \/ Misses(t) \/ Finds(t)

Insert(t) ==
  \/ InsertMeets(t) \/ InsertAdds(t) \/ InsertSearches(t)
  \/ SearchFinds(t) \/ SearchGoesOn(t) \/ Trace(t)
  \/ MoveNone(t) \/ MoveOne(t) \/ MoveThrows(t) \/ MoveFails(t)

Resize(t) ==
  \/ Doubles(t) \/ Overtaken(t) \/ Refused(t)
  \/ ExpandsSimple(t) \/ FillFails(t) \/ NoRehash(t) \/ Rehashes(t)

Whole(t) ==
  \/ Clear(t) \/ LockTable(t) \/ UnlockTable(t)
  \/ ReadCounter(t) \/ SizeReturns(t)

Step(t) == Access(t) \/ Insert(t) \/ Resize(t) \/ Whole(t)
Next    == \E t \in Threads : Begin(t) \/ Step(t)

(* A thread that has called the map goes on; the locks it needs are free in *)
(* every state but those in which another thread has a locked_table.        *)
Fairness == \A t \in Threads : WF_vars(Step(t))

Spec     == Init /\ [][Next]_vars
FairSpec == Spec /\ Fairness

-----------------------------------------------------------------------------
(* Properties.                                                             *)

\* No two elements are in one slot, as setKV asserts, whoever moves or adds
\* them: paths, inserts, doublings.  bucket_container.hh:170-182.
SlotsHoldOne ==
  \A E \in {stored, old} : \A e, f \in E :
    (e.bucket = f.bucket /\ e.slot = f.slot) => e = f

\* No key is in the map twice, in whichever of its buckets, moved or still
\* waiting in the old buckets.  cuckoohash_map.hh:1276-1278.
NoKeyTwice ==
  /\ \A E \in {stored, old} : \A e, f \in E :
       (e.key = f.key /\ e.key \in Keys) => e = f
  /\ \A e \in stored, f \in old : e.key = f.key => e.key = Husk

\* Every element is where a search for its key looks for it: in one of the
\* two buckets of the table as it is, or in an old bucket whose lock still
\* has to be migrated.  cuckoohash_map.hh:1265-1268, 1759-1762.
InHomeBucket ==
  /\ \A e \in stored : e.key \in Keys => e.bucket \in Home(e.key, hp)
  /\ \A e \in old : /\ e.key \in Keys => e.bucket \in Home(e.key, oldHp)
                    /\ LockInd(e.bucket) \in unmigrated

\* The counters of all the locks add up to the number of elements, though a
\* single one may be off or negative.  cuckoohash_map.hh:806-808.
CountersAddUp == Total = Cardinality(stored) + Cardinality(old)

\* While locks wait to be migrated the old buckets are half the table, every
\* old bucket and both its successors have one lock, and the count that frees
\* the old buckets is right.  cuckoohash_map.hh:953-956, 2043-2050.
MigrationSound ==
  /\ remaining = Cardinality(unmigrated)
  /\ unmigrated # {} => hp = oldHp + 1 /\ HashSize(oldHp) >= MaxNumLocks
  /\ unmigrated = {} => old = {}

\* What size() adds up is never negative, as it asserts.
\* cuckoohash_map.hh:342.
SizeNotNegative ==
  \A t \in Threads : sum[t].next = MaxNumLocks => sum[t].total >= 0

\* An expansion that throws leaves the elements alone: the strong exception
\* guarantee of cuckoo_expand_simple.  cuckoohash_map.hh:1672-1675.
KeysIn == {e.key : e \in stored \union old}
StrongGuarantee ==
  [][\A t \in Threads :
       (pc[t] \in {"full", "expand"} /\ pc'[t] = "idle" /\ last'[t] = <<"threw">>)
         => KeysIn' = KeysIn]_vars

\* The map a user sees: every call takes effect at once, on a map in which a
\* key has the value its one element has, in old or new buckets.
Map ==
  [k \in Keys |->
     IF k \in KeysIn THEN (CHOOSE e \in stored \union old : e.key = k).val
                     ELSE Absent]

Promise == INSTANCE ConcurrentMap WITH map <- Map, sole <- locker

ImplementsConcurrentMap == Promise!Spec

\* Every call returns, as long as no move throws: searches that are disturbed,
\* doublings that are overtaken and migrations that others carry on come to an
\* end.  cuckoohash_map.hh:1179-1181, 1193-1216.
CallsReturn == \A t \in Threads : (call[t] # NoCall) ~> (call[t] = NoCall)
=============================================================================
