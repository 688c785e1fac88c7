------------------------- MODULE CuckooTableProofs --------------------------
(***************************************************************************)
(* CuckooTable never puts two elements in one slot, has no key twice, has  *)
(* every element where a search looks for it and moves every old bucket    *)
(* with its lock, whatever the threads do, for every size of the table, of *)
(* the buckets and of the lock list.                                       *)
(***************************************************************************)
EXTENDS CuckooTableContents, SequenceTheorems

-----------------------------------------------------------------------------
(* The inductive invariant.                                                *)

\* A path code has its first bucket and then a slot of each bucket.
Codes == {c \in Seq(Nat) : Len(c) >= 1 /\ \A i \in 2 .. Len(c) : c[i] \in Slots}
Items == [bucket : Nat, code : {c \in Codes : Len(c) <= MaxPathLen}]

ThreadsTyped ==
  /\ pc      \in [Threads -> PCs]
  /\ call    \in [Threads -> Calls \union {NoCall}]
  /\ snap    \in [Threads -> 0 .. MaxHp]
  /\ queue   \in [Threads -> Seq(Items)]
  /\ code    \in [Threads -> Seq(Nat)]
  /\ path    \in [Threads -> Seq(Steps)]

RestTyped ==
  /\ counter \in [Locks -> Int]
  /\ locker  \in Threads \union {Nobody}
  /\ calls   \in 0 .. MaxCalls

KeyPCs == {"snapshot", "lock", "search", "trace", "move", "full"}

\* A thread does what it was called for.
OnCall(t) ==
  /\ pc[t] \in KeyPCs => call[t] \in Calls /\ call[t].kind \in KeyKinds
  /\ pc[t] \in {"resize", "expand"} => call[t] \in Calls /\ call[t].kind = "rehash"

\* A search has something to go on with, and never gets too long.
OnSearch(t) ==
  /\ pc[t] = "search" => queue[t] # << >>
  /\ pc[t] = "trace"  => /\ code[t] \in Codes
                         /\ Len(path[t]) + 2 <= Len(code[t])
                         /\ Len(code[t]) <= MaxPathLen + 1
  /\ pc[t] = "move"   => path[t] # << >>
  /\ pc[t] \notin {"trace", "move"} => path[t] = << >>
  /\ Len(path[t]) <= MaxPathLen

\* A path starts in a bucket of the key, and each of its buckets is the other
\* bucket of the key that was noted in the one before.
OnPath(t) ==
  /\ path[t] # << >> => path[t][1].bucket \in Mine(t)
  /\ \A i \in 1 .. Len(path[t]) - 1 :
       path[t][i + 1].bucket = AltIndex(path[t][i].key, snap[t], path[t][i].bucket)
  /\ \A i \in 1 .. Len(path[t]) :
       i < Len(path[t]) \/ pc[t] = "trace" => path[t][i].key \in Keys \union {Husk}

Contents ==
  /\ Sound(stored, old, unmigrated, hp, oldHp)
  /\ remaining = Cardinality(unmigrated)

ThreadInv == \A t \in Threads : OnCall(t) /\ OnSearch(t) /\ OnPath(t)

Inv == ThreadsTyped /\ RestTyped /\ Contents /\ ThreadInv

-----------------------------------------------------------------------------
(* The contents of the buckets.                                            *)

\* Taking locks moves what waits under them, and keeps the count right.
LEMMA EnterSound ==
  ASSUME Contents, NEW t, NEW B, Enter(t, B)
  PROVE  /\ Sound(Arrived(LockInds(B)), old', unmigrated', hp, oldHp')
         /\ remaining' = Cardinality(unmigrated')
         /\ LockInds(B) \intersect unmigrated' = {}
         /\ hp = snap[t]
         /\ \A b \in B : LockInd(b) \notin unmigrated'
         /\ old' = old \ Waiting(LockInds(B))
<1> DEFINE L == LockInds(B)
<1>1. /\ hp = snap[t]
      /\ unmigrated' = unmigrated \ L
      /\ remaining'  = remaining - Cardinality(unmigrated \intersect L)
      /\ old' = IF unmigrated \intersect L # {} /\ remaining' = 0
                  THEN {} ELSE old \ Waiting(L)
      /\ oldHp' = oldHp
  BY DEF Enter, Migrate
<1>2. Sound(Arrived(L), old \ Waiting(L), unmigrated \ L, hp, oldHp)
  BY SomeArrive DEF Contents, Arrived, Waiting
<1>3. IsFiniteSet(unmigrated)
  <2>1. IsFiniteSet(Locks)
    BY LockIndType, FS_Interval DEF Locks
  <2> QED  BY <2>1, FS_Subset DEF Contents, Sound
<1>4. remaining' = Cardinality(unmigrated')
  <2>1. /\ IsFiniteSet(unmigrated \ L)
        /\ Cardinality(unmigrated \ L)
             = Cardinality(unmigrated) - Cardinality(unmigrated \intersect L)
    BY <1>3, FS_Difference
  <2> QED  BY <1>1, <2>1 DEF Contents
<1>5. old' = old \ Waiting(L)
  <2>1. CASE unmigrated \intersect L # {} /\ remaining' = 0
    <3>1. unmigrated \ L = {}
      BY <1>1, <1>3, <1>4, <2>1, FS_Difference, FS_EmptySet
    <3>2. old \ Waiting(L) = {}
      BY <1>2, <3>1, NothingWaits
    <3> QED  BY <1>1, <2>1, <3>2
  <2>2. CASE ~(unmigrated \intersect L # {} /\ remaining' = 0)
    BY <1>1, <2>2
  <2> QED  BY <2>1, <2>2
<1>6. \A b \in B : LockInd(b) \in L
  BY DEF LockInds
<1> QED  BY <1>1, <1>2, <1>4, <1>5, <1>6

\* With all the locks, everything is in one table.
LEMMA AllFilled ==
  ASSUME Contents
  PROVE  /\ Filled(All, hp)
         /\ All = stored \union {Moved(e, old, oldHp) : e \in old}
<1>1. Sound(All, old \ Waiting(Locks), unmigrated \ Locks, hp, oldHp)
  BY SomeArrive DEF Contents, All, Arrived, Waiting
<1>2. Waiting(Locks) = old
  BY DEF Waiting, Contents, Sound
<1> QED  BY <1>1, <1>2 DEF Sound, All, Arrived

\* Nothing is left to migrate.
LEMMA SettleSound ==
  ASSUME Contents, Settle, hp' \in 0 .. MaxHp, oldHp' \in 0 .. MaxHp, Filled(stored', hp')
  PROVE  Contents'
BY Settled, FS_EmptySet DEF Settle, Contents

\* What a call does for a key it meets.
LEMMA MeetsSound ==
  ASSUME NEW t \in Threads, NEW E, Meets(t, E), OnCall(t), pc[t] \in KeyPCs,
         Sound(E, old', unmigrated', hp, oldHp')
  PROVE  Sound(stored', old', unmigrated', hp, oldHp')
<1>1. call[t].val \in Values
  BY CuckooTableAssumption DEF OnCall, AllCalls, KeyKinds, WholeKinds
<1>2. PICK e \in Hits(t, E) :
        \/ stored' = E
        \/ stored' = (E \ {e}) \union {[e EXCEPT !.val = call[t].val]}
        \/ stored' = E \ {e}
  BY DEF Meets
<1>3. e \in E
  BY DEF Hits
<1> QED  BY <1>1, <1>2, <1>3, Changed, Removed

\* What a call has: a key and a value.
LEMMA CallType ==
  ASSUME NEW t \in Threads, OnCall(t), pc[t] \in KeyPCs
  PROVE  Key(t) \in Keys /\ call[t].val \in Values
BY CuckooTableAssumption DEF OnCall, AllCalls, KeyKinds, WholeKinds, Key

\* A key that is in none of its buckets is added in a free slot of one of them.
LEMMA AddsSound ==
  ASSUME NEW t \in Threads, OnCall(t), pc[t] \in KeyPCs, NEW E, NEW b, NEW s \in Slots,
         Sound(E, old', unmigrated', hp, oldHp'), hp = snap[t],
         LockInds(Mine(t)) \intersect unmigrated' = {},
         Hits(t, E) = {}, b \in Mine(t), s \in Free(E, b), Adds(t, E, b, s)
  PROVE  Sound(stored', old', unmigrated', hp, oldHp')
<1> DEFINE e == [bucket |-> b, slot |-> s,
                 key |-> Key(t), tag |-> Key(t), val |-> call[t].val]
<1>1. Key(t) \in Keys /\ call[t].val \in Values
  BY CallType
<1>2. b \in Home(Key(t), hp) /\ b \in Buckets(hp) /\ b \in Nat
  BY <1>1, HomeType DEF Mine, Sound
<1>3. \A f \in E \union old' : f.key # Key(t)
  BY <1>1, NotHit DEF Mine, Hits
<1>4. e \in Element
  BY <1>1, <1>2 DEF Element
<1>5. \A f \in E : f.bucket = e.bucket => f.slot # e.slot
  BY DEF Free
<1>6. LockInd(e.bucket) \notin unmigrated'
  BY DEF LockInds
<1>7. Sound(E \union {e}, old', unmigrated', hp, oldHp')
  BY <1>2, <1>3, <1>4, <1>5, <1>6, Added
<1>8. stored' = E \union {e} \/ stored' = E
  BY DEF Adds
<1> QED  BY <1>7, <1>8

\* The contents after locks were taken and nothing else was done.
LEMMA EnterContents ==
  ASSUME Contents, NEW t, NEW B, Enter(t, B), stored' = Arrived(LockInds(B)), hp' = hp
  PROVE  Contents'
BY EnterSound DEF Contents

LEMMA MissesContents ==
  ASSUME Inv, NEW t \in Threads, Misses(t)
  PROVE  Contents'
BY EnterContents DEF Inv, Misses

LEMMA FindsContents ==
  ASSUME Inv, NEW t \in Threads, Finds(t)
  PROVE  Contents'
<1> DEFINE E == Arrived(LockInds(Mine(t)))
<1>1. Enter(t, Mine(t)) /\ hp' = hp /\ OnCall(t) /\ pc[t] \in KeyPCs /\ Contents
  BY DEF Finds, Inv, ThreadInv, KeyPCs
<1>2. Sound(E, old', unmigrated', hp, oldHp') /\ remaining' = Cardinality(unmigrated')
  BY <1>1, EnterSound
<1>3. PICK e \in Hits(t, E) :
        \/ stored' = E
        \/ stored' = (E \ {e}) \union {[e EXCEPT !.val = call[t].val]}
        \/ stored' = E \ {e}
  BY DEF Finds
<1>4. e \in E /\ call[t].val \in Values
  BY <1>1, CallType DEF Hits
<1>5. Sound(stored', old', unmigrated', hp, oldHp')
  BY <1>2, <1>3, <1>4, Changed, Removed
<1> QED  BY <1>1, <1>2, <1>5 DEF Contents

LEMMA InsertMeetsContents ==
  ASSUME Inv, NEW t \in Threads, InsertMeets(t)
  PROVE  Contents'
<1>1. Enter(t, Mine(t)) /\ hp' = hp /\ OnCall(t) /\ pc[t] \in KeyPCs /\ Contents
  BY DEF InsertMeets, Inv, ThreadInv, KeyPCs
<1>2. Sound(stored', old', unmigrated', hp, oldHp')
  BY <1>1, EnterSound, MeetsSound DEF InsertMeets
<1> QED  BY <1>1, <1>2, EnterSound DEF Contents

LEMMA InsertAddsContents ==
  ASSUME Inv, NEW t \in Threads, InsertAdds(t)
  PROVE  Contents'
<1> DEFINE E == Arrived(LockInds(Mine(t)))
<1>1. Enter(t, Mine(t)) /\ hp' = hp /\ OnCall(t) /\ pc[t] \in KeyPCs /\ Contents
  BY DEF InsertAdds, Inv, ThreadInv, KeyPCs
<1>2. PICK b \in Mine(t), s \in Slots :
        Hits(t, E) = {} /\ s \in Free(E, b) /\ Adds(t, E, b, s)
  BY DEF InsertAdds, IsGreatest
<1>3. Sound(stored', old', unmigrated', hp, oldHp')
  BY <1>1, <1>2, EnterSound, AddsSound
<1> QED  BY <1>1, <1>3, EnterSound DEF Contents

LEMMA InsertSearchesContents ==
  ASSUME Inv, NEW t \in Threads, InsertSearches(t)
  PROVE  Contents'
BY EnterContents DEF Inv, InsertSearches

LEMMA SearchFindsContents ==
  ASSUME Inv, NEW t \in Threads, SearchFinds(t)
  PROVE  Contents'
BY EnterContents DEF Inv, SearchFinds

LEMMA SearchGoesOnContents ==
  ASSUME Inv, NEW t \in Threads, SearchGoesOn(t)
  PROVE  Contents'
BY EnterContents DEF Inv, SearchGoesOn

LEMMA TraceContents ==
  ASSUME Inv, NEW t \in Threads, Trace(t)
  PROVE  Contents'
<1>1. PICK b : Enter(t, {b}) /\ stored' = Arrived(LockInds({b})) /\ hp' = hp
  BY DEF Trace
<1> QED  BY <1>1, EnterContents DEF Inv

LEMMA MoveFailsContents ==
  ASSUME Inv, NEW t \in Threads, MoveFails(t)
  PROVE  Contents'
BY EnterContents DEF Inv, MoveFails

\* The key lands in the first slot of its path, which is free.
LEMMA LandsSound ==
  ASSUME NEW t \in Threads, OnCall(t), pc[t] \in KeyPCs, NEW E,
         Sound(E, old', unmigrated', hp, oldHp'), hp = snap[t],
         LockInds(Mine(t)) \intersect unmigrated' = {},
         path[t][1].bucket \in Mine(t), path[t][1].slot \in Slots,
         path[t][1].slot \in Free(E, path[t][1].bucket), Lands(t, E)
  PROVE  Sound(stored', old', unmigrated', hp, oldHp')
BY MeetsSound, AddsSound DEF Lands

\* What is noted of a slot on the path.
LEMMA PathType ==
  ASSUME Inv, NEW t \in Threads, NEW i \in 1 .. Len(path[t])
  PROVE  /\ path[t] \in Seq(Steps)
         /\ Len(path[t]) \in Nat
         /\ path[t][i].bucket \in Nat
         /\ path[t][i].slot \in Slots
<1>1. path[t] \in Seq(Steps)
  BY DEF Inv, ThreadsTyped
<1>2. path[t][i] \in Steps
  BY <1>1
<1> QED  BY <1>1, <1>2 DEF Steps

LEMMA NotEmpty ==
  ASSUME NEW p, Len(p) = 1
  PROVE  p # << >>
OBVIOUS

LEMMA MoveNoneContents ==
  ASSUME Inv, NEW t \in Threads, MoveNone(t)
  PROVE  Contents'
<1> DEFINE E == Arrived(LockInds(Mine(t)))
<1>1. /\ Enter(t, Mine(t)) /\ hp' = hp /\ OnCall(t) /\ pc[t] \in KeyPCs /\ Contents
      /\ OnPath(t) /\ Len(path[t]) = 1
  BY DEF MoveNone, Inv, ThreadInv, KeyPCs
<1>2. path[t][1].slot \in Slots /\ path[t][1].bucket \in Mine(t)
  <2>1. 1 \in 1 .. Len(path[t])
    BY <1>1
  <2>2. path[t] # << >>
    BY <1>1, NotEmpty
  <2> QED  BY <1>1, <2>1, <2>2, PathType DEF OnPath
<1>3. CASE stored' = E
  BY <1>1, <1>3, EnterContents
<1>4. CASE path[t][1].slot \in Free(E, path[t][1].bucket) /\ Lands(t, E)
  <2>1. Sound(stored', old', unmigrated', hp, oldHp')
    BY <1>1, <1>2, <1>4, EnterSound, LandsSound
  <2> QED  BY <1>1, <2>1, EnterSound DEF Contents
<1> QED  BY <1>3, <1>4 DEF MoveNone

\* The elements E when e has moved to the place to.
Shifted(E, e, to) ==
  (E \ {e}) \union {[e EXCEPT !.bucket = to.bucket, !.slot = to.slot]}

\* A key that has the hash that was noted goes to its other bucket.
LEMMA MovableSound ==
  ASSUME NEW E, NEW O, NEW U, NEW h, NEW g, Sound(E, O, U, h, g),
         NEW from, NEW to, from.key \in Keys \union {Husk},
         to.bucket = AltIndex(from.key, h, from.bucket), to.slot \in Slots,
         LockInd(to.bucket) \notin U, NEW e \in Movable(E, from, to)
  PROVE  /\ Sound(Shifted(E, e, to), O, U, h, g)
         /\ from.slot \in Slots => from.slot \in Free(Shifted(E, e, to), from.bucket)
<1> DEFINE f == [e EXCEPT !.bucket = to.bucket, !.slot = to.slot]
           F == (E \ {e}) \union {f}
<1>1. /\ e \in E /\ e \in Element
      /\ e.bucket = from.bucket /\ e.slot = from.slot
      /\ Hash1[e.key] = Hash1[from.key] /\ Hash2[e.key] = Hash2[from.key]
      /\ to.slot \in Free(E, to.bucket)
  BY DEF Movable, SameHash, Sound, Filled
<1>2. h \in 0 .. MaxHp /\ e.key \in Keys \union {Husk}
  BY <1>1, ElementFields DEF Sound
<1>3. ASSUME e.key \in Keys
      PROVE  to.bucket \in Home(e.key, h)
  <2>1. e.bucket \in Home(e.key, h)
    BY <1>1, <1>3 DEF Sound, Filled, Housed
  <2> QED  BY <1>1, <2>1 DEF AltIndex, Home, I1, I2
<1>4. to.bucket \in Buckets(h) /\ to.bucket \in Nat
  BY <1>1, <1>2, ElementFields, AltIndexType
<1>5. f \in Element /\ f.key = e.key /\ f.bucket = to.bucket /\ f.slot = to.slot /\ f.val = e.val
  BY <1>1, <1>4 DEF Element
<1>6. \A d \in E : d.bucket = to.bucket => d.slot # to.slot
  BY <1>1 DEF Free
<1>7. Sound(F, O, U, h, g)
  <2>1. /\ f.bucket \in Buckets(h) /\ LockInd(f.bucket) \notin U
        /\ f.key \in Keys => f.bucket \in Home(f.key, h)
        /\ f \in Element /\ f.key = e.key
    BY <1>3, <1>4, <1>5
  <2>2. \A d \in E \ {e} : d.bucket = f.bucket => d.slot # f.slot
    BY <1>5, <1>6
  <2> HIDE DEF f
  <2> QED  BY <1>1, <2>1, <2>2, Replaced
<1>8. ASSUME from.slot \in Slots
      PROVE  from.slot \in Free(F, from.bucket)
  <2>1. \A d \in E \ {e} : d.bucket = from.bucket => d.slot # from.slot
    BY <1>1 DEF Sound, Filled, OneInASlot
  <2>2. f.bucket = from.bucket => f.slot # from.slot
    BY <1>1, <1>5, <1>6
  <2> QED  BY <1>8, <2>1, <2>2 DEF Free
<1> QED  BY <1>7, <1>8 DEF Shifted

\* Both ends of a path of two slots or more.
LEMMA PathEnds ==
  ASSUME Inv, NEW t \in Threads, OnPath(t), Len(path[t]) > 1
  PROVE  LET p == path[t]
             d == Len(p)
         IN  /\ p[1].bucket \in Mine(t) /\ p[1].slot \in Slots /\ p[d].slot \in Slots
             /\ p[d - 1].key \in Keys \union {Husk} /\ p[d].bucket \in Nat
             /\ p[d].bucket = AltIndex(p[d - 1].key, snap[t], p[d - 1].bucket)
<1> DEFINE p == path[t]
           d == Len(p)
<1>1. d > 1
  OBVIOUS
<1>2. d \in Nat
  BY DEF Inv, ThreadsTyped
<1>3. 1 \in 1 .. d /\ d \in 1 .. d /\ d - 1 \in 1 .. d /\ d - 1 \in 1 .. Len(p) - 1
  BY <1>1, <1>2
<1>4. p[1].slot \in Slots /\ p[d].slot \in Slots /\ p[d].bucket \in Nat
  BY <1>3, PathType
<1>5. p # << >>
  BY <1>1
<1>6. p[(d - 1) + 1].bucket = AltIndex(p[d - 1].key, snap[t], p[d - 1].bucket)
  BY <1>1, <1>3 DEF OnPath
<1>7. (d - 1) + 1 = d /\ d - 1 < d
  BY <1>2
<1> QED  BY <1>1, <1>3, <1>4, <1>5, <1>6, <1>7 DEF OnPath

LEMMA MoveOneContents ==
  ASSUME Inv, NEW t \in Threads, MoveOne(t)
  PROVE  Contents'
<1> DEFINE p == path[t]
           d == Len(p)
           B == MoveLocks(t, p)
           E == Arrived(LockInds(B))
           F(e) == Shifted(E, e, p[d])
<1>1. /\ Enter(t, B) /\ hp' = hp /\ OnCall(t) /\ pc[t] \in KeyPCs /\ Contents
      /\ OnPath(t) /\ d > 1
  BY DEF MoveOne, Inv, ThreadInv, KeyPCs
<1>2. d \in Nat
  BY DEF Inv, ThreadsTyped
<1>3. /\ p[1].bucket \in Mine(t) /\ p[1].slot \in Slots /\ p[d].slot \in Slots
      /\ p[d - 1].key \in Keys \union {Husk}
      /\ p[d].bucket = AltIndex(p[d - 1].key, snap[t], p[d - 1].bucket)
  BY <1>1, PathEnds
<1>4. p[d].bucket \in B /\ (d = 2 => Mine(t) \subseteq B)
  BY DEF MoveLocks
<1>5. /\ Sound(E, old', unmigrated', hp, oldHp')
      /\ remaining' = Cardinality(unmigrated')
      /\ hp = snap[t]
      /\ LockInd(p[d].bucket) \notin unmigrated'
      /\ d = 2 => LockInds(Mine(t)) \intersect unmigrated' = {}
  <2>1. d = 2 => LockInds(Mine(t)) \subseteq LockInds(B)
    BY <1>4 DEF LockInds
  <2> QED  BY <1>1, <1>4, <2>1, EnterSound
<1>6. PICK e \in Movable(E, p[d - 1], p[d]) :
        \/ d = 2 /\ Lands(t, F(e))
        \/ stored' = F(e)
  BY DEF MoveOne, Shifted
<1>7. /\ Sound(F(e), old', unmigrated', hp, oldHp')
      /\ p[d - 1].slot \in Slots => p[d - 1].slot \in Free(F(e), p[d - 1].bucket)
  <2> HIDE DEF E, p, d
  <2>1. p[d].bucket = AltIndex(p[d - 1].key, hp, p[d - 1].bucket)
    BY <1>3, <1>5
  <2> QED  BY <1>3, <1>5, <2>1, MovableSound
<1>8. CASE d = 2 /\ Lands(t, F(e))
  <2>1. p[1].slot \in Free(F(e), p[1].bucket)
    BY <1>3, <1>7, <1>8
  <2>2. Sound(stored', old', unmigrated', hp, oldHp')
    BY <1>1, <1>3, <1>5, <1>7, <1>8, <2>1, LandsSound
  <2> QED  BY <1>1, <1>5, <2>2 DEF Contents
<1>9. CASE stored' = F(e)
  BY <1>1, <1>5, <1>7, <1>9 DEF Contents
<1> QED  BY <1>6, <1>8, <1>9

LEMMA MoveThrowsContents ==
  ASSUME Inv, NEW t \in Threads, MoveThrows(t)
  PROVE  Contents'
<1> DEFINE p == path[t]
           d == Len(p)
           E == Arrived(LockInds(MoveLocks(t, p)))
<1>1. Enter(t, MoveLocks(t, p)) /\ hp' = hp /\ Contents
  BY DEF MoveThrows, Inv
<1>2. /\ Sound(E, old', unmigrated', hp, oldHp')
      /\ remaining' = Cardinality(unmigrated')
  BY <1>1, EnterSound
<1>3. PICK e \in Movable(E, p[d - 1], p[d]) :
        stored' = E \/ stored' = (E \ {e}) \union {[e EXCEPT !.key = Husk]}
  BY DEF MoveThrows
<1>4. e \in E
  BY DEF Movable
<1> HIDE DEF E
<1>5. Sound(stored', old', unmigrated', hp, oldHp')
  BY <1>2, <1>3, <1>4, TurnedHusk
<1> QED  BY <1>1, <1>2, <1>5 DEF Contents

\* check_resize_validity lets no table pass that is too big.
LEMMA NotTooBig ==
  ASSUME NEW n \in Nat, NEW a, ~Forbidden(n, a)
  PROVE  n \in 0 .. MaxHp
BY CuckooTableAssumption DEF Forbidden

LEMMA DoublesContents ==
  ASSUME Inv, NEW t \in Threads, Doubles(t)
  PROVE  Contents'
<1>1. hp \in 0 .. MaxHp /\ oldHp \in 0 .. MaxHp /\ Contents /\ MaxHp \in Nat
  BY CuckooTableAssumption DEF Inv, Contents, Sound
<1>2. hp + 1 \in 0 .. MaxHp /\ hp' = hp + 1 /\ oldHp' = hp
  <2>1. hp + 1 \in Nat
    BY <1>1
  <2>2. ~Forbidden(hp + 1, TRUE)
    BY Zenon DEF Doubles
  <2> QED  BY <2>1, <2>2, NotTooBig DEF Doubles
<1>3. Filled(All, hp)
  BY <1>1, AllFilled
<1>4. CASE /\ stored' = {Moved(e, All, hp) : e \in All}
           /\ Settle
  <2>1. Filled({Moved(e, All, hp) : e \in All}, hp + 1)
    BY <1>1, <1>2, <1>3, AllMoved
  <2>2. Filled(stored', hp')
    BY <1>2, <1>4, <2>1
  <2> QED  BY <1>1, <1>2, <1>4, <2>2, SettleSound
<1>5. CASE /\ HashSize(hp) >= MaxNumLocks
           /\ stored' = {} /\ old' = All /\ unmigrated' = Locks
           /\ remaining' = MaxNumLocks
  <2>1. Sound(stored', old', unmigrated', hp', oldHp')
    BY <1>1, <1>2, <1>3, <1>5, AllWait
  <2>2. Cardinality(Locks) = MaxNumLocks
    <3>1. MaxNumLocks \in Nat \ {0}
      BY LockIndType
    <3>2. 0 \in Int /\ MaxNumLocks - 1 \in Int
      BY <3>1
    <3>3. Cardinality(Locks) = IF 0 > MaxNumLocks - 1 THEN 0 ELSE (MaxNumLocks - 1) - 0 + 1
      BY <3>2, FS_Interval DEF Locks
    <3> QED  BY <3>1, <3>3
  <2> QED  BY <1>5, <2>1, <2>2 DEF Contents
<1>6. HashSize(hp) \in Nat /\ MaxNumLocks \in Nat
  BY <1>1, Sizes, LockIndType
<1> QED  BY <1>4, <1>5, <1>6 DEF Doubles, Doubled

\* The table an expansion makes is not too big.
LEMMA FillingSize ==
  ASSUME Inv, NEW t \in Threads, ExpandsSimple(t)
  PROVE  \E n \in 0 .. MaxHp : stored' \in Fillings(All, n) /\ hp' = n
<1>1. OnCall(t) /\ snap[t] \in Nat /\ MaxHp \in Nat
  BY CuckooTableAssumption DEF Inv, ThreadInv, ThreadsTyped
<1>2. Goal(t) \in Nat
  <2>1. CASE pc[t] = "full"
    BY <1>1, <2>1 DEF Goal
  <2>2. CASE pc[t] = "expand"
    <3>1. call[t] \in Calls /\ call[t].kind = "rehash"
      BY <1>1, <2>2 DEF OnCall
    <3>2. call[t].hp \in Nat
      BY <3>1, CuckooTableAssumption DEF AllCalls, KeyKinds, WholeKinds
    <3> QED  BY <2>2, <3>2 DEF Goal
  <2> QED  BY <2>1, <2>2 DEF ExpandsSimple, Expanding
<1>3. PICK n \in Goal(t) .. MaxHp : stored' \in Fillings(All, n) /\ hp' = n
  BY DEF ExpandsSimple
<1>4. n \in 0 .. MaxHp
  BY <1>1, <1>2
<1> QED  BY <1>3, <1>4

LEMMA ExpandsSimpleContents ==
  ASSUME Inv, NEW t \in Threads, ExpandsSimple(t)
  PROVE  Contents'
<1>1. Contents
  BY DEF Inv
<1>2. PICK n \in 0 .. MaxHp : stored' \in Fillings(All, n) /\ hp' = n
  BY FillingSize
<1>3. All \subseteq Element
  BY <1>1, AllFilled DEF Filled
<1>4. Filled(stored', n)
  BY <1>2, <1>3, Refilled
<1>5. Settle /\ oldHp' = oldHp /\ oldHp \in 0 .. MaxHp
  BY <1>1 DEF ExpandsSimple, Contents, Sound
<1> QED  BY <1>1, <1>2, <1>4, <1>5, SettleSound

LEMMA FillFailsContents ==
  ASSUME Inv, NEW t \in Threads, FillFails(t)
  PROVE  Contents'
<1>1. Contents /\ hp \in 0 .. MaxHp /\ oldHp \in 0 .. MaxHp
  BY DEF Inv, Contents, Sound
<1>2. /\ Settle /\ hp' = hp /\ oldHp' = oldHp
      /\ \E f \in All :
           stored' = {IF Before(e, f) THEN [e EXCEPT !.key = Husk] ELSE e : e \in All}
  BY DEF FillFails
<1>3. PICK f \in All :
        stored' = {IF Before(e, f) THEN [e EXCEPT !.key = Husk] ELSE e : e \in All}
  BY <1>2
<1> DEFINE D == {e \in All : Before(e, f)}
<1>4. stored' = Emptied(All, D)
  BY <1>3 DEF Emptied
<1>5. Filled(stored', hp')
  <2> HIDE DEF D
  <2> QED  BY <1>1, <1>2, <1>4, AllFilled, MovedOut
<1> QED  BY <1>1, <1>2, <1>5, SettleSound

LEMMA ClearContents ==
  ASSUME Inv, NEW t \in Threads, Clear(t)
  PROVE  Contents'
<1>1. Contents /\ hp \in 0 .. MaxHp /\ oldHp \in 0 .. MaxHp
  BY DEF Inv, Contents, Sound
<1>2. Settle /\ hp' = hp /\ oldHp' = oldHp /\ stored' = {}
  BY DEF Clear
<1>3. Filled({}, hp)
  BY DEF Filled, OneInASlot, KeysOnce, Housed
<1> QED  BY <1>1, <1>2, <1>3, SettleSound

LEMMA LockTableContents ==
  ASSUME Inv, NEW t \in Threads, LockTable(t)
  PROVE  Contents'
<1>1. Contents /\ hp \in 0 .. MaxHp /\ oldHp \in 0 .. MaxHp
  BY DEF Inv, Contents, Sound
<1>2. Settle /\ hp' = hp /\ oldHp' = oldHp /\ stored' = All
  BY DEF LockTable
<1> QED  BY <1>1, <1>2, AllFilled, SettleSound

\* The steps that leave the contents alone.
LEMMA Untouched ==
  ASSUME Inv, UNCHANGED <<hp, stored, lazy>>
  PROVE  Contents'
BY DEF Inv, Contents, Sound, lazy

\* Whatever step is taken, the contents stay as they have to be.
LEMMA NextContents ==
  ASSUME Inv, [Next]_vars
  PROVE  Contents'
<1>1. CASE UNCHANGED vars
  BY <1>1, Untouched DEF vars, table
<1>2. ASSUME NEW t \in Threads, Begin(t)
      PROVE  Contents'
  BY <1>2, Untouched DEF Begin, table
<1>3. ASSUME NEW t \in Threads, Access(t)
      PROVE  Contents'
  <2>1. CASE Snapshot(t)
    BY <2>1, Untouched DEF Snapshot, table
  <2>2. CASE HashpowerChanged(t)
    BY <2>2, Untouched DEF HashpowerChanged, table
  <2>3. CASE Misses(t)
    BY <2>3, MissesContents
  <2>4. CASE Finds(t)
    BY <2>4, FindsContents
  <2> QED  BY <1>3, <2>1, <2>2, <2>3, <2>4 DEF Access
<1>4. ASSUME NEW t \in Threads, Insert(t)
      PROVE  Contents'
  BY <1>4, InsertMeetsContents, InsertAddsContents, InsertSearchesContents,
     SearchFindsContents, SearchGoesOnContents, TraceContents,
     MoveNoneContents, MoveOneContents, MoveThrowsContents, MoveFailsContents DEF Insert
<1>5. ASSUME NEW t \in Threads, Resize(t)
      PROVE  Contents'
  <2>1. CASE Doubles(t)
    BY <2>1, DoublesContents
  <2>2. CASE ExpandsSimple(t)
    BY <2>2, ExpandsSimpleContents
  <2>3. CASE FillFails(t)
    BY <2>3, FillFailsContents
  <2>4. CASE Overtaken(t)
    BY <2>4, Untouched DEF Overtaken, table
  <2>5. CASE Refused(t)
    BY <2>5, Untouched DEF Refused, table
  <2>6. CASE NoRehash(t)
    BY <2>6, Untouched DEF NoRehash, table
  <2>7. CASE Rehashes(t)
    BY <2>7, Untouched DEF Rehashes, table
  <2> QED  BY <1>5, <2>1, <2>2, <2>3, <2>4, <2>5, <2>6, <2>7 DEF Resize
<1>6. ASSUME NEW t \in Threads, Whole(t)
      PROVE  Contents'
  <2>1. CASE Clear(t)
    BY <2>1, ClearContents
  <2>2. CASE LockTable(t)
    BY <2>2, LockTableContents
  <2>3. CASE UnlockTable(t)
    BY <2>3, Untouched DEF UnlockTable, table
  <2>4. CASE ReadCounter(t)
    BY <2>4, Untouched DEF ReadCounter, table
  <2>5. CASE SizeReturns(t)
    BY <2>5, Untouched DEF SizeReturns, table
  <2> QED  BY <1>6, <2>1, <2>2, <2>3, <2>4, <2>5 DEF Whole
<1> QED  BY <1>1, <1>2, <1>3, <1>4, <1>5, <1>6 DEF Next, Step

-----------------------------------------------------------------------------
(* The threads.                                                            *)

\* The other threads' calls and searches are their own.
Others(t) ==
  \A u \in Threads \ {t} :
    /\ pc'[u] = pc[u] /\ call'[u] = call[u] /\ snap'[u] = snap[u]
    /\ code'[u] = code[u] /\ queue'[u] = queue[u] /\ path'[u] = path[u]

OneThread(t) == OnCall(t) /\ OnSearch(t) /\ OnPath(t)

\* It is enough to look at the thread that takes the step.
LEMMA OthersKeep ==
  ASSUME ThreadInv, NEW t \in Threads, Others(t), OneThread(t)'
  PROVE  ThreadInv'
<1> SUFFICES ASSUME NEW u \in Threads
             PROVE  OneThread(u)'
  BY DEF ThreadInv, OneThread
<1>1. CASE u = t
  BY <1>1
<1>2. CASE u # t
  <2>1. OnCall(u) /\ OnSearch(u) /\ OnPath(u)
    BY DEF ThreadInv
  <2>2. /\ pc'[u] = pc[u] /\ call'[u] = call[u] /\ snap'[u] = snap[u]
        /\ code'[u] = code[u] /\ queue'[u] = queue[u] /\ path'[u] = path[u]
    BY <1>2 DEF Others
  <2>3. OnCall(u)'
    BY <2>1, <2>2 DEF OnCall
  <2>4. OnSearch(u)'
    BY <2>1, <2>2 DEF OnSearch
  <2>5. OnPath(u)'
    BY <2>1, <2>2 DEF OnPath, Mine, Key
  <2> QED  BY <2>3, <2>4, <2>5 DEF OneThread
<1> QED  BY <1>1, <1>2

\* Without a path there is nothing to say of it.
LEMMA NoPath ==
  ASSUME NEW t \in Threads, path[t] = << >>
  PROVE  OnPath(t)
BY DEF OnPath

\* A call returns.
LEMMA ReturnThread ==
  ASSUME ThreadsTyped, NEW t \in Threads, NEW r, Return(t, r)
  PROVE  ThreadsTyped' /\ Others(t) /\ OneThread(t)'
<1>1. /\ pc' = [pc EXCEPT ![t] = "idle"]
      /\ call' = [call EXCEPT ![t] = NoCall]
      /\ snap' = [snap EXCEPT ![t] = 0]
      /\ queue' = [queue EXCEPT ![t] = << >>]
      /\ code' = [code EXCEPT ![t] = << >>]
      /\ path' = [path EXCEPT ![t] = << >>]
  BY DEF Return, Goto, Forget
<1>2. ThreadsTyped'
  <2>1. pc' \in [Threads -> PCs] /\ call' \in [Threads -> Calls \union {NoCall}]
    BY <1>1 DEF ThreadsTyped, PCs
  <2>2. snap' \in [Threads -> 0 .. MaxHp]
    BY <1>1, CuckooTableAssumption DEF ThreadsTyped
  <2>3. /\ queue' \in [Threads -> Seq(Items)]
        /\ code' \in [Threads -> Seq(Nat)]
        /\ path' \in [Threads -> Seq(Steps)]
    BY <1>1 DEF ThreadsTyped
  <2> QED  BY <2>1, <2>2, <2>3 DEF ThreadsTyped
<1>3. Others(t)
  BY <1>1 DEF ThreadsTyped, Others
<1>4. pc'[t] = "idle" /\ path'[t] = << >>
  BY <1>1 DEF ThreadsTyped
<1>5. OnCall(t)'
  BY <1>4 DEF OnCall, KeyPCs
<1>6. OnSearch(t)'
  BY <1>4, CuckooTableAssumption DEF OnSearch
<1>7. OnPath(t)'
  BY <1>4 DEF OnPath
<1> QED  BY <1>2, <1>3, <1>5, <1>6, <1>7 DEF OneThread

\* A thread without a path goes on to something that is no search.
LEMMA GotoThread ==
  ASSUME ThreadsTyped, NEW t \in Threads, NEW l \in PCs,
         l \notin {"search", "trace", "move"}, Goto(t, l),
         OneThread(t), call'[t] = call[t], path'[t] = << >>,
         l \in KeyPCs => pc[t] \in KeyPCs,
         l \in {"resize", "expand"} => pc[t] \in {"resize", "expand"}
  PROVE  OneThread(t)'
<1>1. pc'[t] = l
  BY DEF Goto, ThreadsTyped
<1>2. OnCall(t)'
  BY <1>1 DEF OneThread, OnCall
<1>3. OnSearch(t)'
  BY <1>1, CuckooTableAssumption DEF OnSearch
<1>4. OnPath(t)'
  BY DEF OnPath
<1> QED  BY <1>2, <1>3, <1>4 DEF OneThread

\* What the start of a call is.
LEMMA StartType ==
  ASSUME NEW c \in Calls
  PROVE  /\ StartOf(c.kind) \in PCs
         /\ StartOf(c.kind) \notin {"search", "trace", "move"}
         /\ StartOf(c.kind) \in KeyPCs => c.kind \in KeyKinds
         /\ StartOf(c.kind) \in {"resize", "expand"} => c.kind = "rehash"
<1>1. c.kind \in KeyKinds \/ c.kind = "rehash" \/ c.kind \in WholeKinds
  BY CuckooTableAssumption DEF AllCalls
<1>2. CASE c.kind \in KeyKinds
  <2>1. StartOf(c.kind) = "snapshot"
    BY <1>2 DEF StartOf, KeyKinds
  <2> QED  BY <1>2, <2>1 DEF PCs, KeyPCs
<1>3. CASE c.kind = "rehash"
  <2>1. StartOf(c.kind) = "resize"
    BY <1>3 DEF StartOf, KeyKinds
  <2> QED  BY <1>3, <2>1 DEF PCs, KeyPCs
<1>4. CASE c.kind = "size"
  <2>1. StartOf(c.kind) = "sum"
    BY <1>4 DEF StartOf, KeyKinds
  <2> QED  BY <2>1 DEF PCs, KeyPCs
<1>5. CASE c.kind \in {"clear", "lock table", "unlock"}
  <2>1. StartOf(c.kind) = c.kind
    BY <1>5 DEF StartOf, KeyKinds
  <2> QED  BY <1>5, <2>1 DEF PCs, KeyPCs
<1> QED  BY <1>1, <1>2, <1>3, <1>4, <1>5 DEF WholeKinds

LEMMA BeginThread ==
  ASSUME Inv, NEW t \in Threads, Begin(t)
  PROVE  ThreadsTyped' /\ Others(t) /\ OneThread(t)'
<1>1. PICK c \in Calls : /\ call' = [call EXCEPT ![t] = c]
                         /\ pc' = [pc EXCEPT ![t] = StartOf(c.kind)]
  BY DEF Begin, Goto
<1>2. UNCHANGED <<snap, queue, code, path>> /\ pc[t] = "idle"
  BY DEF Begin, local, search
<1>3. ThreadsTyped /\ OneThread(t)
  BY DEF Inv, ThreadInv, OneThread
<1>4. ThreadsTyped'
  BY <1>1, <1>2, <1>3, StartType DEF ThreadsTyped
<1>5. Others(t)
  BY <1>1, <1>2, <1>3 DEF ThreadsTyped, Others
<1>6. pc'[t] = StartOf(c.kind) /\ call'[t] = c /\ path'[t] = << >>
  BY <1>1, <1>2, <1>3 DEF ThreadsTyped, OneThread, OnSearch
<1>7. OnCall(t)'
  BY <1>6, StartType DEF OnCall
<1>8. OnSearch(t)'
  BY <1>6, StartType, CuckooTableAssumption DEF OnSearch
<1>9. OnPath(t)'
  BY <1>6 DEF OnPath
<1> QED  BY <1>4, <1>5, <1>7, <1>8, <1>9 DEF OneThread

LEMMA SnapshotThread ==
  ASSUME Inv, NEW t \in Threads, Snapshot(t)
  PROVE  ThreadsTyped' /\ Others(t) /\ OneThread(t)'
<1>1. /\ pc[t] = "snapshot" /\ snap' = [snap EXCEPT ![t] = hp]
      /\ Goto(t, "lock") /\ UNCHANGED <<call, queue, code, path>>
  BY DEF Snapshot, Stay, search
<1>2. ThreadsTyped /\ OneThread(t) /\ hp \in 0 .. MaxHp
  BY DEF Inv, ThreadInv, OneThread, Contents, Sound
<1>3. path[t] = << >>
  BY <1>1, <1>2 DEF OneThread, OnSearch
<1>4. ThreadsTyped'
  BY <1>1, <1>2 DEF ThreadsTyped, Goto, PCs
<1>5. Others(t)
  BY <1>1, <1>2 DEF ThreadsTyped, Others, Goto
<1>6. OneThread(t)'
  BY <1>1, <1>2, <1>3, GotoThread DEF PCs, KeyPCs
<1> QED  BY <1>4, <1>5, <1>6

LEMMA HashpowerChangedThread ==
  ASSUME Inv, NEW t \in Threads, HashpowerChanged(t)
  PROVE  ThreadsTyped' /\ Others(t) /\ OneThread(t)'
<1>1. /\ pc[t] \in KeyPCs /\ Goto(t, "snapshot")
      /\ UNCHANGED <<call, snap>>
      /\ queue' = [queue EXCEPT ![t] = << >>]
      /\ code' = [code EXCEPT ![t] = << >>]
      /\ path' = [path EXCEPT ![t] = << >>]
  BY DEF HashpowerChanged, Stay, Forget, KeyPCs
<1>2. ThreadsTyped /\ OneThread(t)
  BY DEF Inv, ThreadInv, OneThread
<1>3. path'[t] = << >>
  BY <1>1, <1>2 DEF ThreadsTyped
<1>4. ThreadsTyped'
  <2>1. pc' \in [Threads -> PCs]
    BY <1>1, <1>2 DEF ThreadsTyped, Goto, PCs
  <2>2. /\ queue' \in [Threads -> Seq(Items)]
        /\ code' \in [Threads -> Seq(Nat)]
        /\ path' \in [Threads -> Seq(Steps)]
    BY <1>1, <1>2 DEF ThreadsTyped
  <2> QED  BY <1>1, <1>2, <2>1, <2>2 DEF ThreadsTyped
<1>5. Others(t)
  BY <1>1, <1>2 DEF ThreadsTyped, Others, Goto
<1>6. OneThread(t)'
  BY <1>1, <1>2, <1>3, GotoThread DEF PCs, KeyPCs
<1> QED  BY <1>4, <1>5, <1>6

\* Doubling the table, or finding that somebody else did, or a rehash that has
\* something to do.
LEMMA GoesOnThread ==
  ASSUME Inv, NEW t \in Threads, NEW l \in {"snapshot", "expand"}, Goto(t, l),
         pc[t] = (IF l = "snapshot" THEN "full" ELSE "resize"),
         UNCHANGED <<call, snap, search>>
  PROVE  ThreadsTyped' /\ Others(t) /\ OneThread(t)'
<1>1. UNCHANGED <<call, snap, queue, code, path>>
  BY DEF search
<1>2. ThreadsTyped /\ OneThread(t)
  BY DEF Inv, ThreadInv, OneThread
<1>3. path[t] = << >>
  BY <1>2 DEF OneThread, OnSearch
<1>4. ThreadsTyped'
  BY <1>1, <1>2 DEF ThreadsTyped, Goto, PCs
<1>5. Others(t)
  BY <1>1, <1>2 DEF ThreadsTyped, Others, Goto
<1>6. l \in PCs /\ l \notin {"search", "trace", "move"}
  BY DEF PCs
<1>7. l \in KeyPCs => pc[t] \in KeyPCs
  BY DEF KeyPCs
<1>8. l \in {"resize", "expand"} => pc[t] \in {"resize", "expand"}
  OBVIOUS
<1>9. call'[t] = call[t] /\ path'[t] = << >>
  BY <1>1, <1>3
<1>10. OneThread(t)'
  BY <1>2, <1>6, <1>7, <1>8, <1>9, GotoThread
<1> QED  BY <1>4, <1>5, <1>10

\* A bucket of the key.
LEMMA MineType ==
  ASSUME Inv, NEW t \in Threads, pc[t] \in KeyPCs
  PROVE  /\ I1(Key(t), snap[t]) \in Mine(t)
         /\ I2(Key(t), snap[t]) \in Mine(t)
         /\ Mine(t) \subseteq Nat
<1>1. Key(t) \in Keys /\ snap[t] \in 0 .. MaxHp
  BY CallType DEF Inv, ThreadInv, ThreadsTyped
<1> QED  BY <1>1, HomeType DEF Mine, Home

\* A search starts.
LEMMA SearchThread ==
  ASSUME Inv, NEW t \in Threads, pc[t] \in KeyPCs, SearchAgain(t), UNCHANGED <<call, snap>>
  PROVE  ThreadsTyped' /\ Others(t) /\ OneThread(t)'
<1>1. /\ pc' = [pc EXCEPT ![t] = "search"]
      /\ queue' = [queue EXCEPT ![t] = FirstQueue(t)]
      /\ code' = [code EXCEPT ![t] = << >>]
      /\ path' = [path EXCEPT ![t] = << >>]
  BY DEF SearchAgain, Goto, Forget
<1>2. ThreadsTyped /\ OneThread(t)
  BY DEF Inv, ThreadInv, OneThread
<1>3. FirstQueue(t) \in Seq(Items) /\ FirstQueue(t) # << >>
  <2>1. I1(Key(t), snap[t]) \in Nat /\ I2(Key(t), snap[t]) \in Nat
    BY MineType
  <2>2. MaxPathLen >= 1 /\ MaxPathLen \in Nat
    BY CuckooTableAssumption
  <2>3. ASSUME NEW n \in Nat
        PROVE  <<n>> \in {c \in Codes : Len(c) <= MaxPathLen}
    BY <2>2 DEF Codes
  <2>4. [bucket |-> I1(Key(t), snap[t]), code |-> <<0>>] \in Items
    BY <2>1, <2>3 DEF Items
  <2>5. [bucket |-> I2(Key(t), snap[t]), code |-> <<1>>] \in Items
    BY <2>1, <2>3 DEF Items
  <2> QED  BY <2>4, <2>5 DEF FirstQueue
<1>4. ThreadsTyped'
  <2>1. pc' \in [Threads -> PCs]
    BY <1>1, <1>2 DEF ThreadsTyped, PCs
  <2>2. queue' \in [Threads -> Seq(Items)]
    BY <1>1, <1>2, <1>3 DEF ThreadsTyped
  <2>3. code' \in [Threads -> Seq(Nat)] /\ path' \in [Threads -> Seq(Steps)]
    BY <1>1, <1>2 DEF ThreadsTyped
  <2> QED  BY <1>2, <2>1, <2>2, <2>3 DEF ThreadsTyped
<1>5. Others(t)
  BY <1>1, <1>2 DEF ThreadsTyped, Others
<1>6. pc'[t] = "search" /\ path'[t] = << >> /\ queue'[t] = FirstQueue(t) /\ call'[t] = call[t]
  BY <1>1, <1>2 DEF ThreadsTyped
<1>7. OnCall(t)'
  BY <1>2, <1>6 DEF OneThread, OnCall
<1>8. OnSearch(t)'
  BY <1>3, <1>6, CuckooTableAssumption DEF OnSearch
<1>9. OnPath(t)'
  BY <1>6 DEF OnPath
<1> QED  BY <1>4, <1>5, <1>7, <1>8, <1>9 DEF OneThread

\* The slots a search looks at.
LEMMA SlotAtType ==
  ASSUME NEW x \in Items, NEW i \in Nat
  PROVE  SlotAt(x, i) \in Slots
<1>1. x.code \in Seq(Nat) /\ Len(x.code) >= 1
  BY DEF Items, Codes
<1>2. x.code[Len(x.code)] \in Nat
  BY <1>1
<1>3. SlotsPerBucket \in Nat \ {0}
  BY CuckooTableAssumption
<1>4. \A m \in Nat, n \in Nat \ {0} : m % n \in 0 .. n - 1
  OBVIOUS
<1>5. x.code[Len(x.code)] + i \in Nat
  BY <1>2
<1> QED  BY <1>3, <1>4, <1>5 DEF SlotAt, Slots

\* A path code that gets longer.
LEMMA LongerCode ==
  ASSUME NEW x \in Items, NEW s \in Slots
  PROVE  /\ Append(x.code, s) \in Codes
         /\ Append(x.code, s) \in Seq(Nat)
         /\ Len(x.code) \in Nat
         /\ Len(x.code) >= 1
         /\ Len(Append(x.code, s)) = Len(x.code) + 1
         /\ Len(x.code) <= MaxPathLen
         /\ x.bucket \in Nat
<1>1. /\ x.code \in Seq(Nat) /\ Len(x.code) >= 1 /\ Len(x.code) <= MaxPathLen
      /\ \A i \in 2 .. Len(x.code) : x.code[i] \in Slots
      /\ x.bucket \in Nat
  BY DEF Items, Codes
<1>2. s \in Nat
  BY CuckooTableAssumption DEF Slots
<1> DEFINE c == Append(x.code, s)
<1>3. c \in Seq(Nat) /\ Len(c) = Len(x.code) + 1
  BY <1>1, <1>2
<1>4. ASSUME NEW i \in 2 .. Len(c)
      PROVE  c[i] \in Slots
  <2>1. CASE i = Len(x.code) + 1
    BY <1>1, <1>2, <2>1
  <2>2. CASE i \in 2 .. Len(x.code)
    BY <1>1, <1>2, <2>2
  <2> QED  BY <1>1, <1>3, <2>1, <2>2
<1> HIDE DEF c
<1>5. c \in Codes
  BY <1>1, <1>3, <1>4 DEF Codes
<1> QED  BY <1>1, <1>3, <1>5 DEF c

LEMMA SearchFindsThread ==
  ASSUME Inv, NEW t \in Threads, SearchFinds(t)
  PROVE  ThreadsTyped' /\ Others(t) /\ OneThread(t)'
<1> DEFINE x == Head(queue[t])
<1>1. ThreadsTyped /\ OneThread(t) /\ pc[t] = "search"
  BY DEF Inv, ThreadInv, OneThread, SearchFinds
<1>2. queue[t] # << >> /\ queue[t] \in Seq(Items) /\ path[t] = << >>
  BY <1>1 DEF OneThread, OnSearch, ThreadsTyped
<1>3. x \in Items
  BY <1>2
<1>4. PICK i \in Slots : code' = [code EXCEPT ![t] = Append(x.code, SlotAt(x, i))]
  BY DEF SearchFinds
<1> DEFINE c == Append(x.code, SlotAt(x, i))
<1>5. SlotAt(x, i) \in Slots
  BY <1>3, SlotAtType, CuckooTableAssumption DEF Slots
<1>6. /\ c \in Codes /\ c \in Seq(Nat) /\ Len(x.code) \in Nat /\ Len(x.code) >= 1
      /\ Len(c) = Len(x.code) + 1 /\ Len(x.code) <= MaxPathLen
  BY <1>3, <1>5, LongerCode
<1> HIDE DEF c, x
<1>7. /\ code' = [code EXCEPT ![t] = c]
      /\ queue' = [queue EXCEPT ![t] = << >>]
      /\ pc' = [pc EXCEPT ![t] = "trace"]
      /\ UNCHANGED <<call, snap, path>>
  BY <1>4 DEF SearchFinds, Forget, Goto, Stay, c
<1>8. ThreadsTyped'
  <2>1. pc' \in [Threads -> PCs]
    BY <1>1, <1>7 DEF ThreadsTyped, PCs
  <2>2. queue' \in [Threads -> Seq(Items)]
    BY <1>1, <1>7 DEF ThreadsTyped
  <2>3. code' \in [Threads -> Seq(Nat)]
    BY <1>1, <1>6, <1>7 DEF ThreadsTyped
  <2> QED  BY <1>1, <1>7, <2>1, <2>2, <2>3 DEF ThreadsTyped
<1>9. Others(t)
  BY <1>1, <1>7 DEF ThreadsTyped, Others
<1>10. pc'[t] = "trace" /\ path'[t] = << >> /\ code'[t] = c /\ call'[t] = call[t]
  BY <1>1, <1>2, <1>7 DEF ThreadsTyped
<1>11. OnCall(t)'
  BY <1>1, <1>10 DEF OneThread, OnCall, KeyPCs
<1>12. OnSearch(t)'
  <2>1. Len(<< >>) + 2 <= Len(c) /\ Len(c) <= MaxPathLen + 1 /\ Len(<< >>) <= MaxPathLen
    BY <1>6, CuckooTableAssumption
  <2> QED  BY <1>6, <1>10, <2>1 DEF OnSearch
<1>13. OnPath(t)'
  BY <1>10 DEF OnPath
<1> QED  BY <1>8, <1>9, <1>11, <1>12, <1>13 DEF OneThread

LEMMA SearchGoesOnThread ==
  ASSUME Inv, NEW t \in Threads, SearchGoesOn(t)
  PROVE  ThreadsTyped' /\ Others(t) /\ OneThread(t)'
<1> DEFINE x == Head(queue[t])
           found(s) == CHOOSE f \in stored' : f.bucket = x.bucket /\ f.slot = s
           next(i) ==
             LET s == SlotAt(x, i - 1)
             IN  [bucket |-> AltIndex(found(s).tag, snap[t], x.bucket),
                  code   |-> Append(x.code, s)]
           more == IF Short(x) THEN [i \in 1 .. SlotsPerBucket |-> next(i)] ELSE << >>
           q    == Tail(queue[t]) \o more
<1>1. ThreadsTyped /\ OneThread(t) /\ pc[t] = "search" /\ snap[t] \in 0 .. MaxHp
  BY DEF Inv, ThreadInv, OneThread, SearchGoesOn, ThreadsTyped
<1>2. queue[t] # << >> /\ queue[t] \in Seq(Items) /\ path[t] = << >>
  BY <1>1 DEF OneThread, OnSearch, ThreadsTyped
<1>3. x \in Items /\ Tail(queue[t]) \in Seq(Items)
  BY <1>2
<1>4. stored' \subseteq Element
  BY SearchGoesOnContents DEF Contents, Sound, Filled
<1>5. Free(stored', x.bucket) = {}
  BY DEF SearchGoesOn
<1>6. ASSUME NEW s \in Slots
      PROVE  found(s).tag \in Keys \union {Husk}
  <2>1. \E f \in stored' : f.bucket = x.bucket /\ f.slot = s
    BY <1>5 DEF Free
  <2>2. found(s) \in stored'
    BY <2>1
  <2> QED  BY <1>4, <2>2, ElementFields
<1>7. ASSUME Short(x), NEW i \in 1 .. SlotsPerBucket
      PROVE  next(i) \in Items
  <2> DEFINE s == SlotAt(x, i - 1)
  <2>1. i - 1 \in Nat
    BY CuckooTableAssumption
  <2>2. s \in Slots
    BY <1>3, <2>1, SlotAtType
  <2>3. AltIndex(found(s).tag, snap[t], x.bucket) \in Nat
    BY <1>1, <1>3, <1>6, <2>2, AltIndexType DEF Items
  <2>4. Append(x.code, s) \in Codes /\ Len(Append(x.code, s)) <= MaxPathLen
    BY <1>3, <1>7, <2>2, LongerCode, CuckooTableAssumption DEF Short
  <2> HIDE DEF s, x, found
  <2>5. [bucket |-> AltIndex(found(s).tag, snap[t], x.bucket),
         code   |-> Append(x.code, s)] \in Items
    BY <2>3, <2>4 DEF Items
  <2> QED  BY <2>5 DEF s
<1>8. more \in Seq(Items)
  <2> HIDE DEF next, x
  <2>1. CASE Short(x)
    <3>1. SlotsPerBucket \in Nat
      BY CuckooTableAssumption
    <3>2. [i \in 1 .. SlotsPerBucket |-> next(i)] \in [1 .. SlotsPerBucket -> Items]
      BY <1>7, <2>1
    <3>3. \A f \in [1 .. SlotsPerBucket -> Items] : f \in Seq(Items)
      BY <3>1
    <3> QED  BY <2>1, <3>2, <3>3
  <2>2. CASE ~Short(x)
    BY <2>2
  <2> QED  BY <2>1, <2>2
<1>9. q \in Seq(Items)
  <2> HIDE DEF more
  <2> QED  BY <1>3, <1>8
<1>10. /\ queue' = [queue EXCEPT ![t] = q]
       /\ pc' = [pc EXCEPT ![t] = IF queue'[t] = << >> THEN "full" ELSE "search"]
       /\ UNCHANGED <<call, snap, code, path>>
  BY DEF SearchGoesOn, Goto, Stay
<1> HIDE DEF q
<1>11. ThreadsTyped'
  <2>1. pc' \in [Threads -> PCs]
    BY <1>1, <1>10 DEF ThreadsTyped, PCs
  <2>2. queue' \in [Threads -> Seq(Items)]
    BY <1>1, <1>9, <1>10 DEF ThreadsTyped
  <2> QED  BY <1>1, <1>10, <2>1, <2>2 DEF ThreadsTyped
<1>12. Others(t)
  BY <1>1, <1>10 DEF ThreadsTyped, Others
<1>13. /\ path'[t] = << >> /\ call'[t] = call[t]
       /\ pc'[t] = "full" \/ (pc'[t] = "search" /\ queue'[t] # << >>)
  BY <1>1, <1>2, <1>10 DEF ThreadsTyped
<1>14. OnCall(t)'
  BY <1>1, <1>13 DEF OneThread, OnCall, KeyPCs
<1>15. OnSearch(t)'
  BY <1>13, CuckooTableAssumption DEF OnSearch
<1>16. OnPath(t)'
  BY <1>13 DEF OnPath
<1> QED  BY <1>11, <1>12, <1>14, <1>15, <1>16 DEF OneThread

LEMMA TraceThread ==
  ASSUME Inv, NEW t \in Threads, Trace(t)
  PROVE  ThreadsTyped' /\ Others(t) /\ OneThread(t)'
<1> DEFINE p == path[t]
           n == Len(p)
           i == n + 1
           s == code[t][i + 1]
           b == IF i = 1
                  THEN IF code[t][1] = 0 THEN I1(Key(t), snap[t])
                                         ELSE I2(Key(t), snap[t])
                  ELSE AltIndex(p[i - 1].key, snap[t], p[i - 1].bucket)
           here == {e \in stored' : e.bucket = b /\ e.slot = s}
           done == here = {} \/ i + 1 = Len(code[t])
<1>1. ThreadsTyped /\ OneThread(t) /\ pc[t] = "trace" /\ snap[t] \in 0 .. MaxHp
  BY DEF Inv, ThreadInv, OneThread, Trace, ThreadsTyped
<1>2. /\ p \in Seq(Steps) /\ n \in Nat
      /\ code[t] \in Codes /\ code[t] \in Seq(Nat) /\ n + 2 <= Len(code[t])
      /\ Len(code[t]) <= MaxPathLen + 1 /\ Len(code[t]) \in Nat
  BY <1>1 DEF OneThread, OnSearch, ThreadsTyped
<1>3. s \in Slots
  BY <1>2 DEF Codes
<1>4. stored' \subseteq Element
  BY TraceContents DEF Contents, Sound, Filled
<1>5. ASSUME NEW j \in 1 .. n
      PROVE  p[j].key \in Keys \union {Husk}
  BY <1>1, <1>5 DEF OneThread, OnPath
<1>6. /\ b \in Nat
      /\ i = 1 => b \in Mine(t)
      /\ i # 1 => b = AltIndex(p[n].key, snap[t], p[n].bucket)
  <2>1. CASE i = 1
    BY <1>1, <2>1, MineType DEF KeyPCs
  <2>2. CASE i # 1
    <3>1. n \in 1 .. n /\ i - 1 = n
      BY <1>2, <2>2
    <3>2. p[n].key \in Keys \union {Husk}
      BY <1>5, <3>1
    <3>3. p[n].bucket \in Nat
      BY <3>1, PathType
    <3>4. AltIndex(p[n].key, snap[t], p[n].bucket) \in Nat
      BY <1>1, <3>2, <3>3, AltIndexType
    <3> QED  BY <2>2, <3>1, <3>4
  <2> QED  BY <2>1, <2>2
<1>7. PICK k \in IF here = {} THEN {Absent} ELSE {e.key : e \in here} :
        path' = [path EXCEPT ![t] = Append(p, [bucket |-> b, slot |-> s, key |-> k])]
  BY DEF Trace
<1>8. /\ pc' = [pc EXCEPT ![t] = IF done THEN "move" ELSE "trace"]
      /\ code' = IF done THEN [code EXCEPT ![t] = << >>] ELSE code
      /\ UNCHANGED <<call, snap, queue>>
  BY DEF Trace, Goto, Forget, Stay
<1>9. /\ k \in Keys \union {Husk, Absent}
      /\ ~done => k \in Keys \union {Husk}
  <2>1. CASE here = {}
    BY <2>1
  <2>2. CASE here # {}
    <3>1. PICK e \in here : k = e.key
      BY <2>2
    <3>2. e \in Element
      BY <1>4
    <3> QED  BY <3>1, <3>2, ElementFields
  <2> QED  BY <2>1, <2>2
<1> DEFINE r == [bucket |-> b, slot |-> s, key |-> k]
           w == Append(p, r)
<1>10. r \in Steps
  <2> HIDE DEF b, s
  <2> QED  BY <1>3, <1>6, <1>9 DEF Steps
<1>11. r.bucket = b /\ r.key = k
  OBVIOUS
<1>12. ~done => n + 3 <= Len(code[t])
  BY <1>2
<1> HIDE DEF b, s, r, done, here
<1>13. /\ w \in Seq(Steps) /\ Len(w) = n + 1 /\ w[n + 1] = r
       /\ \A j \in 1 .. n : w[j] = p[j]
  BY <1>2, <1>10
<1>14. path' = [path EXCEPT ![t] = w]
  BY <1>7 DEF r
<1> HIDE DEF w
<1>15. ThreadsTyped'
  <2>1. pc' \in [Threads -> PCs]
    BY <1>1, <1>8 DEF ThreadsTyped, PCs
  <2>2. path' \in [Threads -> Seq(Steps)]
    BY <1>1, <1>13, <1>14 DEF ThreadsTyped
  <2>3. code' \in [Threads -> Seq(Nat)]
    BY <1>1, <1>8 DEF ThreadsTyped
  <2> QED  BY <1>1, <1>8, <2>1, <2>2, <2>3 DEF ThreadsTyped
<1>16. Others(t)
  BY <1>1, <1>8, <1>14 DEF ThreadsTyped, Others
<1>17. /\ path'[t] = w /\ call'[t] = call[t] /\ snap'[t] = snap[t]
       /\ pc'[t] = IF done THEN "move" ELSE "trace"
       /\ ~done => code'[t] = code[t]
  BY <1>1, <1>8, <1>14 DEF ThreadsTyped
<1>18. OnCall(t)'
  BY <1>1, <1>17 DEF OneThread, OnCall, KeyPCs
<1>19. OnSearch(t)'
  <2>1. w # << >>
    BY <1>2, <1>13
  <2>2. Len(w) <= MaxPathLen
    BY <1>2, <1>13, CuckooTableAssumption
  <2>3. ~done => Len(w) + 2 <= Len(code[t])
    BY <1>2, <1>12, <1>13
  <2> QED  BY <1>2, <1>17, <2>1, <2>2, <2>3 DEF OnSearch
<1>20. OnPath(t)'
  <2>1. Mine(t)' = Mine(t)
    BY <1>17 DEF Mine, Key
  <2>2. w[1].bucket \in Mine(t)
    <3>1. CASE n = 0
      BY <1>6, <1>11, <1>13, <3>1
    <3>2. CASE n # 0
      <4>1. 1 \in 1 .. n /\ p # << >>
        BY <1>2, <3>2
      <4>2. p[1].bucket \in Mine(t)
        BY <1>1, <4>1 DEF OneThread, OnPath
      <4> QED  BY <1>13, <4>1, <4>2
    <3> QED  BY <3>1, <3>2
  <2>3. ASSUME NEW j \in 1 .. n
        PROVE  w[j + 1].bucket = AltIndex(w[j].key, snap[t], w[j].bucket)
    <3>1. CASE j = n
      <4>1. i # 1
        BY <1>2, <3>1
      <4>2. w[j] = p[n] /\ w[j + 1] = r
        BY <1>13, <3>1
      <4> QED  BY <1>6, <1>11, <4>1, <4>2
    <3>2. CASE j # n
      <4>1. j \in 1 .. n - 1 /\ j + 1 \in 1 .. n
        BY <1>2, <3>2
      <4>2. p[j + 1].bucket = AltIndex(p[j].key, snap[t], p[j].bucket)
        BY <1>1, <4>1 DEF OneThread, OnPath
      <4> QED  BY <1>13, <4>1, <4>2
    <3> QED  BY <3>1, <3>2
  <2>4. ASSUME NEW j \in 1 .. n + 1, j < n + 1 \/ ~done
        PROVE  w[j].key \in Keys \union {Husk}
    <3>1. CASE j = n + 1
      BY <1>9, <1>11, <1>13, <2>4, <3>1
    <3>2. CASE j # n + 1
      <4>1. j \in 1 .. n
        BY <1>2, <3>2
      <4> QED  BY <1>5, <1>13, <4>1
    <3> QED  BY <3>1, <3>2
  <2>5. (n + 1) - 1 = n
    BY <1>2
  <2>6. \A j \in 1 .. Len(w) - 1 :
          w[j + 1].bucket = AltIndex(w[j].key, snap[t], w[j].bucket)
    BY <1>13, <2>3, <2>5
  <2>7. \A j \in 1 .. Len(w) :
          j < Len(w) \/ pc'[t] = "trace" => w[j].key \in Keys \union {Husk}
    BY <1>13, <1>17, <2>4
  <2> QED  BY <1>17, <2>1, <2>2, <2>6, <2>7 DEF OnPath
<1> QED  BY <1>15, <1>16, <1>18, <1>19, <1>20 DEF OneThread

\* A key has been moved, and the path is one slot shorter.
LEMMA ShorterPathThread ==
  ASSUME Inv, NEW t \in Threads, pc[t] = "move", Len(path[t]) > 2,
         path' = [path EXCEPT ![t] = SubSeq(path[t], 1, Len(path[t]) - 1)],
         UNCHANGED <<pc, call, snap, queue, code>>
  PROVE  ThreadsTyped' /\ Others(t) /\ OneThread(t)'
<1> DEFINE p == path[t]
           d == Len(p)
           w == SubSeq(p, 1, d - 1)
<1>1. ThreadsTyped /\ OneThread(t) /\ p \in Seq(Steps) /\ d \in Nat
  BY DEF Inv, ThreadInv, OneThread, ThreadsTyped
<1>2. /\ w \in Seq(Steps) /\ Len(w) = d - 1
      /\ \A j \in 1 .. d - 1 : w[j] = p[j]
  BY <1>1
<1> HIDE DEF w
<1>3. ThreadsTyped'
  BY <1>1, <1>2 DEF ThreadsTyped, w
<1>4. Others(t)
  BY <1>1 DEF ThreadsTyped, Others
<1>5. path'[t] = w
  BY <1>1 DEF ThreadsTyped, w
<1>6. OnCall(t)'
  BY <1>1 DEF OneThread, OnCall
<1>7. OnSearch(t)'
  <2>1. w # << >> /\ Len(w) <= MaxPathLen
    BY <1>1, <1>2, CuckooTableAssumption DEF OneThread, OnSearch
  <2> QED  BY <1>5, <2>1 DEF OnSearch
<1>8. OnPath(t)'
  <2>1. p # << >> /\ 1 \in 1 .. d - 1
    BY <1>1
  <2>2. w[1].bucket \in Mine(t)
    BY <1>1, <1>2, <2>1 DEF OneThread, OnPath
  <2>3. ASSUME NEW j \in 1 .. Len(w) - 1
        PROVE  w[j + 1].bucket = AltIndex(w[j].key, snap[t], w[j].bucket)
    <3>1. j \in 1 .. d - 1 /\ j + 1 \in 1 .. d - 1
      BY <1>1, <1>2
    <3>2. p[j + 1].bucket = AltIndex(p[j].key, snap[t], p[j].bucket)
      BY <1>1, <3>1 DEF OneThread, OnPath
    <3> QED  BY <1>2, <3>1, <3>2
  <2>4. ASSUME NEW j \in 1 .. Len(w)
        PROVE  w[j].key \in Keys \union {Husk}
    <3>1. j \in 1 .. d - 1 /\ j \in 1 .. d /\ j < d
      BY <1>1, <1>2
    <3>2. p[j].key \in Keys \union {Husk}
      BY <1>1, <3>1 DEF OneThread, OnPath
    <3> QED  BY <1>2, <3>1, <3>2
  <2>5. Mine(t)' = Mine(t)
    BY DEF Mine, Key
  <2> QED  BY <1>5, <2>2, <2>3, <2>4, <2>5 DEF OnPath
<1> QED  BY <1>3, <1>4, <1>6, <1>7, <1>8 DEF OneThread

\* A key that lands or is met ends the call.
LEMMA LandsReturns ==
  ASSUME NEW t \in Threads, NEW E, Lands(t, E)
  PROVE  \E r : Return(t, r)
BY DEF Lands, Meets, Adds

LEMMA MoveThread ==
  ASSUME Inv, NEW t \in Threads, MoveNone(t) \/ MoveOne(t) \/ MoveFails(t)
  PROVE  ThreadsTyped' /\ Others(t) /\ OneThread(t)'
<1>1. pc[t] = "move" /\ pc[t] \in KeyPCs /\ ThreadsTyped
  BY DEF MoveNone, MoveOne, MoveFails, KeyPCs, Inv
<1>2. CASE SearchAgain(t) /\ UNCHANGED <<call, snap>>
  BY <1>1, <1>2, SearchThread
<1>3. CASE \E E : Lands(t, E)
  BY <1>1, <1>3, LandsReturns, ReturnThread
<1>4. CASE /\ Len(path[t]) > 2
           /\ path' = [path EXCEPT ![t] = SubSeq(path[t], 1, Len(path[t]) - 1)]
           /\ UNCHANGED <<pc, call, snap, queue, code>>
  BY <1>1, <1>4, ShorterPathThread
<1>5. CASE MoveNone(t)
  BY <1>2, <1>3, <1>5 DEF MoveNone, Stay
<1>6. CASE MoveOne(t)
  BY <1>3, <1>4, <1>6 DEF MoveOne, Stay
<1>7. CASE MoveFails(t)
  BY <1>2, <1>7 DEF MoveFails, Stay
<1> QED  BY <1>5, <1>6, <1>7

\* What the threads do leaves them as they have to be.
LEMMA NextThreads ==
  ASSUME Inv, [Next]_vars
  PROVE  ThreadsTyped' /\ ThreadInv'
<1> DEFINE Good(t) == ThreadsTyped' /\ Others(t) /\ OneThread(t)'
<1>1. ThreadsTyped /\ ThreadInv
  BY DEF Inv
<1>2. CASE UNCHANGED vars
  <2>1. UNCHANGED <<pc, call, snap, queue, code, path>>
    BY <1>2 DEF vars, local, search
  <2>2. ThreadsTyped'
    BY <1>1, <2>1 DEF ThreadsTyped
  <2>3. ThreadInv'
    BY <1>1, <2>1 DEF ThreadInv, OnCall, OnSearch, OnPath, Mine, Key
  <2> QED  BY <2>2, <2>3
<1>3. ASSUME NEW t \in Threads, NEW r, Return(t, r)
      PROVE  Good(t)
  BY <1>1, <1>3, ReturnThread
<1>4. ASSUME NEW t \in Threads, Access(t)
      PROVE  Good(t)
  <2>1. CASE Snapshot(t)
    BY <2>1, SnapshotThread
  <2>2. CASE HashpowerChanged(t)
    BY <2>2, HashpowerChangedThread
  <2>3. CASE Misses(t) \/ Finds(t)
    BY <1>3, <2>3 DEF Misses, Finds
  <2> QED  BY <1>4, <2>1, <2>2, <2>3 DEF Access
<1>5. ASSUME NEW t \in Threads, Insert(t)
      PROVE  Good(t)
  <2>1. CASE InsertMeets(t)
    BY <1>3, <2>1 DEF InsertMeets, Meets
  <2>2. CASE InsertAdds(t)
    BY <1>3, <2>2 DEF InsertAdds, Adds
  <2>3. CASE InsertSearches(t)
    BY <2>3, SearchThread DEF InsertSearches, Stay, KeyPCs
  <2>4. CASE SearchFinds(t)
    BY <2>4, SearchFindsThread
  <2>5. CASE SearchGoesOn(t)
    BY <2>5, SearchGoesOnThread
  <2>6. CASE Trace(t)
    BY <2>6, TraceThread
  <2>7. CASE MoveNone(t) \/ MoveOne(t) \/ MoveFails(t)
    BY <2>7, MoveThread
  <2>8. CASE MoveThrows(t)
    BY <1>3, <2>8 DEF MoveThrows
  <2> QED  BY <1>5, <2>1, <2>2, <2>3, <2>4, <2>5, <2>6, <2>7, <2>8 DEF Insert
<1>6. ASSUME NEW t \in Threads, Resize(t)
      PROVE  Good(t)
  <2>1. CASE Doubles(t)
    BY <2>1, GoesOnThread DEF Doubles, Stay
  <2>2. CASE Overtaken(t)
    BY <2>2, GoesOnThread DEF Overtaken, Stay
  <2>3. CASE Refused(t) \/ FillFails(t) \/ NoRehash(t)
    BY <1>3, <2>3 DEF Refused, FillFails, NoRehash
  <2>4. CASE ExpandsSimple(t)
    <3>1. CASE pc[t] = "full"
      BY <2>4, <3>1, GoesOnThread DEF ExpandsSimple, local
    <3>2. CASE pc[t] # "full"
      BY <1>3, <2>4, <3>2 DEF ExpandsSimple
    <3> QED  BY <3>1, <3>2
  <2>5. CASE Rehashes(t)
    BY <2>5, GoesOnThread DEF Rehashes, Stay
  <2> QED  BY <1>6, <2>1, <2>2, <2>3, <2>4, <2>5 DEF Resize
<1>7. ASSUME NEW t \in Threads, Clear(t) \/ LockTable(t) \/ UnlockTable(t) \/ SizeReturns(t)
      PROVE  Good(t)
  BY <1>3, <1>7 DEF Clear, LockTable, UnlockTable, SizeReturns
<1>8. ASSUME NEW t \in Threads, ReadCounter(t)
      PROVE  Good(t)
  <2>1. UNCHANGED <<pc, call, snap, queue, code, path>>
    BY <1>8 DEF ReadCounter, search
  <2>2. ThreadsTyped'
    BY <1>1, <2>1 DEF ThreadsTyped
  <2>3. Others(t)
    BY <2>1 DEF Others
  <2>4. OneThread(t)'
    BY <1>1, <2>1 DEF ThreadInv, OneThread, OnCall, OnSearch, OnPath, Mine, Key
  <2> QED  BY <2>2, <2>3, <2>4
<1>9. ASSUME NEW t \in Threads, Begin(t)
      PROVE  Good(t)
  BY <1>9, BeginThread
<1>10. ASSUME NEW t \in Threads, Good(t)
       PROVE  ThreadsTyped' /\ ThreadInv'
  BY <1>1, <1>10, OthersKeep
<1> QED
  BY <1>2, <1>4, <1>5, <1>6, <1>7, <1>8, <1>9, <1>10 DEF Next, Step, Whole

-----------------------------------------------------------------------------
(* The counters, the locker and the number of calls.                       *)

\* A counter goes up or down.
LEMMA CountType ==
  ASSUME RestTyped, NEW b, NEW n \in {1, -1}, Count(b, n)
  PROVE  counter' \in [Locks -> Int]
<1>1. counter \in [Locks -> Int] /\ n \in Int
  BY DEF RestTyped
<1>2. counter' = [counter EXCEPT ![LockInd(b)] = counter[LockInd(b)] + n]
  BY DEF Count
<1>3. CASE LockInd(b) \in Locks
  <2>1. counter[LockInd(b)] + n \in Int
    BY <1>1, <1>3
  <2> QED  BY <1>1, <1>2, <2>1
<1>4. CASE LockInd(b) \notin Locks
  BY <1>1, <1>2, <1>4
<1> QED  BY <1>3, <1>4

LEMMA NextRest ==
  ASSUME Inv, [Next]_vars
  PROVE  RestTyped'
<1> DEFINE Kept == UNCHANGED <<locker, calls>>
<1>1. RestTyped
  BY DEF Inv
<1>2. ASSUME NEW t \in Threads, NEW E, Lands(t, E) \/ Meets(t, E)
      PROVE  counter' \in [Locks -> Int]
  BY <1>1, <1>2, CountType DEF Lands, Meets, Adds, RestTyped
<1>3. ASSUME counter' \in [Locks -> Int], Kept
      PROVE  RestTyped'
  BY <1>1, <1>3 DEF RestTyped
<1>4. ASSUME UNCHANGED counter, Kept
      PROVE  RestTyped'
  BY <1>1, <1>4 DEF RestTyped
<1>5. ASSUME NEW t \in Threads, Access(t)
      PROVE  RestTyped'
  <2>1. CASE Finds(t)
    <3>1. UNCHANGED counter \/ \E b : Count(b, -1)
      BY <2>1 DEF Finds
    <3>2. Kept
      BY <2>1 DEF Finds
    <3> QED  BY <1>1, <1>3, <1>4, <3>1, <3>2, CountType
  <2>2. CASE Snapshot(t) \/ HashpowerChanged(t) \/ Misses(t)
    BY <1>4, <2>2 DEF Snapshot, HashpowerChanged, Misses, Stay, table
  <2> QED  BY <1>5, <2>1, <2>2 DEF Access
<1>6. ASSUME NEW t \in Threads, Insert(t)
      PROVE  RestTyped'
  <2>1. CASE InsertMeets(t)
    BY <1>2, <1>3, <2>1 DEF InsertMeets
  <2>2. CASE InsertAdds(t)
    <3>1. UNCHANGED counter \/ \E b : Count(b, 1)
      BY <2>2 DEF InsertAdds, Adds
    <3>2. Kept
      BY <2>2 DEF InsertAdds
    <3> QED  BY <1>1, <1>3, <1>4, <3>1, <3>2, CountType
  <2>3. CASE InsertSearches(t) \/ SearchFinds(t) \/ SearchGoesOn(t) \/ Trace(t) \/ MoveFails(t)
    BY <1>4, <2>3 DEF InsertSearches, SearchFinds, SearchGoesOn, Trace, MoveFails, Stay
  <2>4. CASE MoveNone(t)
    <3>1. Kept /\ (UNCHANGED counter \/ \E E : Lands(t, E))
      BY <2>4 DEF MoveNone, Stay
    <3> QED  BY <1>2, <1>3, <1>4, <3>1
  <2>5. CASE MoveOne(t)
    <3>1. Kept /\ (UNCHANGED counter \/ \E E : Lands(t, E))
      BY <2>5 DEF MoveOne, Stay
    <3> QED  BY <1>2, <1>3, <1>4, <3>1
  <2>6. CASE MoveThrows(t)
    BY <1>4, <2>6 DEF MoveThrows
  <2> QED  BY <1>6, <2>1, <2>2, <2>3, <2>4, <2>5, <2>6 DEF Insert
<1>7. ASSUME NEW t \in Threads, Resize(t)
      PROVE  RestTyped'
  BY <1>4, <1>7
     DEF Resize, Doubles, Overtaken, Refused, ExpandsSimple, FillFails, NoRehash,
         Rehashes, Stay, table
<1>8. ASSUME NEW t \in Threads, Whole(t)
      PROVE  RestTyped'
  <2>1. CASE Clear(t)
    BY <1>3, <2>1 DEF Clear
  <2>2. CASE LockTable(t) \/ UnlockTable(t)
    BY <1>1, <2>2 DEF LockTable, UnlockTable, table, RestTyped
  <2>3. CASE ReadCounter(t) \/ SizeReturns(t)
    BY <1>4, <2>3 DEF ReadCounter, SizeReturns, table
  <2> QED  BY <1>8, <2>1, <2>2, <2>3 DEF Whole
<1>9. ASSUME NEW t \in Threads, Begin(t)
      PROVE  RestTyped'
  BY <1>1, <1>9, CuckooTableAssumption DEF Begin, table, RestTyped
<1>10. CASE UNCHANGED vars
  BY <1>4, <1>10 DEF vars, table
<1> QED  BY <1>5, <1>6, <1>7, <1>8, <1>9, <1>10 DEF Next, Step

-----------------------------------------------------------------------------
(* What a step does to the map its users see.                              *)

Present == stored \union old

\* The map is what the elements say.
LEMMA MapIs ==
  /\ Map  = Meaning(Present)  /\ KeysIn  = KeysOf(Present)
  /\ Map' = Meaning(Present)' /\ KeysIn' = KeysOf(Present)'
BY DEF Map, KeysIn, Meaning, KeysOf, Present

\* Nothing, a key's value, one key more or less, or no keys left: and what the
\* counters do.
Keeps ==
  Map' = Map /\ KeysIn' = KeysIn /\ counter' = counter

Sets(k, v) ==
  /\ k \in Keys /\ k \in KeysIn
  /\ Map' = [Map EXCEPT ![k] = v] /\ KeysIn' = KeysIn /\ counter' = counter

Gains(k, v) ==
  /\ k \in Keys /\ k \notin KeysIn
  /\ Map' = [Map EXCEPT ![k] = v] /\ KeysIn' = KeysIn \union {k}
  /\ \E b \in Nat : Count(b, 1)

Loses(k) ==
  /\ k \in Keys /\ k \in KeysIn
  /\ Map' = [Map EXCEPT ![k] = Absent] /\ KeysIn' = KeysIn \ {k}
  /\ \E b \in Nat : Count(b, -1)

Empties ==
  /\ Map' = [k \in Keys |-> Absent] /\ KeysIn' = {}
  /\ counter' = [l \in Locks |-> 0]

\* What an insert does when its key is there, and when it is not.
Met(t) ==
  /\ Key(t) \in Keys /\ Key(t) \in KeysIn
  /\ Return(t, <<"no">>)
  /\ \/ call[t].kind = "insert" /\ Keeps
     \/ call[t].kind = "assign" /\ Sets(Key(t), call[t].val)
     \/ call[t].kind = "uprase" /\ Loses(Key(t))

Landed(t) ==
  /\ Key(t) \in Keys /\ Key(t) \notin KeysIn
  /\ Return(t, <<"yes">>)
  /\ \/ call[t].kind \in {"insert", "assign"} /\ Gains(Key(t), call[t].val)
     \/ call[t].kind = "uprase" /\ Keeps

\* With E in the buckets and nothing else done the map would be the same.
Stands(E) ==
  /\ Sound(E, old', unmigrated', hp, oldHp')
  /\ Meaning(E \union old') = Map
  /\ KeysOf(E \union old') = KeysIn

\* Migration changes nothing.
LEMMA EntersStands ==
  ASSUME Contents, NEW t, NEW B, Enter(t, B)
  PROVE  Stands(Arrived(LockInds(B)))
<1> DEFINE L == LockInds(B)
           W == Waiting(L)
           A == {Moved(e, old, oldHp) : e \in W}
<1>1. Sound(Arrived(L), old', unmigrated', hp, oldHp') /\ old' = old \ W
  BY EnterSound
<1>2. Arrived(L) = stored \union A /\ W \subseteq old
  BY DEF Arrived, Waiting
<1>3. oldHp \in 0 .. MaxHp /\ Filled(old, oldHp) /\ KeysOnce(Present)
  BY OnceInAll DEF Contents, Sound, Present
<1>4. KeysOnce(Arrived(L) \union old')
  BY <1>1, OnceInAll
<1>5. \A e \in W : Moved(e, old, oldHp).key = e.key /\ Moved(e, old, oldHp).val = e.val
  BY <1>2, <1>3, MovedOne
<1> HIDE DEF W, L
<1>6. \A f \in Arrived(L) \union old' : \E e \in Present : e.key = f.key /\ e.val = f.val
  BY <1>1, <1>2, <1>5 DEF Present
<1>7. \A e \in Present : \E f \in Arrived(L) \union old' : f.key = e.key
  BY <1>1, <1>2, <1>5 DEF Present
<1>8. /\ Meaning(Arrived(L) \union old') = Meaning(Present)
      /\ KeysOf(Arrived(L) \union old') = KeysOf(Present)
  BY <1>3, <1>4, <1>6, <1>7, MeaningKept
<1>9. Stands(Arrived(L))
  BY <1>1, <1>8, MapIs DEF Stands
<1> QED  BY <1>9 DEF L

\* Nothing else done.
LEMMA StandsKeeps ==
  ASSUME NEW E, Stands(E), stored' = E, UNCHANGED counter
  PROVE  Keeps
BY MapIs DEF Stands, Keeps, Present

\* A key that is met is in the map with that value ...
LEMMA HitsMean ==
  ASSUME NEW t, NEW E, Stands(E), Key(t) \in Keys, NEW e \in Hits(t, E)
  PROVE  /\ e \in E /\ e \in Element /\ e.key = Key(t)
         /\ Key(t) \in KeysIn /\ Map[Key(t)] = e.val
         /\ e.bucket \in Nat /\ e.val \in Values
<1>1. e \in E /\ e.key = Key(t)
  BY DEF Hits
<1>2. KeysOnce(E \union old') /\ e \in Element
  BY <1>1, OnceInAll DEF Stands
<1>3. Meaning(E \union old')[e.key] = e.val
  BY <1>1, <1>2, MeaningAt
<1>4. Key(t) \in KeysOf(E \union old')
  BY <1>1 DEF KeysOf
<1> QED  BY <1>1, <1>2, <1>3, <1>4, ElementFields DEF Stands

\* ... and can be given another one ...
LEMMA ChangeSets ==
  ASSUME NEW t, NEW E, Stands(E), Key(t) \in Keys, NEW e \in Hits(t, E), NEW v \in Values,
         stored' = (E \ {e}) \union {[e EXCEPT !.val = v]}, UNCHANGED counter
  PROVE  Sets(Key(t), v)
<1> DEFINE f == [e EXCEPT !.val = v]
           S == E \union old'
           T == stored' \union old'
<1>1. e \in E /\ e \in Element /\ e.key = Key(t) /\ Key(t) \in KeysIn
  BY HitsMean
<1>2. f \in T /\ f.key = Key(t) /\ f.val = v
  BY <1>1 DEF Element
<1>3. Sound(stored', old', unmigrated', hp, oldHp')
  BY <1>1, Changed DEF Stands
<1>4. KeysOnce(S) /\ KeysOnce(T)
  BY <1>3, OnceInAll DEF Stands
<1>5. \A d \in S : d.key # Key(t) => d \in T
  BY <1>1
<1>6. \A d \in T : d.key # Key(t) => d \in S
  BY <1>2
<1> HIDE DEF f
<1>7. Meaning(T) = [Meaning(S) EXCEPT ![Key(t)] = v] /\ KeysOf(T) = KeysOf(S) \union {Key(t)}
  <2>1. f.key \in Keys /\ \A d \in T : d.key # f.key => d \in S
    BY <1>2, <1>6
  <2>2. \A d \in S : d.key # f.key => d \in T
    BY <1>2, <1>5
  <2> HIDE DEF S, T
  <2>3. Meaning(T) = [Meaning(S) EXCEPT ![f.key] = f.val] /\ KeysOf(T) = KeysOf(S) \union {f.key}
    BY <1>2, <1>4, <2>1, <2>2, MeaningWith
  <2> QED  BY <1>2, <2>3
<1> QED  BY <1>1, <1>7, MapIs DEF Stands, Sets, Present

\* ... or taken out.
LEMMA RemovalLoses ==
  ASSUME NEW t, NEW E, Stands(E), Key(t) \in Keys, NEW e \in Hits(t, E),
         stored' = E \ {e}, Count(e.bucket, -1)
  PROVE  Loses(Key(t))
<1> DEFINE S == E \union old'
           T == stored' \union old'
<1>1. e \in E /\ e.key = Key(t) /\ Key(t) \in KeysIn /\ e.bucket \in Nat
  BY HitsMean
<1>2. Sound(stored', old', unmigrated', hp, oldHp')
  BY Removed DEF Stands
<1>3. KeysOnce(S) /\ KeysOnce(T)
  BY <1>2, OnceInAll DEF Stands
<1>4. \A d \in S : d.key # Key(t) => d \in T
  BY <1>1
<1>5. ASSUME NEW d \in T
      PROVE  d \in S /\ d.key # Key(t)
  <2>1. CASE d \in E \ {e}
    BY <1>1, <2>1 DEF Stands, Sound, Filled, KeysOnce
  <2>2. CASE d \in old'
    BY <1>1, <2>2, CuckooTableAssumption DEF Stands, Sound
  <2> QED  BY <2>1, <2>2
<1>6. Meaning(T) = [Meaning(S) EXCEPT ![Key(t)] = Absent] /\ KeysOf(T) = KeysOf(S) \ {Key(t)}
  BY <1>3, <1>4, <1>5, MeaningWithout
<1> QED  BY <1>1, <1>6, MapIs DEF Stands, Loses, Present

LEMMA MeetsMet ==
  ASSUME NEW t \in Threads, OnCall(t), pc[t] \in KeyPCs, NEW E, Stands(E), Meets(t, E)
  PROVE  Met(t)
<1>1. Key(t) \in Keys /\ call[t].val \in Values
  BY CallType
<1>2. PICK e \in Hits(t, E) :
        /\ \/ call[t].kind = "insert" /\ stored' = E /\ UNCHANGED counter
           \/ /\ call[t].kind = "assign"
              /\ stored' = (E \ {e}) \union {[e EXCEPT !.val = call[t].val]}
              /\ UNCHANGED counter
           \/ call[t].kind = "uprase" /\ stored' = E \ {e} /\ Count(e.bucket, -1)
        /\ Return(t, <<"no">>)
  BY DEF Meets
<1>3. Key(t) \in KeysIn
  BY <1>1, HitsMean
<1> QED  BY <1>1, <1>2, <1>3, StandsKeeps, ChangeSets, RemovalLoses DEF Met

\* A key that is in none of its buckets is not in the map.
LEMMA NoHitsMean ==
  ASSUME NEW t, NEW E, Stands(E), Key(t) \in Keys, hp = snap[t],
         LockInds(Mine(t)) \intersect unmigrated' = {}, Hits(t, E) = {}
  PROVE  Key(t) \notin KeysIn
<1>1. \A e \in E \union old' : e.key # Key(t)
  BY NotHit DEF Stands, Mine, Hits
<1> QED  BY <1>1 DEF Stands, KeysOf

LEMMA AddsLanded ==
  ASSUME NEW t \in Threads, OnCall(t), pc[t] \in KeyPCs, NEW E, NEW b, NEW s \in Slots,
         Stands(E), hp = snap[t], LockInds(Mine(t)) \intersect unmigrated' = {},
         Hits(t, E) = {}, b \in Mine(t), s \in Free(E, b), Adds(t, E, b, s)
  PROVE  Landed(t)
<1> DEFINE e == [bucket |-> b, slot |-> s,
                 key |-> Key(t), tag |-> Key(t), val |-> call[t].val]
           S == E \union old'
           T == stored' \union old'
<1>1. Key(t) \in Keys /\ Key(t) \notin KeysIn
  BY CallType, NoHitsMean
<1>2. Sound(stored', old', unmigrated', hp, oldHp')
  BY AddsSound DEF Stands
<1>3. b \in Nat
  BY <1>1, HomeType DEF Mine, Stands, Sound
<1>4. CASE /\ call[t].kind \in {"insert", "assign"}
           /\ stored' = E \union {e} /\ Count(b, 1)
  <2>1. KeysOnce(S) /\ KeysOnce(T)
    BY <1>2, OnceInAll DEF Stands
  <2>2. e \in T /\ e.key = Key(t) /\ e.val = call[t].val
    BY <1>4
  <2>3. (\A d \in S : d \in T) /\ (\A d \in T : d.key # e.key => d \in S)
    BY <1>4
  <2> HIDE DEF e
  <2>4. /\ Meaning(T) = [Meaning(S) EXCEPT ![Key(t)] = call[t].val]
        /\ KeysOf(T) = KeysOf(S) \union {Key(t)}
    <3> HIDE DEF S, T
    <3>1. e.key \in Keys
      BY <1>1, <2>2
    <3>2. /\ Meaning(T) = [Meaning(S) EXCEPT ![e.key] = e.val]
          /\ KeysOf(T) = KeysOf(S) \union {e.key}
      BY <2>1, <2>2, <2>3, <3>1, MeaningWith
    <3> QED  BY <2>2, <3>2
  <2>5. Gains(Key(t), call[t].val)
    BY <1>1, <1>3, <1>4, <2>4, MapIs DEF Stands, Gains, Present
  <2> QED  BY <1>1, <1>4, <2>5 DEF Landed, Adds
<1>5. CASE call[t].kind = "uprase" /\ stored' = E /\ UNCHANGED counter
  BY <1>1, <1>5, StandsKeeps DEF Landed, Adds
<1> QED  BY <1>4, <1>5 DEF Adds

\* The key lands in the first slot of its path, or is met.
LEMMA LandsDoes ==
  ASSUME NEW t \in Threads, OnCall(t), pc[t] \in KeyPCs, NEW E, Stands(E), hp = snap[t],
         LockInds(Mine(t)) \intersect unmigrated' = {},
         path[t][1].bucket \in Mine(t), path[t][1].slot \in Slots,
         path[t][1].slot \in Free(E, path[t][1].bucket), Lands(t, E)
  PROVE  Met(t) \/ Landed(t)
BY MeetsMet, AddsLanded DEF Lands

\* A key that moves along a path stays in the map.
LEMMA ShiftStands ==
  ASSUME NEW E, Stands(E), NEW e \in E, NEW to, to.bucket \in Nat, to.slot \in Slots,
         Sound(Shifted(E, e, to), old', unmigrated', hp, oldHp')
  PROVE  Stands(Shifted(E, e, to))
<1> DEFINE F == Shifted(E, e, to)
           f == [e EXCEPT !.bucket = to.bucket, !.slot = to.slot]
           S == E \union old'
           T == F \union old'
<1>1. e \in Element
  BY DEF Stands, Sound, Filled
<1>2. f.key = e.key /\ f.val = e.val
  BY <1>1 DEF Element
<1>3. KeysOnce(S) /\ KeysOnce(T)
  BY OnceInAll DEF Stands
<1>4. F = (E \ {e}) \union {f}
  BY DEF Shifted
<1> HIDE DEF F, f
<1>5. \A d \in T : \E c \in S : c.key = d.key /\ c.val = d.val
  BY <1>2, <1>4
<1>6. \A c \in S : \E d \in T : d.key = c.key
  BY <1>2, <1>4
<1> HIDE DEF S, T
<1>7. Meaning(T) = Meaning(S) /\ KeysOf(T) = KeysOf(S)
  BY <1>3, <1>5, <1>6, MeaningKept
<1> QED  BY <1>7 DEF Stands, F, S, T

\* With all the locks: the same elements in one table.
LEMMA AllMeans ==
  ASSUME Contents
  PROVE  Meaning(All) = Map /\ KeysOf(All) = KeysIn /\ KeysOnce(All) /\ Filled(All, hp)
<1>1. oldHp \in 0 .. MaxHp /\ Filled(old, oldHp) /\ KeysOnce(Present)
  BY OnceInAll DEF Contents, Sound, Present
<1>2. Filled(All, hp) /\ All = stored \union {Moved(e, old, oldHp) : e \in old}
  BY AllFilled
<1>3. \A e \in old : Moved(e, old, oldHp).key = e.key /\ Moved(e, old, oldHp).val = e.val
  BY <1>1, MovedOne
<1>4. KeysOnce(All)
  BY <1>2 DEF Filled
<1>5. \A d \in All : \E c \in Present : c.key = d.key /\ c.val = d.val
  BY <1>2, <1>3 DEF Present
<1>6. \A c \in Present : \E d \in All : d.key = c.key
  BY <1>2, <1>3 DEF Present
<1>7. Meaning(All) = Meaning(Present) /\ KeysOf(All) = KeysOf(Present)
  BY <1>1, <1>4, <1>5, <1>6, MeaningKept
<1> QED  BY <1>2, <1>4, <1>7, MapIs

\* All elements are in one place afterwards, with the keys and values they had.
LEMMA GatheredKeeps ==
  ASSUME Contents, NEW X, Present' = X, KeysOnce(X),
         \A f \in X : \E e \in All : e.key = f.key /\ e.val = f.val,
         \A e \in All : \E f \in X : f.key = e.key,
         UNCHANGED counter
  PROVE  Keeps
<1>1. Meaning(X) = Meaning(All) /\ KeysOf(X) = KeysOf(All)
  BY AllMeans, MeaningKept
<1>2. Meaning(Present)' = Meaning(X) /\ KeysOf(Present)' = KeysOf(X)
  BY DEF Meaning, KeysOf
<1> QED  BY <1>1, <1>2, AllMeans, MapIs DEF Keeps

-----------------------------------------------------------------------------
(* ... action by action.                                                   *)

\* What find, update and erase do.
Missed(t) ==
  /\ Key(t) \in Keys /\ Key(t) \notin KeysIn
  /\ call[t].kind \in {"find", "update", "erase"}
  /\ Keeps
  /\ Return(t, <<"no">>)

Found(t) ==
  /\ Key(t) \in Keys /\ Key(t) \in KeysIn
  /\ \/ call[t].kind = "find"   /\ Keeps /\ Return(t, <<"value", Map[Key(t)]>>)
     \/ call[t].kind = "update" /\ Sets(Key(t), call[t].val) /\ Return(t, <<"yes">>)
     \/ call[t].kind = "erase"  /\ Loses(Key(t)) /\ Return(t, <<"yes">>)

LEMMA MissesDoes ==
  ASSUME Inv, NEW t \in Threads, Misses(t)
  PROVE  Missed(t)
<1>1. /\ Enter(t, Mine(t)) /\ OnCall(t) /\ pc[t] \in KeyPCs /\ Contents
      /\ stored' = Arrived(LockInds(Mine(t))) /\ Hits(t, stored') = {}
      /\ call[t].kind \in {"find", "update", "erase"}
      /\ Return(t, <<"no">>) /\ counter' = counter
  BY DEF Misses, Inv, ThreadInv, KeyPCs
<1>2. Key(t) \in Keys
  BY <1>1, CallType
<1>3. /\ Stands(Arrived(LockInds(Mine(t)))) /\ hp = snap[t]
      /\ LockInds(Mine(t)) \intersect unmigrated' = {}
  BY <1>1, EntersStands, EnterSound
<1>4. Key(t) \notin KeysIn /\ Keeps
  BY <1>1, <1>2, <1>3, NoHitsMean, StandsKeeps
<1> QED  BY <1>1, <1>2, <1>4 DEF Missed

LEMMA FindsDoes ==
  ASSUME Inv, NEW t \in Threads, Finds(t)
  PROVE  Found(t)
<1> DEFINE E == Arrived(LockInds(Mine(t)))
<1>1. Enter(t, Mine(t)) /\ OnCall(t) /\ pc[t] \in KeyPCs /\ Contents
  BY DEF Finds, Inv, ThreadInv, KeyPCs
<1>2. Key(t) \in Keys /\ call[t].val \in Values /\ Stands(E)
  BY <1>1, CallType, EntersStands
<1>3. PICK e \in Hits(t, E) :
       \/ /\ call[t].kind = "find" /\ stored' = E /\ UNCHANGED counter
          /\ Return(t, <<"value", e.val>>)
       \/ /\ call[t].kind = "update"
          /\ stored' = (E \ {e}) \union {[e EXCEPT !.val = call[t].val]}
          /\ UNCHANGED counter
          /\ Return(t, <<"yes">>)
       \/ /\ call[t].kind = "erase" /\ stored' = E \ {e} /\ Count(e.bucket, -1)
          /\ Return(t, <<"yes">>)
  BY DEF Finds
<1>4. Key(t) \in KeysIn /\ Map[Key(t)] = e.val
  BY <1>2, HitsMean
<1> HIDE DEF E
<1> QED  BY <1>2, <1>3, <1>4, StandsKeeps, ChangeSets, RemovalLoses DEF Found

LEMMA InsertMeetsDoes ==
  ASSUME Inv, NEW t \in Threads, InsertMeets(t)
  PROVE  Met(t)
<1>1. /\ Enter(t, Mine(t)) /\ OnCall(t) /\ pc[t] \in KeyPCs /\ Contents
      /\ Meets(t, Arrived(LockInds(Mine(t))))
  BY DEF InsertMeets, Inv, ThreadInv, KeyPCs
<1> QED  BY <1>1, EntersStands, MeetsMet

LEMMA InsertAddsDoes ==
  ASSUME Inv, NEW t \in Threads, InsertAdds(t)
  PROVE  Landed(t)
<1> DEFINE E == Arrived(LockInds(Mine(t)))
<1>1. Enter(t, Mine(t)) /\ OnCall(t) /\ pc[t] \in KeyPCs /\ Contents
  BY DEF InsertAdds, Inv, ThreadInv, KeyPCs
<1>2. PICK b \in Mine(t), s \in Slots :
        Hits(t, E) = {} /\ s \in Free(E, b) /\ Adds(t, E, b, s)
  BY DEF InsertAdds, IsGreatest
<1>3. /\ Stands(E) /\ hp = snap[t]
      /\ LockInds(Mine(t)) \intersect unmigrated' = {}
  BY <1>1, EntersStands, EnterSound
<1> QED  BY <1>1, <1>2, <1>3, AddsLanded

\* A section that looks and does nothing.
LEMMA LooksKeeps ==
  ASSUME Inv, NEW t, NEW B, Enter(t, B), stored' = Arrived(LockInds(B)), counter' = counter
  PROVE  Keeps
BY EntersStands, StandsKeeps DEF Inv

LEMMA SearchKeeps ==
  ASSUME Inv, NEW t \in Threads,
         \/ InsertSearches(t) \/ SearchFinds(t) \/ SearchGoesOn(t) \/ Trace(t)
         \/ MoveFails(t)
  PROVE  Keeps
<1>1. CASE InsertSearches(t)
  BY <1>1, LooksKeeps DEF InsertSearches
<1>2. CASE SearchFinds(t)
  BY <1>2, LooksKeeps DEF SearchFinds
<1>3. CASE SearchGoesOn(t)
  BY <1>3, LooksKeeps DEF SearchGoesOn
<1>4. CASE Trace(t)
  <2>1. PICK b : Enter(t, {b}) /\ stored' = Arrived(LockInds({b})) /\ counter' = counter
    BY <1>4 DEF Trace
  <2> QED  BY <2>1, LooksKeeps
<1>5. CASE MoveFails(t)
  BY <1>5, LooksKeeps DEF MoveFails
<1> QED  BY <1>1, <1>2, <1>3, <1>4, <1>5

LEMMA MoveNoneDoes ==
  ASSUME Inv, NEW t \in Threads, MoveNone(t)
  PROVE  Met(t) \/ Landed(t) \/ (Keeps /\ UNCHANGED <<call, last>>)
<1> DEFINE E == Arrived(LockInds(Mine(t)))
<1>1. /\ Enter(t, Mine(t)) /\ OnCall(t) /\ pc[t] \in KeyPCs /\ Contents
      /\ OnPath(t) /\ Len(path[t]) = 1
  BY DEF MoveNone, Inv, ThreadInv, KeyPCs
<1>2. path[t][1].slot \in Slots /\ path[t][1].bucket \in Mine(t)
  <2>1. 1 \in 1 .. Len(path[t])
    BY <1>1
  <2>2. path[t] # << >>
    BY <1>1, NotEmpty
  <2> QED  BY <1>1, <2>1, <2>2, PathType DEF OnPath
<1>3. /\ Stands(E) /\ hp = snap[t]
      /\ LockInds(Mine(t)) \intersect unmigrated' = {}
  BY <1>1, EntersStands, EnterSound
<1>4. CASE stored' = E /\ Stay(t) /\ counter' = counter
  BY <1>3, <1>4, StandsKeeps DEF Stay
<1>5. CASE path[t][1].slot \in Free(E, path[t][1].bucket) /\ Lands(t, E)
  BY <1>1, <1>2, <1>3, <1>5, LandsDoes
<1> QED  BY <1>4, <1>5 DEF MoveNone

LEMMA MoveOneDoes ==
  ASSUME Inv, NEW t \in Threads, MoveOne(t)
  PROVE  Met(t) \/ Landed(t) \/ (Keeps /\ UNCHANGED <<call, last>>)
<1> DEFINE p == path[t]
           d == Len(p)
           B == MoveLocks(t, p)
           E == Arrived(LockInds(B))
           F(e) == Shifted(E, e, p[d])
<1>1. /\ Enter(t, B) /\ hp' = hp /\ OnCall(t) /\ pc[t] \in KeyPCs /\ Contents
      /\ OnPath(t) /\ d > 1
  BY DEF MoveOne, Inv, ThreadInv, KeyPCs
<1>2. /\ p[1].bucket \in Mine(t) /\ p[1].slot \in Slots /\ p[d].slot \in Slots
      /\ p[d - 1].key \in Keys \union {Husk} /\ p[d].bucket \in Nat
      /\ p[d].bucket = AltIndex(p[d - 1].key, snap[t], p[d - 1].bucket)
  BY <1>1, PathEnds
<1>3. /\ Stands(E) /\ hp = snap[t]
      /\ Sound(E, old', unmigrated', hp, oldHp')
      /\ LockInd(p[d].bucket) \notin unmigrated'
      /\ d = 2 => LockInds(Mine(t)) \intersect unmigrated' = {}
  <2>1. p[d].bucket \in B /\ (d = 2 => LockInds(Mine(t)) \subseteq LockInds(B))
    BY DEF MoveLocks, LockInds
  <2> QED  BY <1>1, <2>1, EnterSound, EntersStands
<1>4. PICK e \in Movable(E, p[d - 1], p[d]) :
        \/ d = 2 /\ Lands(t, F(e))
        \/ stored' = F(e) /\ counter' = counter /\ UNCHANGED <<call, last>>
  BY DEF MoveOne, Shifted, Stay
<1>5. e \in E
  BY DEF Movable
<1>6. /\ Sound(F(e), old', unmigrated', hp, oldHp')
      /\ p[d - 1].slot \in Slots => p[d - 1].slot \in Free(F(e), p[d - 1].bucket)
  <2> HIDE DEF E, p, d
  <2>1. p[d].bucket = AltIndex(p[d - 1].key, hp, p[d - 1].bucket)
    BY <1>2, <1>3
  <2> QED  BY <1>2, <1>3, <2>1, MovableSound
<1>7. Stands(F(e))
  <2> HIDE DEF E, p, d
  <2> QED  BY <1>2, <1>3, <1>5, <1>6, ShiftStands
<1>8. CASE d = 2 /\ Lands(t, F(e))
  <2>1. p[1].slot \in Free(F(e), p[1].bucket)
    BY <1>2, <1>6, <1>8
  <2> HIDE DEF F
  <2> QED  BY <1>1, <1>2, <1>3, <1>7, <1>8, <2>1, LandsDoes
<1>9. CASE stored' = F(e) /\ counter' = counter /\ UNCHANGED <<call, last>>
  <2> HIDE DEF F
  <2> QED  BY <1>7, <1>9, StandsKeeps
<1> QED  BY <1>4, <1>8, <1>9

LEMMA DoublesKeeps ==
  ASSUME Inv, NEW t \in Threads, Doubles(t)
  PROVE  Keeps
<1>1. Contents /\ hp \in 0 .. MaxHp /\ counter' = counter
  BY DEF Inv, Contents, Sound, Doubles
<1>2. Filled(All, hp) /\ KeysOnce(All)
  BY <1>1, AllMeans
<1>3. CASE stored' = {Moved(e, All, hp) : e \in All} /\ old' = {}
  <2> DEFINE X == {Moved(e, All, hp) : e \in All}
  <2>1. \A e \in All : Moved(e, All, hp).key = e.key /\ Moved(e, All, hp).val = e.val
    BY <1>1, <1>2, MovedOne
  <2>2. KeysOnce(X)
    BY <1>2, <2>1 DEF KeysOnce
  <2>3. Present' = X
    BY <1>3 DEF Present
  <2>4. \A f \in X : \E e \in All : e.key = f.key /\ e.val = f.val
    BY <2>1
  <2>5. \A e \in All : \E f \in X : f.key = e.key
    BY <2>1
  <2> HIDE DEF X
  <2> QED  BY <1>1, <2>2, <2>3, <2>4, <2>5, GatheredKeeps
<1>4. CASE stored' = {} /\ old' = All
  <2>1. Present' = All
    BY <1>4 DEF Present
  <2> QED  BY <1>1, <1>2, <2>1, GatheredKeeps
<1> QED  BY <1>3, <1>4 DEF Doubles, Doubled, Settle

LEMMA ExpandsSimpleKeeps ==
  ASSUME Inv, NEW t \in Threads, ExpandsSimple(t)
  PROVE  Keeps
<1>1. Contents /\ counter' = counter
  BY DEF Inv, ExpandsSimple
<1>2. PICK n \in 0 .. MaxHp : stored' \in Fillings(All, n)
  BY FillingSize
<1>3. Filled(All, hp) /\ KeysOnce(All) /\ All \subseteq Element
  BY <1>1, AllMeans DEF Filled
<1>4. /\ Filled(stored', n)
      /\ \A e \in stored' : \E f \in All : f.key = e.key /\ f.val = e.val
      /\ \A f \in All : \E e \in stored' : e.key = f.key
  BY <1>2, <1>3, Refilled
<1>5. Present' = stored'
  BY DEF Present, ExpandsSimple, Settle
<1> QED  BY <1>1, <1>4, <1>5, GatheredKeeps DEF Filled

LEMMA LockTableKeeps ==
  ASSUME Inv, NEW t \in Threads, LockTable(t)
  PROVE  Keeps
<1>1. Contents /\ counter' = counter /\ Present' = All
  BY DEF Inv, LockTable, Settle, Present
<1> QED  BY <1>1, AllMeans, GatheredKeeps

LEMMA ClearEmpties ==
  ASSUME Inv, NEW t \in Threads, Clear(t)
  PROVE  Empties
<1>1. Present' = {} /\ counter' = [l \in Locks |-> 0]
  BY DEF Clear, Settle, Present
<1>2. KeysOf(Present)' = {}
  BY <1>1 DEF KeysOf
<1>3. Meaning(Present)' = [k \in Keys |-> Absent]
  BY <1>2 DEF Meaning
<1> QED  BY <1>1, <1>2, <1>3, MapIs DEF Empties

\* Nothing is done to the elements.
LEMMA UntouchedKeeps ==
  ASSUME UNCHANGED <<stored, old, counter>>
  PROVE  Keeps
BY MapIs DEF Present, Meaning, KeysOf, Keeps

-----------------------------------------------------------------------------
(* The counters, if no rebuild throws: one that does leaves elements behind *)
(* that are all of the key Husk, and a rebuild may then take two for one.   *)

Counted ==
  /\ KeysIn \subseteq Keys
  /\ IsFiniteSet(KeysIn)
  /\ Sum(counter, Locks) = Cardinality(KeysIn)

LEMMA LocksFinite == IsFiniteSet(Locks)
BY LockIndType, FS_Interval DEF Locks

\* One key more or less, and one lock's counter with it.
LEMMA CountSum ==
  ASSUME RestTyped, NEW b \in Nat, NEW n \in Int, Count(b, n)
  PROVE  Sum(counter', Locks) = Sum(counter, Locks) + n
<1>1. LockInd(b) \in Locks /\ counter \in [Locks -> Int]
  BY LockIndType DEF RestTyped
<1>2. counter' = [counter EXCEPT ![LockInd(b)] = @ + n]
  BY DEF Count
<1> QED  BY <1>1, <1>2, LocksFinite, SumChange

LEMMA CountedKeeps ==
  ASSUME Counted, KeysIn' = KeysIn, counter' = counter
  PROVE  Counted'
BY DEF Counted

LEMMA CountedGains ==
  ASSUME RestTyped, Counted, NEW k, NEW v, Gains(k, v)
  PROVE  Counted'
<1>1. k \in Keys /\ k \notin KeysIn /\ KeysIn' = KeysIn \union {k}
  BY DEF Gains
<1>2. Sum(counter', Locks) = Sum(counter, Locks) + 1
  BY CountSum DEF Gains
<1>3. IsFiniteSet(KeysIn') /\ Cardinality(KeysIn') = Cardinality(KeysIn) + 1
  BY <1>1, FS_AddElement DEF Counted
<1> QED  BY <1>1, <1>2, <1>3 DEF Counted

LEMMA CountedLoses ==
  ASSUME RestTyped, Counted, NEW k, Loses(k)
  PROVE  Counted'
<1>1. k \in KeysIn /\ KeysIn' = KeysIn \ {k}
  BY DEF Loses
<1>2. Sum(counter', Locks) = Sum(counter, Locks) - 1
  <2>1. PICK b \in Nat : Count(b, -1)
    BY DEF Loses
  <2>2. Sum(counter', Locks) = Sum(counter, Locks) + (-1)
    BY <2>1, CountSum
  <2>3. Sum(counter, Locks) \in Int
    BY LocksFinite, SumAdd DEF RestTyped
  <2> QED  BY <2>2, <2>3
<1>3. IsFiniteSet(KeysIn') /\ Cardinality(KeysIn') = Cardinality(KeysIn) - 1
  BY <1>1, FS_RemoveElement DEF Counted
<1> QED  BY <1>1, <1>2, <1>3 DEF Counted

LEMMA CountedEmpties ==
  ASSUME Empties
  PROVE  Counted'
<1>1. KeysIn' = {} /\ counter' = [l \in Locks |-> 0]
  BY DEF Empties
<1>2. Sum(counter', Locks) = 0
  BY <1>1, LocksFinite, SumZero
<1> QED  BY <1>1, <1>2, FS_EmptySet DEF Counted

LEMMA NextCounted ==
  ASSUME Inv, Counted, MovesThrow = FALSE, [Next]_vars
  PROVE  Counted'
<1>1. RestTyped
  BY DEF Inv
<1>2. ASSUME Keeps
      PROVE  Counted'
  BY <1>2, CountedKeeps DEF Keeps
<1>3. ASSUME NEW k, NEW v, Sets(k, v)
      PROVE  Counted'
  BY <1>3, CountedKeeps DEF Sets
<1>4. ASSUME NEW t, Missed(t) \/ Found(t) \/ Met(t) \/ Landed(t)
      PROVE  Counted'
  BY <1>1, <1>2, <1>3, <1>4, CountedGains, CountedLoses DEF Missed, Found, Met, Landed
<1>5. ASSUME NEW t \in Threads, Access(t)
      PROVE  Counted'
  <2>1. CASE Snapshot(t) \/ HashpowerChanged(t)
    BY <1>2, <2>1, UntouchedKeeps DEF Snapshot, HashpowerChanged, table, lazy
  <2>2. CASE Misses(t)
    BY <1>4, <2>2, MissesDoes
  <2>3. CASE Finds(t)
    BY <1>4, <2>3, FindsDoes
  <2> QED  BY <1>5, <2>1, <2>2, <2>3 DEF Access
<1>6. ASSUME NEW t \in Threads, Insert(t)
      PROVE  Counted'
  <2>1. CASE InsertMeets(t)
    BY <1>4, <2>1, InsertMeetsDoes
  <2>2. CASE InsertAdds(t)
    BY <1>4, <2>2, InsertAddsDoes
  <2>3. CASE \/ InsertSearches(t) \/ SearchFinds(t) \/ SearchGoesOn(t) \/ Trace(t)
             \/ MoveFails(t)
    BY <1>2, <2>3, SearchKeeps
  <2>4. CASE MoveNone(t)
    BY <1>2, <1>4, <2>4, MoveNoneDoes
  <2>5. CASE MoveOne(t)
    BY <1>2, <1>4, <2>5, MoveOneDoes
  <2>6. ~MoveThrows(t)
    BY DEF MoveThrows
  <2> QED  BY <1>6, <2>1, <2>2, <2>3, <2>4, <2>5, <2>6 DEF Insert
<1>7. ASSUME NEW t \in Threads, Resize(t)
      PROVE  Counted'
  <2>1. CASE Doubles(t)
    BY <1>2, <2>1, DoublesKeeps
  <2>2. CASE ExpandsSimple(t)
    BY <1>2, <2>2, ExpandsSimpleKeeps
  <2>3. CASE Overtaken(t) \/ Refused(t) \/ NoRehash(t) \/ Rehashes(t)
    BY <1>2, <2>3, UntouchedKeeps
       DEF Overtaken, Refused, NoRehash, Rehashes, table, lazy
  <2>4. ~FillFails(t)
    BY DEF FillFails
  <2> QED  BY <1>7, <2>1, <2>2, <2>3, <2>4 DEF Resize
<1>8. ASSUME NEW t \in Threads, Whole(t)
      PROVE  Counted'
  <2>1. CASE Clear(t)
    BY <2>1, ClearEmpties, CountedEmpties
  <2>2. CASE LockTable(t)
    BY <1>2, <2>2, LockTableKeeps
  <2>3. CASE UnlockTable(t) \/ ReadCounter(t) \/ SizeReturns(t)
    BY <1>2, <2>3, UntouchedKeeps DEF UnlockTable, ReadCounter, SizeReturns, table, lazy
  <2> QED  BY <1>8, <2>1, <2>2, <2>3 DEF Whole
<1>9. ASSUME NEW t \in Threads, Begin(t)
      PROVE  Counted'
  BY <1>2, <1>9, UntouchedKeeps DEF Begin, table, lazy
<1>10. CASE UNCHANGED vars
  BY <1>2, <1>10, UntouchedKeeps DEF vars, table, lazy
<1> QED  BY <1>5, <1>6, <1>7, <1>8, <1>9, <1>10 DEF Next, Step

LEMMA InitCounted == Init => Counted
<1> SUFFICES ASSUME Init
             PROVE  Counted
  OBVIOUS
<1>1. KeysIn = {} /\ counter = [l \in Locks |-> 0]
  BY DEF Init, KeysIn
<1> QED  BY <1>1, LocksFinite, SumZero, FS_EmptySet DEF Counted

\* What is counted by key is counted by element.
LEMMA CountedAddsUp ==
  ASSUME Inv, Counted
  PROVE  CountersAddUp
<1>1. KeysOnce(stored) /\ KeysOnce(old) /\ counter \in [Locks -> Int]
  BY DEF Inv, Contents, Sound, Filled, RestTyped
<1>2. KeysIn = KeysOf(stored) \union KeysOf(old)
  BY DEF KeysIn, KeysOf
<1>3. KeysOf(stored) \intersect KeysOf(old) = {}
  <2>1. \A e \in stored, f \in old : e.key = f.key => e.key = Husk
    BY DEF Inv, Contents, Sound
  <2> QED  BY <1>2, <2>1, CuckooTableAssumption DEF KeysOf, Counted
<1>4. /\ IsFiniteSet(KeysOf(stored)) /\ KeysOf(stored) \subseteq Keys
      /\ IsFiniteSet(KeysOf(old)) /\ KeysOf(old) \subseteq Keys
  BY <1>2, FS_Subset DEF Counted
<1>5. Cardinality(KeysIn) = Cardinality(KeysOf(stored)) + Cardinality(KeysOf(old))
  <2> DEFINE S == KeysOf(stored)
             O == KeysOf(old)
  <2>1. Cardinality(S \union O) = Cardinality(S) + Cardinality(O) - Cardinality(S \intersect O)
    BY <1>4, FS_Union
  <2>2. Cardinality(S) \in Nat /\ Cardinality(O) \in Nat
    BY <1>4, FS_CardinalityType
  <2>3. Cardinality(S \intersect O) = 0 /\ KeysIn = S \union O
    BY <1>2, <1>3, FS_EmptySet
  <2> HIDE DEF S, O
  <2>4. Cardinality(S \union O) = Cardinality(S) + Cardinality(O)
    BY <2>1, <2>2, <2>3
  <2> QED  BY <2>3, <2>4 DEF S, O
<1>6. Cardinality(stored) = Cardinality(KeysOf(stored)) /\ Cardinality(old) = Cardinality(KeysOf(old))
  BY <1>1, <1>4, KeysCount
<1> QED  BY <1>1, <1>5, <1>6, TotalIsSum DEF Counted, CountersAddUp

-----------------------------------------------------------------------------
(* The calls and the sums of size().                                       *)

\* A thread without a call is idle, and what it was called for is what it
\* does.  Only the thread that has the locked_table unlocks it.
Doing(t) ==
  /\ pc[t] = "idle" => call[t] = NoCall
  /\ call[t] = NoCall => pc[t] = "idle"
  /\ pc[t] \in {"search", "trace", "move", "full"} => Inserts(t)
  /\ pc[t] \in {"clear", "lock table", "unlock"} => call[t].kind = pc[t]
  /\ pc[t] = "sum" => call[t].kind = "size"
  /\ pc[t] = "unlock" => locker = t

\* What size() has added up is right if nobody else could change it.
Summing(t) ==
  /\ pc[t] # "sum" => sum[t] = [next |-> 0, total |-> 0]
  /\ pc[t] = "sum" /\ locker = t =>
       sum[t].total = Sum(counter, 0 .. sum[t].next - 1)

CallsTyped ==
  /\ DOMAIN last = Threads
  /\ sum \in [Threads -> [next : 0 .. MaxNumLocks, total : Int]]

CallInv == CallsTyped /\ \A t \in Threads : Doing(t) /\ Summing(t)

\* A step of t touches the counters and the locked_table only if nobody else
\* has it.
Quiet(t) ==
  \/ locker' = locker /\ counter' = counter
  \/ locker \in {Nobody, t} /\ locker' \in {Nobody, t}

Aside(t) ==
  \A u \in Threads \ {t} : pc'[u] = pc[u] /\ call'[u] = call[u] /\ sum'[u] = sum[u]

\* It is enough to look at the thread that takes the step.
LEMMA AsideKeeps ==
  ASSUME CallInv, NEW t \in Threads, Aside(t), Quiet(t), CallsTyped',
         Doing(t)', Summing(t)'
  PROVE  CallInv'
<1> SUFFICES ASSUME NEW u \in Threads \ {t}
             PROVE  Doing(u)' /\ Summing(u)'
  BY DEF CallInv
<1>1. Doing(u) /\ Summing(u)
  BY DEF CallInv
<1>2. pc'[u] = pc[u] /\ call'[u] = call[u] /\ sum'[u] = sum[u]
  BY DEF Aside
<1>3. locker = u => locker' = u /\ counter' = counter
  BY CuckooTableAssumption DEF Quiet
<1>4. locker' = u => locker = u
  BY CuckooTableAssumption DEF Quiet
<1>5. Doing(u)'
  BY <1>1, <1>2, <1>3 DEF Doing, Inserts
<1>6. Summing(u)'
  BY <1>1, <1>2, <1>3, <1>4 DEF Summing
<1> QED  BY <1>5, <1>6

LEMMA ReturnCalls ==
  ASSUME Inv, CallInv, NEW t \in Threads, NEW r, Return(t, r), Quiet(t)
  PROVE  CallInv'
<1>1. /\ pc' = [pc EXCEPT ![t] = "idle"]
      /\ call' = [call EXCEPT ![t] = NoCall]
      /\ last' = [last EXCEPT ![t] = r]
      /\ sum' = [sum EXCEPT ![t] = [next |-> 0, total |-> 0]]
  BY DEF Return, Goto
<1>2. /\ pc \in [Threads -> PCs] /\ call \in [Threads -> Calls \union {NoCall}]
      /\ CallsTyped
  BY DEF Inv, ThreadsTyped, CallInv
<1>3. Aside(t)
  BY <1>1, <1>2 DEF Aside, CallsTyped
<1>4. pc'[t] = "idle" /\ call'[t] = NoCall /\ sum'[t] = [next |-> 0, total |-> 0]
  BY <1>1, <1>2 DEF CallsTyped
<1>5. CallsTyped'
  <2>1. 0 \in 0 .. MaxNumLocks
    BY LockIndType
  <2> QED  BY <1>1, <1>2, <2>1 DEF CallsTyped
<1>6. Doing(t)'
  BY <1>4 DEF Doing
<1>7. Summing(t)'
  BY <1>4 DEF Summing
<1> QED  BY <1>3, <1>5, <1>6, <1>7, AsideKeeps

Apart == {"idle", "sum", "clear", "lock table", "unlock"}

\* A call goes on.
LEMMA GoesOnCalls ==
  ASSUME Inv, CallInv, NEW t \in Threads, NEW l \in PCs, Goto(t, l), Quiet(t),
         UNCHANGED <<call, last, sum>>, pc[t] \notin Apart, l \notin Apart,
         l \in {"search", "trace", "move", "full"} => Inserts(t)
  PROVE  CallInv'
<1>1. pc' = [pc EXCEPT ![t] = l]
  BY DEF Goto
<1>2. pc \in [Threads -> PCs] /\ CallsTyped /\ Doing(t) /\ Summing(t)
  BY DEF Inv, ThreadsTyped, CallInv
<1>3. Aside(t)
  BY <1>1, <1>2 DEF Aside
<1>4. pc'[t] = l
  BY <1>1, <1>2
<1>5. CallsTyped'
  BY <1>2 DEF CallsTyped
<1>6. Doing(t)'
  BY <1>2, <1>4 DEF Doing, Apart, Inserts
<1>7. Summing(t)'
  BY <1>2, <1>4 DEF Summing, Apart
<1> QED  BY <1>3, <1>5, <1>6, <1>7, AsideKeeps

\* What the start of each kind of call is.
LEMMA StartDoes ==
  ASSUME NEW c \in Calls
  PROVE  /\ StartOf(c.kind) \notin {"idle", "search", "trace", "move", "full"}
         /\ StartOf(c.kind) \in {"clear", "lock table", "unlock"} => c.kind = StartOf(c.kind)
         /\ StartOf(c.kind) = "sum" => c.kind = "size"
         /\ StartOf(c.kind) = "unlock" => c.kind = "unlock"
<1>1. c.kind \in KeyKinds \/ c.kind = "rehash" \/ c.kind \in WholeKinds
  BY CuckooTableAssumption DEF AllCalls
<1>2. CASE c.kind \in KeyKinds
  BY <1>2 DEF StartOf
<1>3. CASE c.kind = "rehash"
  BY <1>3 DEF StartOf, KeyKinds
<1>4. CASE c.kind \in WholeKinds
  BY <1>4 DEF StartOf, KeyKinds, WholeKinds
<1> QED  BY <1>1, <1>2, <1>3, <1>4

LEMMA BeginCalls ==
  ASSUME Inv, CallInv, NEW t \in Threads, Begin(t)
  PROVE  CallInv'
<1>1. PICK c \in Calls :
        /\ IF locker = t THEN c.kind \in LockedKinds ELSE c.kind # "unlock"
        /\ call' = [call EXCEPT ![t] = c]
        /\ pc' = [pc EXCEPT ![t] = StartOf(c.kind)]
  BY DEF Begin, Goto
<1>2. /\ pc \in [Threads -> PCs] /\ call \in [Threads -> Calls \union {NoCall}]
      /\ CallsTyped /\ Summing(t) /\ pc[t] = "idle"
  BY DEF Inv, ThreadsTyped, CallInv, Begin
<1>3. UNCHANGED <<locker, counter, last, sum>>
  BY DEF Begin, table, local
<1>4. Aside(t) /\ pc'[t] = StartOf(c.kind) /\ call'[t] = c
  BY <1>1, <1>2, <1>3 DEF Aside
<1>5. Doing(t)'
  BY <1>1, <1>3, <1>4, StartDoes, CuckooTableAssumption DEF Doing
<1>6. Summing(t)'
  <2>1. sum'[t] = [next |-> 0, total |-> 0]
    BY <1>2, <1>3 DEF Summing
  <2>2. Sum(counter', {}) = 0
    BY <1>3, LocksFinite, SumAdd, FS_EmptySet DEF Inv, RestTyped
  <2>3. 0 .. 0 - 1 = {}
    OBVIOUS
  <2> QED  BY <2>1, <2>2, <2>3 DEF Summing
<1>7. CallsTyped'
  BY <1>2, <1>3 DEF CallsTyped
<1> QED  BY <1>3, <1>4, <1>5, <1>6, <1>7, AsideKeeps DEF Quiet

LEMMA ReadCalls ==
  ASSUME Inv, CallInv, NEW t \in Threads, ReadCounter(t)
  PROVE  CallInv'
<1> DEFINE n == sum[t].next
<1>1. /\ sum' = [sum EXCEPT ![t] = [next |-> n + 1, total |-> sum[t].total + counter[n]]]
      /\ UNCHANGED <<locker, counter, last, pc, call>>
      /\ n < MaxNumLocks /\ pc[t] = "sum"
  BY DEF ReadCounter, table
<1>2. /\ sum \in [Threads -> [next : 0 .. MaxNumLocks, total : Int]]
      /\ DOMAIN last = Threads /\ counter \in [Locks -> Int]
      /\ Doing(t) /\ Summing(t)
  BY DEF CallInv, CallsTyped, Inv, RestTyped
<1>3. MaxNumLocks \in Nat /\ sum[t] \in [next : 0 .. MaxNumLocks, total : Int]
  BY <1>2, LockIndType
<1>4. n \in 0 .. MaxNumLocks /\ sum[t].total \in Int /\ n \in Locks
  BY <1>1, <1>3 DEF Locks
<1>5. sum'[t].next = n + 1 /\ sum'[t].total = sum[t].total + counter[n]
  BY <1>1, <1>2
<1>6. CallsTyped'
  <2>1. n + 1 \in 0 .. MaxNumLocks /\ sum[t].total + counter[n] \in Int
    BY <1>1, <1>2, <1>3, <1>4
  <2> QED  BY <1>1, <1>2, <2>1 DEF CallsTyped
<1>7. Aside(t)
  BY <1>1, <1>2 DEF Aside
<1>8. Doing(t)'
  BY <1>1, <1>2 DEF Doing, Inserts
<1>9. Summing(t)'
  <2> SUFFICES ASSUME locker = t
               PROVE  sum'[t].total = Sum(counter, 0 .. sum'[t].next - 1)
    BY <1>1 DEF Summing
  <2>1. sum[t].total = Sum(counter, 0 .. n - 1)
    BY <1>1, <1>2 DEF Summing
  <2>2. 0 .. n \subseteq Locks /\ n \in 0 .. n /\ (0 .. n) \ {n} = 0 .. n - 1
    BY <1>1, <1>3, <1>4 DEF Locks
  <2>3. IsFiniteSet(0 .. n)
    BY <2>2, LocksFinite, FS_Subset
  <2>4. Sum(counter, 0 .. n) = counter[n] + Sum(counter, 0 .. n - 1)
    <3> DEFINE S == 0 .. n
               R == 0 .. n - 1
    <3>1. S \in SUBSET Locks /\ n \in S /\ S \ {n} = R /\ IsFiniteSet(S)
      BY <2>2, <2>3
    <3> HIDE DEF S, R, n
    <3>2. \A x \in S : Sum(counter, S) = counter[x] + Sum(counter, S \ {x})
      BY <1>2, <3>1, SumAdd
    <3>3. Sum(counter, S) = counter[n] + Sum(counter, R)
      BY <3>1, <3>2
    <3> QED  BY <3>3 DEF S, R
  <2>5. sum'[t].next - 1 = n
    BY <1>4, <1>5
  <2>6. counter[n] \in Int
    BY <1>2, <1>4
  <2> HIDE DEF n
  <2> QED  BY <1>4, <1>5, <2>1, <2>4, <2>5, <2>6
<1> QED  BY <1>1, <1>6, <1>7, <1>8, <1>9, AsideKeeps DEF Quiet

LEMMA NextCalls ==
  ASSUME Inv, CallInv, [Next]_vars
  PROVE  CallInv'
<1>1. ASSUME NEW t \in Threads, NEW r, Return(t, r), Quiet(t)
      PROVE  CallInv'
  BY <1>1, ReturnCalls
<1>2. ASSUME NEW t \in Threads, NEW B, Enter(t, B), locker' = locker
      PROVE  Quiet(t)
  BY <1>2 DEF Enter, MayEnter, Quiet
<1>3. ASSUME NEW t \in Threads, Access(t)
      PROVE  CallInv'
  <2>1. CASE Snapshot(t)
    BY <2>1, GoesOnCalls DEF Snapshot, Stay, Quiet, Apart, PCs, table
  <2>2. CASE HashpowerChanged(t)
    BY <2>2, GoesOnCalls DEF HashpowerChanged, Stay, Quiet, Apart, PCs, table
  <2>3. CASE Misses(t)
    BY <1>1, <1>2, <2>3 DEF Misses
  <2>4. CASE Finds(t)
    BY <1>1, <1>2, <2>4 DEF Finds
  <2> QED  BY <1>3, <2>1, <2>2, <2>3, <2>4 DEF Access
<1>4. ASSUME NEW t \in Threads, NEW E, Lands(t, E) \/ Meets(t, E), Quiet(t)
      PROVE  CallInv'
  BY <1>1, <1>4 DEF Lands, Meets, Adds
<1>5. ASSUME NEW t \in Threads, Insert(t)
      PROVE  CallInv'
  <2>0. Doing(t)
    BY DEF CallInv
  <2>1. CASE InsertMeets(t)
    BY <1>2, <1>4, <2>1 DEF InsertMeets
  <2>2. CASE InsertAdds(t)
    BY <1>1, <1>2, <2>2 DEF InsertAdds, Adds
  <2>3. CASE InsertSearches(t)
    BY <1>2, <2>3, GoesOnCalls DEF InsertSearches, SearchAgain, Stay, Apart, PCs
  <2>4. CASE SearchFinds(t)
    <3>1. Quiet(t)
      BY <1>2, <2>4 DEF SearchFinds, Stay
    <3> QED  BY <2>0, <2>4, <3>1, GoesOnCalls DEF SearchFinds, Stay, Apart, PCs, Doing
  <2>5. CASE SearchGoesOn(t)
    <3>1. Quiet(t)
      BY <1>2, <2>5 DEF SearchGoesOn, Stay
    <3>2. \E l \in {"full", "search"} : Goto(t, l)
      BY <2>5 DEF SearchGoesOn
    <3> QED  BY <2>0, <2>5, <3>1, <3>2, GoesOnCalls DEF SearchGoesOn, Stay, Apart, PCs, Doing
  <2>6. CASE Trace(t)
    <3>1. Quiet(t)
      BY <1>2, <2>6 DEF Trace, Stay
    <3>2. \E l \in {"move", "trace"} : Goto(t, l)
      BY <2>6 DEF Trace
    <3> QED  BY <2>0, <2>6, <3>1, <3>2, GoesOnCalls DEF Trace, Stay, Apart, PCs, Doing
  <2>7. CASE MoveNone(t)
    <3>1. Quiet(t)
      BY <1>2, <2>7 DEF MoveNone, Stay
    <3>2. CASE \E E : Lands(t, E)
      BY <1>4, <3>1, <3>2
    <3>3. CASE SearchAgain(t) /\ Stay(t)
      BY <2>0, <2>7, <3>1, <3>3, GoesOnCalls
         DEF MoveNone, SearchAgain, Stay, Apart, PCs, Doing
    <3> QED  BY <2>7, <3>2, <3>3 DEF MoveNone
  <2>8. CASE MoveOne(t)
    <3>1. Quiet(t)
      BY <1>2, <2>8 DEF MoveOne, Stay
    <3>2. CASE \E E : Lands(t, E)
      BY <1>4, <3>1, <3>2
    <3>3. CASE Stay(t) /\ UNCHANGED pc
      <4>1. Goto(t, "move")
        BY <2>8, <3>3 DEF Goto, MoveOne, Inv, ThreadsTyped
      <4> QED  BY <2>0, <2>8, <3>1, <3>3, <4>1, GoesOnCalls
                  DEF MoveOne, Stay, Apart, PCs, Doing
    <3> QED  BY <2>8, <3>2, <3>3 DEF MoveOne
  <2>9. CASE MoveFails(t)
    <3>1. Quiet(t)
      BY <1>2, <2>9 DEF MoveFails, Stay
    <3> QED  BY <2>0, <2>9, <3>1, GoesOnCalls DEF MoveFails, SearchAgain, Stay, Apart, PCs, Doing
  <2>10. CASE MoveThrows(t)
    BY <1>1, <1>2, <2>10 DEF MoveThrows
  <2> QED
    BY <1>5, <2>1, <2>2, <2>3, <2>4, <2>5, <2>6, <2>7, <2>8, <2>9, <2>10 DEF Insert
<1>6. ASSUME NEW t \in Threads, Resize(t)
      PROVE  CallInv'
  <2>1. CASE Doubles(t)
    BY <2>1, GoesOnCalls DEF Doubles, Stay, Quiet, Apart, PCs
  <2>2. CASE Overtaken(t)
    BY <2>2, GoesOnCalls DEF Overtaken, Stay, Quiet, Apart, PCs, table
  <2>3. CASE Refused(t)
    BY <1>1, <2>3 DEF Refused, Quiet, table
  <2>4. CASE ExpandsSimple(t)
    <3>1. CASE pc[t] = "full"
      BY <2>4, <3>1, GoesOnCalls DEF ExpandsSimple, Quiet, Apart, PCs, local
    <3>2. CASE pc[t] # "full"
      BY <1>1, <2>4, <3>2 DEF ExpandsSimple, Quiet
    <3> QED  BY <3>1, <3>2
  <2>5. CASE FillFails(t)
    BY <1>1, <2>5 DEF FillFails, Quiet
  <2>6. CASE NoRehash(t)
    BY <1>1, <2>6 DEF NoRehash, Quiet, table
  <2>7. CASE Rehashes(t)
    BY <2>7, GoesOnCalls DEF Rehashes, Stay, Quiet, Apart, PCs, table
  <2> QED  BY <1>6, <2>1, <2>2, <2>3, <2>4, <2>5, <2>6, <2>7 DEF Resize
<1>7. ASSUME NEW t \in Threads, Whole(t)
      PROVE  CallInv'
  <2>1. CASE Clear(t)
    BY <1>1, <2>1 DEF Clear, Quiet, MayEnter
  <2>2. CASE LockTable(t)
    BY <1>1, <2>2 DEF LockTable, Quiet
  <2>3. CASE UnlockTable(t)
    <3>1. locker = t
      BY <2>3 DEF UnlockTable, CallInv, Doing
    <3> QED  BY <1>1, <2>3, <3>1 DEF UnlockTable, Quiet
  <2>4. CASE ReadCounter(t)
    BY <2>4, ReadCalls
  <2>5. CASE SizeReturns(t)
    BY <1>1, <2>5 DEF SizeReturns, Quiet, table
  <2> QED  BY <1>7, <2>1, <2>2, <2>3, <2>4, <2>5 DEF Whole
<1>8. ASSUME NEW t \in Threads, Begin(t)
      PROVE  CallInv'
  BY <1>8, BeginCalls
<1>9. CASE UNCHANGED vars
  BY <1>9 DEF vars, table, local, CallInv, CallsTyped, Doing, Inserts, Summing
<1> QED  BY <1>3, <1>5, <1>6, <1>7, <1>8, <1>9 DEF Next, Step

LEMMA InitCalls == Init => CallInv
<1> SUFFICES ASSUME Init
             PROVE  CallInv
  OBVIOUS
<1>1. 0 \in 0 .. MaxNumLocks
  BY LockIndType
<1> QED  BY <1>1 DEF Init, CallInv, CallsTyped, Doing, Summing

-----------------------------------------------------------------------------
(* The table is a map: step by step.                                       *)

RefInv == Inv /\ Counted /\ CallInv

\* A key is in the map if it has a value there.
LEMMA MapValues ==
  ASSUME Inv, NEW k \in Keys
  PROVE  Map[k] # Absent <=> k \in KeysIn
<1>1. KeysOnce(Present) /\ Present \subseteq Element
  BY OnceInAll DEF Inv, Contents, Sound, Present
<1>2. CASE k \in KeysIn
  <2>1. PICK e \in Present : e.key = k
    BY <1>2, MapIs DEF KeysOf
  <2>2. Map[k] = e.val
    BY <1>1, <2>1, MeaningAt, MapIs
  <2>3. e.val \in Values
    BY <1>1, <2>1, ElementFields
  <2> QED  BY <1>2, <2>2, <2>3, CuckooTableAssumption
<1>3. CASE k \notin KeysIn
  BY <1>1, <1>3, MeaningAt, MapIs
<1> QED  BY <1>2, <1>3

LEMMA MapFunction ==
  /\ Map = [k \in Keys |-> Map[k]]
  /\ \A k \in Keys : Map[k] = Absent => [Map EXCEPT ![k] = Absent] = Map
<1>1. Map = [k \in Keys |-> Map[k]]
  BY MapIs DEF Meaning
<1> QED  BY <1>1

LEMMA MapSize ==
  ASSUME Inv, Counted
  PROVE  Promise!Size(Map) = Sum(counter, Locks)
<1>1. {k \in Keys : Map[k] # Absent} = KeysIn
  BY MapValues DEF Counted
<1>2. Promise!Size(Map) = Cardinality({k \in Keys : Map[k] # Absent})
  BY Zenon DEF Promise!Size, Promise!Cardinality, Cardinality
<1>3. Promise!Size(Map) = Cardinality(KeysIn)
  BY <1>1, <1>2, Zenon
<1> QED  BY <1>3 DEF Counted

\* A call that returns what the map would.
LEMMA AnswerReturns ==
  ASSUME CallInv, NEW t \in Threads, NEW r, Return(t, r), pc[t] # "idle",
         Promise!Answer(t, call[t], Map, r, Map'),
         \/ locker \in {Nobody, t}
         \/ call[t].kind = "size"
         \/ call[t].kind = "rehash" /\ r = <<"no">>,
         locker' = IF call[t].kind = "lock table" THEN t
                   ELSE IF call[t].kind = "unlock" THEN Nobody
                   ELSE locker
  PROVE  Promise!Return(t)
<1>1. last' = [last EXCEPT ![t] = r] /\ call' = [call EXCEPT ![t] = NoCall]
  BY DEF Return
<1>2. last'[t] = r /\ call[t] # NoCall
  BY <1>1 DEF CallInv, CallsTyped, Doing
<1> QED  BY <1>1, <1>2 DEF Promise!Return

\* One that does nothing but return.
LEMMA KeyAnswers ==
  ASSUME RefInv, NEW t \in Threads, pc[t] # "idle", locker \in {Nobody, t},
         locker' = locker, Missed(t) \/ Found(t) \/ Met(t) \/ Landed(t)
  PROVE  Promise!Return(t)
<1> DEFINE k == call[t].key
           v == call[t].val
           A(r) == Promise!Answer(t, call[t], Map, r, Map')
<1>1. Inv /\ CallInv
  BY DEF RefInv
<1>2. Key(t) = k
  BY DEF Key
<1>3. CASE Missed(t)
  <2>1. Map[k] = Absent /\ Map' = Map
    BY <1>1, <1>2, <1>3, MapValues DEF Missed, Keeps
  <2>2. A(<<"no">>)
    BY <1>3, <2>1 DEF Missed, Promise!Answer
  <2> QED  BY <1>1, <1>3, <2>2, AnswerReturns DEF Missed
<1>4. CASE Found(t)
  <2>1. Map[k] # Absent
    BY <1>1, <1>2, <1>4, MapValues DEF Found
  <2>2. CASE call[t].kind = "find" /\ Keeps /\ Return(t, <<"value", Map[k]>>)
    <3>1. A(<<"value", Map[k]>>)
      BY <2>1, <2>2 DEF Keeps, Promise!Answer
    <3> QED  BY <1>1, <2>2, <3>1, AnswerReturns
  <2>3. CASE call[t].kind = "update" /\ Sets(k, v) /\ Return(t, <<"yes">>)
    <3>1. A(<<"yes">>)
      BY <2>1, <2>3 DEF Sets, Promise!Answer
    <3> QED  BY <1>1, <2>3, <3>1, AnswerReturns
  <2>4. CASE call[t].kind = "erase" /\ Loses(k) /\ Return(t, <<"yes">>)
    <3>1. A(<<"yes">>)
      BY <2>1, <2>4 DEF Loses, Promise!Answer
    <3> QED  BY <1>1, <2>4, <3>1, AnswerReturns
  <2> QED  BY <1>2, <1>4, <2>2, <2>3, <2>4 DEF Found
<1>5. CASE Met(t)
  <2>1. Map[k] # Absent
    BY <1>1, <1>2, <1>5, MapValues DEF Met
  <2>2. CASE call[t].kind = "insert" /\ Keeps
    <3>1. A(<<"no">>)
      BY <2>1, <2>2 DEF Keeps, Promise!Answer
    <3> QED  BY <1>1, <1>5, <2>2, <3>1, AnswerReturns DEF Met
  <2>3. CASE call[t].kind = "assign" /\ Sets(k, v)
    <3>1. A(<<"no">>)
      BY <2>1, <2>3 DEF Sets, Promise!Answer
    <3> QED  BY <1>1, <1>5, <2>3, <3>1, AnswerReturns DEF Met
  <2>4. CASE call[t].kind = "uprase" /\ Loses(k)
    <3>1. A(<<"no">>)
      BY <2>1, <2>4 DEF Loses, Promise!Answer
    <3> QED  BY <1>1, <1>5, <2>4, <3>1, AnswerReturns DEF Met
  <2> QED  BY <1>2, <1>5, <2>2, <2>3, <2>4 DEF Met
<1>6. CASE Landed(t)
  <2>1. k \in Keys /\ Map[k] = Absent
    BY <1>1, <1>2, <1>6, MapValues DEF Landed
  <2>2. CASE call[t].kind \in {"insert", "assign"} /\ Gains(k, v)
    <3>1. A(<<"yes">>)
      BY <2>1, <2>2 DEF Gains, Promise!Answer
    <3> QED  BY <1>1, <1>6, <2>2, <3>1, AnswerReturns DEF Landed
  <2>3. CASE call[t].kind = "uprase" /\ Keeps
    <3>1. Map' = [Map EXCEPT ![k] = Absent]
      BY <2>1, <2>3, MapFunction DEF Keeps
    <3>2. A(<<"yes">>)
      BY <2>1, <2>3, <3>1 DEF Promise!Answer
    <3> QED  BY <1>1, <1>6, <2>3, <3>2, AnswerReturns DEF Landed
  <2> QED  BY <1>2, <1>6, <2>2, <2>3 DEF Landed
<1> QED  BY <1>3, <1>4, <1>5, <1>6

\* One that leaves the map alone.
LEMMA KeepsAnswers ==
  ASSUME RefInv, NEW t \in Threads, NEW r, Return(t, r), pc[t] # "idle", Map' = Map,
         \/ /\ call[t].kind = "rehash" /\ locker \in {Nobody, t}
            /\ r \in {<<"yes">>, <<"threw">>} /\ locker' = locker
         \/ call[t].kind = "rehash" /\ r = <<"no">> /\ locker' = locker
         \/ /\ call[t].kind \in {"insert", "assign", "uprase"} /\ locker \in {Nobody, t}
            /\ r = <<"threw">> /\ locker' = locker
         \/ call[t].kind = "lock table" /\ locker = Nobody /\ r = <<"yes">> /\ locker' = t
         \/ call[t].kind = "unlock" /\ locker = t /\ r = <<"yes">> /\ locker' = Nobody
  PROVE  Promise!Return(t)
<1>1. Promise!Answer(t, call[t], Map, r, Map')
  BY DEF Promise!Answer
<1> QED  BY <1>1, AnswerReturns DEF RefInv

\* A step that no one sees.
LEMMA KeepsUnseen ==
  ASSUME Map' = Map, UNCHANGED <<call, last, locker>>
  PROVE  UNCHANGED Promise!vars
BY DEF Promise!vars

LEMMA InitPromise == Init => Promise!Init
<1> SUFFICES ASSUME Init
             PROVE  Promise!Init
  OBVIOUS
<1>1. Map = [k \in Keys |-> Absent]
  BY DEF Init, Map, KeysIn
<1> QED  BY <1>1 DEF Init, Promise!Init

LEMMA NextPromise ==
  ASSUME RefInv, MovesThrow = FALSE, [Next]_vars
  PROVE  [Promise!Next]_(Promise!vars)
<1> DEFINE Unseen == UNCHANGED Promise!vars
<1>1. Inv /\ CallInv
  BY DEF RefInv
<1>2. ASSUME NEW t \in Threads
      PROVE  OnCall(t) /\ Doing(t) /\ Summing(t)
  BY <1>1 DEF Inv, ThreadInv, CallInv
<1>3. ASSUME NEW t \in Threads, NEW B, Enter(t, B)
      PROVE  locker \in {Nobody, t}
  BY <1>3 DEF Enter, MayEnter
<1>4. ASSUME Keeps, UNCHANGED <<call, last, locker>>
      PROVE  Unseen
  BY <1>4, KeepsUnseen DEF Keeps
<1>5. ASSUME UNCHANGED <<stored, old, counter>>
      PROVE  Map' = Map
  BY <1>5, UntouchedKeeps DEF Keeps
<1>6. ASSUME NEW t \in Threads, Access(t)
      PROVE  Promise!Return(t) \/ Unseen
  <2>1. CASE Snapshot(t) \/ HashpowerChanged(t)
    BY <1>5, <2>1, KeepsUnseen DEF Snapshot, HashpowerChanged, Stay, table, lazy
  <2>2. CASE Misses(t)
    <3>1. Missed(t)
      BY <1>1, <2>2, MissesDoes
    <3> QED  BY <1>3, <2>2, <3>1, KeyAnswers DEF Misses
  <2>3. CASE Finds(t)
    <3>1. Found(t)
      BY <1>1, <2>3, FindsDoes
    <3> QED  BY <1>3, <2>3, <3>1, KeyAnswers DEF Finds
  <2> QED  BY <1>6, <2>1, <2>2, <2>3 DEF Access
<1>7. ASSUME NEW t \in Threads, Insert(t)
      PROVE  Promise!Return(t) \/ Unseen
  <2>1. CASE InsertMeets(t)
    <3>1. Met(t)
      BY <1>1, <2>1, InsertMeetsDoes
    <3> QED  BY <1>3, <2>1, <3>1, KeyAnswers DEF InsertMeets
  <2>2. CASE InsertAdds(t)
    <3>1. Landed(t)
      BY <1>1, <2>2, InsertAddsDoes
    <3> QED  BY <1>3, <2>2, <3>1, KeyAnswers DEF InsertAdds
  <2>3. CASE \/ InsertSearches(t) \/ SearchFinds(t) \/ SearchGoesOn(t) \/ Trace(t)
             \/ MoveFails(t)
    <3>1. Keeps
      BY <1>1, <2>3, SearchKeeps
    <3>2. UNCHANGED <<call, last, locker>>
      BY <2>3 DEF InsertSearches, SearchFinds, SearchGoesOn, Trace, MoveFails, Stay
    <3> QED  BY <1>4, <3>1, <3>2
  <2>4. CASE MoveNone(t)
    <3>1. Met(t) \/ Landed(t) \/ (Keeps /\ UNCHANGED <<call, last>>)
      BY <1>1, <2>4, MoveNoneDoes
    <3>2. locker' = locker /\ pc[t] # "idle" /\ locker \in {Nobody, t}
      BY <1>3, <2>4 DEF MoveNone, Stay
    <3> QED  BY <1>4, <3>1, <3>2, KeyAnswers
  <2>5. CASE MoveOne(t)
    <3>1. Met(t) \/ Landed(t) \/ (Keeps /\ UNCHANGED <<call, last>>)
      BY <1>1, <2>5, MoveOneDoes
    <3>2. locker' = locker /\ pc[t] # "idle" /\ locker \in {Nobody, t}
      BY <1>3, <2>5 DEF MoveOne, Stay
    <3> QED  BY <1>4, <3>1, <3>2, KeyAnswers
  <2>6. ~MoveThrows(t)
    BY DEF MoveThrows
  <2> QED  BY <1>7, <2>1, <2>2, <2>3, <2>4, <2>5, <2>6 DEF Insert
<1>8. ASSUME NEW t \in Threads, Resize(t)
      PROVE  Promise!Return(t) \/ Unseen
  <2>0. /\ pc[t] = "full" => call[t].kind \in {"insert", "assign", "uprase"}
        /\ pc[t] \in {"resize", "expand"} => call[t].kind = "rehash"
    BY <1>2 DEF Doing, OnCall, Inserts
  <2>1. CASE Doubles(t)
    BY <1>1, <1>4, <2>1, DoublesKeeps DEF Doubles, Stay
  <2>2. CASE Overtaken(t) \/ Rehashes(t)
    BY <1>5, <2>2, KeepsUnseen DEF Overtaken, Rehashes, Stay, table, lazy
  <2>3. CASE Refused(t)
    <3>1. Map' = Map /\ locker' = locker /\ locker \in {Nobody, t}
      BY <1>5, <2>3 DEF Refused, MayEnter, table, lazy
    <3>2. pc[t] \in {"full", "expand"} /\ Return(t, <<"threw">>)
      BY <2>3 DEF Refused, Expanding
    <3> QED  BY <2>0, <3>1, <3>2, KeepsAnswers
  <2>4. CASE ExpandsSimple(t)
    <3>1. Map' = Map /\ Keeps
      BY <1>1, <2>4, ExpandsSimpleKeeps DEF Keeps
    <3>2. CASE pc[t] = "full"
      BY <1>4, <2>4, <3>1, <3>2 DEF ExpandsSimple
    <3>3. CASE pc[t] = "expand"
      <4>1. locker' = locker /\ locker \in {Nobody, t} /\ Return(t, <<"yes">>)
        BY <2>4, <3>3 DEF ExpandsSimple, MayEnter
      <4> QED  BY <2>0, <3>1, <3>3, <4>1, KeepsAnswers
    <3> QED  BY <2>4, <3>2, <3>3 DEF ExpandsSimple, Expanding
  <2>5. CASE NoRehash(t)
    <3>1. Map' = Map /\ locker' = locker
      BY <1>5, <2>5 DEF NoRehash, table, lazy
    <3> QED  BY <2>0, <2>5, <3>1, KeepsAnswers DEF NoRehash
  <2>6. ~FillFails(t)
    BY DEF FillFails
  <2> QED  BY <1>8, <2>1, <2>2, <2>3, <2>4, <2>5, <2>6 DEF Resize
<1>9. ASSUME NEW t \in Threads, Whole(t)
      PROVE  Promise!Return(t) \/ Unseen
  <2>0. Doing(t) /\ Summing(t)
    BY <1>2
  <2>1. CASE Clear(t)
    <3>1. Map' = [k \in Keys |-> Absent]
      BY <1>1, <2>1, ClearEmpties DEF Empties
    <3>2. /\ call[t].kind = "clear" /\ pc[t] # "idle" /\ Return(t, <<"yes">>)
          /\ locker' = locker /\ locker \in {Nobody, t}
      BY <2>0, <2>1 DEF Clear, Doing, MayEnter
    <3>3. Promise!Answer(t, call[t], Map, <<"yes">>, Map')
      BY <3>1, <3>2 DEF Promise!Answer
    <3> QED  BY <1>1, <3>2, <3>3, AnswerReturns
  <2>2. CASE LockTable(t)
    <3>1. Map' = Map
      BY <1>1, <2>2, LockTableKeeps DEF Keeps
    <3>2. /\ pc[t] = "lock table" /\ Return(t, <<"yes">>)
          /\ locker' = t /\ locker = Nobody
      BY <2>2 DEF LockTable
    <3>3. call[t].kind = "lock table" /\ pc[t] # "idle"
      BY <2>0, <3>2 DEF Doing
    <3> QED  BY <3>1, <3>2, <3>3, KeepsAnswers
  <2>3. CASE UnlockTable(t)
    <3>1. Map' = Map
      BY <1>5, <2>3 DEF UnlockTable, table, lazy
    <3>2. /\ call[t].kind = "unlock" /\ pc[t] # "idle" /\ Return(t, <<"yes">>)
          /\ locker' = Nobody /\ locker = t
      BY <2>0, <2>3 DEF UnlockTable, Doing
    <3> QED  BY <3>1, <3>2, KeepsAnswers
  <2>4. CASE ReadCounter(t)
    BY <1>5, <2>4, KeepsUnseen DEF ReadCounter, table, lazy
  <2>5. CASE SizeReturns(t)
    <3> DEFINE n == sum[t].total
    <3>1. Map' = Map /\ locker' = locker
      BY <1>5, <2>5 DEF SizeReturns, table, lazy
    <3>2. /\ call[t].kind = "size" /\ pc[t] # "idle" /\ Return(t, <<"size", n>>)
          /\ sum[t].next = MaxNumLocks
      BY <2>0, <2>5 DEF SizeReturns, Doing
    <3>3. locker = t => n = Promise!Size(Map)
      BY <1>1, <2>0, <2>5, MapSize DEF SizeReturns, Summing, Locks, RefInv
    <3> HIDE DEF n
    <3>4. Promise!Answer(t, call[t], Map, <<"size", n>>, Map')
      BY <3>1, <3>2, <3>3 DEF Promise!Answer
    <3> QED  BY <1>1, <3>1, <3>2, <3>4, AnswerReturns
  <2> QED  BY <1>9, <2>1, <2>2, <2>3, <2>4, <2>5 DEF Whole
<1>10. ASSUME NEW t \in Threads, Begin(t)
       PROVE  Promise!Call(t)
  <2>1. call[t] = NoCall /\ Map' = Map /\ UNCHANGED <<last, locker>>
    BY <1>2, <1>5, <1>10 DEF Begin, Doing, table, lazy
  <2>2. \E c \in Calls : call' = [call EXCEPT ![t] = c]
    BY <1>10 DEF Begin
  <2> QED  BY <2>1, <2>2 DEF Promise!Call
<1>11. CASE UNCHANGED vars
  BY <1>5, <1>11, KeepsUnseen DEF vars, table, lazy
<1> QED
  BY <1>6, <1>7, <1>8, <1>9, <1>10, <1>11 DEF Next, Step, Promise!Next

-----------------------------------------------------------------------------
(* The theorems.                                                           *)

\* The map as it is constructed.
LEMMA InitInv == Init => Inv
<1> SUFFICES ASSUME Init
             PROVE  Inv
  OBVIOUS
<1>1. ThreadsTyped
  <2>1. 0 \in 0 .. MaxHp
    BY CuckooTableAssumption
  <2> QED  BY <2>1 DEF Init, ThreadsTyped, PCs
<1>2. RestTyped
  BY CuckooTableAssumption DEF Init, RestTyped
<1>3. Contents
  <2>1. hp \in 0 .. MaxHp /\ oldHp \in 0 .. MaxHp
    BY CuckooTableAssumption DEF Init
  <2>2. Filled({}, hp)
    BY DEF Filled, OneInASlot, KeysOnce, Housed
  <2> QED  BY <2>1, <2>2, Settled, FS_EmptySet DEF Init, Contents
<1>4. ThreadInv
  <2> SUFFICES ASSUME NEW t \in Threads
               PROVE  OnCall(t) /\ OnSearch(t) /\ OnPath(t)
    BY DEF ThreadInv
  <2>1. pc[t] = "idle" /\ path[t] = << >>
    BY DEF Init
  <2> QED  BY <2>1, CuckooTableAssumption DEF OnCall, OnSearch, OnPath, KeyPCs
<1> QED  BY <1>1, <1>2, <1>3, <1>4 DEF Inv

\* The invariant holds in every state of the map.
THEOREM Invariance == Spec => []Inv
<1>1. Inv /\ [Next]_vars => Inv'
  BY NextContents, NextThreads, NextRest DEF Inv
<1> QED  BY InitInv, <1>1, PTL DEF Spec

\* Every variable has its type: hashpowers never exceed their maximum, slots
\* and buckets are there, paths are never longer than MAX_BFS_PATH_LEN.
THEOREM TableTypeCorrect == Spec => []TypeOK
<1>1. Inv => TypeOK
  <2> SUFFICES ASSUME Inv
               PROVE  TypeOK
    OBVIOUS
  <2>1. /\ hp \in 0 .. MaxHp /\ oldHp \in 0 .. MaxHp
        /\ stored \subseteq Element /\ old \subseteq Element
        /\ unmigrated \subseteq Locks
    BY DEF Inv, Contents, Sound, Filled
  <2>2. remaining \in 0 .. MaxNumLocks
    <3>1. MaxNumLocks \in Nat \ {0}
      BY LockIndType
    <3>2. 0 \in Int /\ MaxNumLocks - 1 \in Int
      BY <3>1
    <3>3. /\ IsFiniteSet(Locks)
          /\ Cardinality(Locks) = IF 0 > MaxNumLocks - 1 THEN 0 ELSE (MaxNumLocks - 1) - 0 + 1
      BY <3>2, FS_Interval DEF Locks
    <3>4. Cardinality(unmigrated) <= Cardinality(Locks) /\ IsFiniteSet(unmigrated)
      BY <2>1, <3>3, FS_Subset
    <3>5. Cardinality(unmigrated) \in Nat
      BY <3>4, FS_CardinalityType
    <3> QED  BY <3>1, <3>3, <3>4, <3>5 DEF Inv, Contents
  <2>3. \A t \in Threads : path[t] \in Seq(Steps) /\ Len(path[t]) <= MaxPathLen
    BY DEF Inv, ThreadsTyped, ThreadInv, OnSearch
  <2> QED  BY <2>1, <2>2, <2>3 DEF TypeOK, Inv, ThreadsTyped, RestTyped
<1> QED  BY Invariance, <1>1, PTL

\* setKV never meets an occupied slot: no two elements are in one slot, in the
\* buckets or the old buckets.
THEOREM OneElementPerSlot == Spec => []SlotsHoldOne
<1>1. Inv => SlotsHoldOne
  BY DEF Inv, Contents, Sound, Filled, OneInASlot, SlotsHoldOne
<1> QED  BY Invariance, <1>1, PTL

\* No key is in the map twice, whatever moves while it is inserted.
THEOREM KeysAreUnique == Spec => []NoKeyTwice
<1>1. Inv => NoKeyTwice
  BY DEF Inv, Contents, Sound, Filled, KeysOnce, NoKeyTwice
<1> QED  BY Invariance, <1>1, PTL

\* A search for a key looks where the key's element is.
THEOREM ElementsAreFound == Spec => []InHomeBucket
<1>1. Inv => InHomeBucket
  BY DEF Inv, Contents, Sound, Filled, Housed, InHomeBucket
<1> QED  BY Invariance, <1>1, PTL

\* Old buckets are freed when their last lock is migrated, and not before.
THEOREM MigrationIsSound == Spec => []MigrationSound
<1>1. Inv => MigrationSound
  BY DEF Inv, Contents, Sound, MigrationSound
<1> QED  BY Invariance, <1>1, PTL

\* With elements whose constructors and rebuilds do not throw, the counters of
\* the locks add up to the number of elements, moved or waiting.
THEOREM CountersAreRight == MovesThrow = FALSE => (Spec => []CountersAddUp)
<1> SUFFICES ASSUME MovesThrow = FALSE
             PROVE  Spec => []CountersAddUp
  OBVIOUS
<1>1. Inv /\ Counted /\ [Next]_vars => Counted'
  BY NextCounted
<1>2. Inv /\ Counted => CountersAddUp
  BY CountedAddsUp
<1> QED  BY Invariance, InitCounted, <1>1, <1>2, PTL DEF Spec

\* The map its users see is a plain one on which every call takes effect at
\* once, with the value, the yes or no, or the size that it returns: inserts
\* along paths, lazy migrations and expansions are steps no one sees.
THEOREM TableIsAConcurrentMap == MovesThrow = FALSE => (Spec => ImplementsConcurrentMap)
<1> SUFFICES ASSUME MovesThrow = FALSE
             PROVE  Spec => ImplementsConcurrentMap
  OBVIOUS
<1>1. Inv /\ Counted /\ [Next]_vars => Counted'
  BY NextCounted
<1>2. Inv /\ CallInv /\ [Next]_vars => CallInv'
  BY NextCalls
<1>3. Inv /\ Counted /\ CallInv /\ [Next]_vars => [Promise!Next]_(Promise!vars)
  BY NextPromise DEF RefInv
<1> QED
  BY Invariance, InitCounted, InitCalls, InitPromise, <1>1, <1>2, <1>3, PTL
     DEF Spec, ImplementsConcurrentMap, Promise!Spec
=============================================================================
