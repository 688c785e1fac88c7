------------------------ MODULE CuckooTableContents -------------------------
(***************************************************************************)
(* What the contents of the buckets have to be like, and that each thing   *)
(* an operation may do to them leaves them so: elements that move to a     *)
(* doubled table at once or lock by lock, are added, changed, removed,     *)
(* moved along a path or inserted into a new table.  All of it is about    *)
(* sets of elements; which thread does it when is for CuckooTableProofs.   *)
(***************************************************************************)
EXTENDS CuckooTable, FiniteSetTheorems, TLAPS

-----------------------------------------------------------------------------
(* Remainders.                                                             *)

\* Division with remainder ...
LEMMA DivMod ==
  ASSUME NEW a \in Nat, NEW n \in Nat \ {0}
  PROVE  /\ a % n \in 0 .. n - 1
         /\ a \div n \in Nat
         /\ a = n * (a \div n) + (a % n)
  OBVIOUS

\* ... is unique.
LEMMA ModUnique ==
  ASSUME NEW a \in Nat, NEW n \in Nat \ {0},
         NEW q \in Nat, NEW r \in 0 .. n - 1, a = n * q + r
  PROVE  a % n = r
  OBVIOUS

\* One bit more: the remainder stays or grows by the modulus.
LEMMA ModOfDouble ==
  ASSUME NEW a \in Nat, NEW n \in Nat \ {0}
  PROVE  a % (2 * n) \in {a % n, (a % n) + n}
<1> DEFINE r == a % (2 * n)
           q == a \div (2 * n)
<1>1. r \in 0 .. 2 * n - 1 /\ q \in Nat /\ a = (2 * n) * q + r
  BY DivMod, 2 * n \in Nat \ {0}
<1> HIDE DEF r, q
<1>2. CASE r < n
  <2>1. a = n * (2 * q) + r
    BY <1>1
  <2>2. a % n = r
    BY <1>1, <1>2, <2>1, ModUnique, 2 * q \in Nat
  <2> QED  BY <2>2 DEF r
<1>3. CASE r >= n
  <2> DEFINE s == r - n
  <2>1. s \in 0 .. n - 1 /\ r = s + n
    BY <1>1, <1>3
  <2> HIDE DEF s
  <2>2. a = n * (2 * q + 1) + s
    BY <1>1, <2>1
  <2>3. a % n = s
    BY <1>1, <2>1, <2>2, ModUnique, 2 * q + 1 \in Nat
  <2> QED  BY <2>1, <2>3 DEF r
<1> QED  BY <1>1, <1>2, <1>3

\* Multiples of the modulus do not matter.
LEMMA ModOfSum ==
  ASSUME NEW b \in Nat, NEW n \in Nat \ {0}, NEW k \in Nat
  PROVE  (b + n * k) % n = b % n
<1> DEFINE r == b % n
           q == b \div n
<1>1. r \in 0 .. n - 1 /\ q \in Nat /\ b = n * q + r
  BY DivMod
<1> HIDE DEF r, q
<1>2. b + n * k = n * (q + k) + r
  BY <1>1
<1>3. b + n * k \in Nat /\ q + k \in Nat
  BY <1>1
<1>4. (b + n * k) % n = r
  BY <1>1, <1>2, <1>3, ModUnique
<1> QED  BY <1>4 DEF r

-----------------------------------------------------------------------------
(* Buckets and locks.                                                      *)

\* Sizes are positive and double.
LEMMA Sizes ==
  ASSUME NEW h \in 0 .. MaxHp
  PROVE  /\ HashSize(h) \in Nat \ {0}
         /\ HashSize(h + 1) = 2 * HashSize(h)
  BY HashSizeAssumption

\* A table with as many buckets as locks, or more, has a multiple of them.
LEMMA MultipleOfLocks ==
  ASSUME NEW h \in 0 .. MaxHp, HashSize(h) >= MaxNumLocks
  PROVE  \E k \in Nat : HashSize(h) = MaxNumLocks * k
<1>1. PICK l \in 0 .. InitHp : MaxNumLocks = HashSize(l)
  BY CuckooTableAssumption
<1>2. l \in 0 .. MaxHp
  BY CuckooTableAssumption
<1>3. CASE l <= h
  <2>1. HashSize(h) = HashSize(l) * HashSize(h - l)
    BY <1>2, <1>3, HashSizeAssumption
  <2>2. h - l \in 0 .. MaxHp
    BY <1>2, <1>3, CuckooTableAssumption
  <2>3. HashSize(h - l) \in Nat
    BY <2>2, Sizes
  <2>4. HashSize(h) = MaxNumLocks * HashSize(h - l)
    BY <1>1, <2>1, Zenon
  <2> QED  BY <2>3, <2>4, Zenon
<1>4. CASE l > h
  <2>1. HashSize(l) = HashSize(h) * HashSize(l - h)
    BY <1>2, <1>4, HashSizeAssumption
  <2>2. l - h \in 0 .. MaxHp /\ h \in 0 .. MaxHp
    BY <1>2, <1>4, CuckooTableAssumption
  <2>3. HashSize(l - h) \in Nat \ {0} /\ HashSize(h) \in Nat \ {0}
    BY <2>2, Sizes
  <2>4. \A m, n \in Nat \ {0} : m >= m * n => m * n = m
    OBVIOUS
  <2>5. HashSize(h) >= HashSize(h) * HashSize(l - h)
    BY <1>1, <2>1, Zenon
  <2>6. HashSize(h) = HashSize(l)
    BY <2>1, <2>3, <2>4, <2>5, Zenon
  <2>7. HashSize(h) = MaxNumLocks * 1
    BY <1>1, <2>3, <2>6
  <2> QED  BY <2>7
<1> QED  BY <1>2, <1>3, <1>4

\* kMaxNumLocks is positive, and a lock index is below it.
LEMMA LockIndType ==
  /\ MaxNumLocks \in Nat \ {0}
  /\ \A b \in Nat : LockInd(b) \in Locks
<1>1. PICK l \in 0 .. InitHp : MaxNumLocks = HashSize(l)
  BY CuckooTableAssumption
<1>2. l \in 0 .. MaxHp
  BY CuckooTableAssumption
<1>3. MaxNumLocks \in Nat \ {0}
  BY <1>1, <1>2, Sizes
<1> QED  BY <1>3 DEF LockInd, Locks

\* The two buckets a bucket's elements may move to have its lock.
LEMMA LockOfUpper ==
  ASSUME NEW h \in 0 .. MaxHp, HashSize(h) >= MaxNumLocks, NEW b \in Nat
  PROVE  LockInd(b + HashSize(h)) = LockInd(b)
<1>1. PICK k \in Nat : HashSize(h) = MaxNumLocks * k
  BY MultipleOfLocks
<1>2. (b + MaxNumLocks * k) % MaxNumLocks = b % MaxNumLocks
  BY ModOfSum, LockIndType
<1> QED  BY <1>1, <1>2, Zenon DEF LockInd

\* Home buckets exist.
LEMMA HomeType ==
  ASSUME NEW k \in Keys \union {Husk}, NEW h \in 0 .. MaxHp
  PROVE  /\ Hash1[k] \in Nat /\ Hash2[k] \in Nat
         /\ I1(k, h) \in Buckets(h)
         /\ I2(k, h) \in Buckets(h)
         /\ Home(k, h) \subseteq Buckets(h)
         /\ Buckets(h) \subseteq Nat
<1>1. Hash1[k] \in Nat /\ Hash2[k] \in Nat
  BY CuckooTableAssumption
<1>2. HashSize(h) \in Nat \ {0}
  BY Sizes
<1> QED  BY <1>1, <1>2 DEF I1, I2, Home, Buckets

\* The bucket that AltIndex gives is one.
LEMMA AltIndexType ==
  ASSUME NEW k \in Keys \union {Husk}, NEW h \in 0 .. MaxHp, NEW b \in Nat
  PROVE  AltIndex(k, h, b) \in Buckets(h) /\ AltIndex(k, h, b) \in Nat
<1>1. I1(k, h) \in Buckets(h) /\ I2(k, h) \in Buckets(h) /\ Buckets(h) \subseteq Nat
  BY HomeType DEF Home
<1>2. b % HashSize(h) \in Buckets(h)
  BY HashSizeAssumption, DivMod DEF Buckets
<1>3. \A i, j \in Buckets(h) : Xor(i, j, h) \in Buckets(h)
  BY HashSizeAssumption
<1> QED  BY <1>1, <1>2, <1>3 DEF AltIndex

\* When the table doubles, each of a key's buckets stays or goes up.
LEMMA HomeDoubles ==
  ASSUME NEW k \in Keys \union {Husk}, NEW h \in 0 .. MaxHp
  PROVE  /\ I1(k, h + 1) \in {I1(k, h), I1(k, h) + HashSize(h)}
         /\ I2(k, h + 1) \in {I2(k, h), I2(k, h) + HashSize(h)}
BY HomeType, Sizes, ModOfDouble DEF I1, I2

\* The locks of a key's buckets stay the same.
LEMMA HomeLocks ==
  ASSUME NEW k \in Keys \union {Husk}, NEW h \in 0 .. MaxHp,
         HashSize(h) >= MaxNumLocks
  PROVE  LockInds(Home(k, h + 1)) = LockInds(Home(k, h))
<1>1. I1(k, h) \in Nat /\ I2(k, h) \in Nat
  BY HomeType
<1>2. LockInd(I1(k, h + 1)) = LockInd(I1(k, h))
  BY <1>1, HomeDoubles, LockOfUpper
<1>3. LockInd(I2(k, h + 1)) = LockInd(I2(k, h))
  BY <1>1, HomeDoubles, LockOfUpper
<1> QED  BY <1>2, <1>3 DEF LockInds, Home

-----------------------------------------------------------------------------
(* Elements in their buckets.                                              *)

\* Elements in slots and buckets of a table of hashpower h: one in a slot, no
\* key twice, each key in one of its buckets.
OneInASlot(E) ==
  \A e, f \in E : (e.bucket = f.bucket /\ e.slot = f.slot) => e = f
KeysOnce(E)   == \A e, f \in E : (e.key = f.key /\ e.key \in Keys) => e = f
Housed(E, h)  == \A e \in E : /\ e.bucket \in Buckets(h)
                              /\ e.key \in Keys => e.bucket \in Home(e.key, h)
Filled(E, h)  == E \subseteq Element /\ OneInASlot(E) /\ KeysOnce(E) /\ Housed(E, h)

\* Elements S of a table of hashpower h and O that wait in the old buckets, of
\* hashpower g, while the locks U still have to be migrated: what waits has
\* one of these locks, what has arrived has none of them.
Sound(S, O, U, h, g) ==
  /\ h \in 0 .. MaxHp
  /\ g \in 0 .. MaxHp
  /\ Filled(S, h)
  /\ Filled(O, g)
  /\ \A e \in S, f \in O : e.key = f.key => e.key = Husk
  /\ \A e \in S : LockInd(e.bucket) \notin U
  /\ \A e \in O : LockInd(e.bucket) \in U
  /\ U \subseteq Locks
  /\ U # {} => h = g + 1 /\ HashSize(g) >= MaxNumLocks

\* The fields of an element.
LEMMA ElementFields ==
  ASSUME NEW e \in Element
  PROVE  /\ e.bucket \in Nat
         /\ e.slot \in Slots
         /\ e.slot \in Nat
         /\ e.key \in Keys \union {Husk}
         /\ e.tag \in Keys \union {Husk}
         /\ e.val \in Values
BY CuckooTableAssumption DEF Element, Slots

\* The elements that move_bucket moves up from e's bucket before e.
Ahead(e, E, h) == {f \in E : /\ f.bucket = e.bucket
                             /\ f.slot < e.slot
                             /\ GoesUp(f, h)}

\* There are no more of them than slots before e's.
LEMMA AheadBound ==
  ASSUME NEW E, NEW h, E \subseteq Element, OneInASlot(E), NEW e \in E
  PROVE  /\ IsFiniteSet(Ahead(e, E, h))
         /\ Cardinality(Ahead(e, E, h)) \in 0 .. e.slot
<1> DEFINE A == Ahead(e, E, h)
           T == 0 .. e.slot - 1
           p == [f \in A |-> f.slot]
<1>1. e.slot \in Nat
  BY ElementFields
<1>2. ASSUME NEW f \in A
      PROVE  f \in E /\ f.slot \in T /\ f.bucket = e.bucket
  BY <1>1, ElementFields DEF Ahead
<1>3. ASSUME NEW f \in A, NEW g \in A, p[f] = p[g]
      PROVE  f = g
  BY <1>2, <1>3 DEF OneInASlot
<1>4. p \in Injection(A, T)
  BY <1>2, <1>3 DEF Injection, IsInjective
<1>5. IsFiniteSet(T) /\ Cardinality(T) = e.slot
  <2>1. 0 \in Int /\ e.slot - 1 \in Int
    BY <1>1
  <2>2. /\ IsFiniteSet(T)
        /\ Cardinality(T) = IF 0 > e.slot - 1 THEN 0 ELSE (e.slot - 1) - 0 + 1
    BY <2>1, FS_Interval
  <2> QED  BY <1>1, <2>2
<1>6. IsFiniteSet(A) /\ Cardinality(A) <= e.slot
  BY <1>4, <1>5, FS_Injection
<1>7. Cardinality(A) \in Nat
  BY <1>6, FS_CardinalityType
<1> QED  BY <1>1, <1>6, <1>7

\* There are fewer of them for e than for one after e, if e moves up.
LEMMA AheadGrows ==
  ASSUME NEW E, NEW h, E \subseteq Element, OneInASlot(E), NEW e \in E, NEW f \in E,
         e.bucket = f.bucket, e.slot < f.slot, GoesUp(e, h)
  PROVE  Cardinality(Ahead(e, E, h)) < Cardinality(Ahead(f, E, h))
<1> DEFINE A == Ahead(e, E, h)
           B == Ahead(f, E, h)
<1>1. IsFiniteSet(B) /\ Cardinality(A) \in Nat /\ Cardinality(B) \in Nat
  BY AheadBound, ElementFields
<1>2. e \in B /\ e \notin A
  BY ElementFields DEF Ahead
<1>3. A \subseteq B
  BY ElementFields DEF Ahead
<1>4. Cardinality(A) <= Cardinality(B) /\ Cardinality(A) # Cardinality(B)
  BY <1>1, <1>2, <1>3, FS_Subset
<1> QED  BY <1>1, <1>4

\* move_bucket keeps keys and values and moves an element, at most, to the
\* upper one of the two buckets its bucket becomes.
LEMMA MovedOne ==
  ASSUME NEW E, NEW h \in 0 .. MaxHp, Filled(E, h), NEW e \in E
  PROVE  LET m == Moved(e, E, h) IN
         /\ m \in Element
         /\ m.key = e.key
         /\ m.val = e.val
         /\ IF GoesUp(e, h)
              THEN /\ m.bucket = e.bucket + HashSize(h)
                   /\ m.slot = Cardinality(Ahead(e, E, h))
              ELSE m = e
<1>1. e \in Element /\ HashSize(h) \in Nat \ {0}
  BY Sizes DEF Filled
<1>2. CASE GoesUp(e, h)
  <2>1. Moved(e, E, h) = [e EXCEPT !.bucket = @ + HashSize(h),
                                   !.slot   = Cardinality(Ahead(e, E, h))]
    BY <1>2 DEF Moved, Ahead
  <2>2. Cardinality(Ahead(e, E, h)) \in Slots
    BY <1>1, AheadBound, ElementFields, CuckooTableAssumption DEF Filled, Slots
  <2>3. e.bucket + HashSize(h) \in Nat
    BY <1>1, ElementFields
  <2> QED  BY <1>1, <1>2, <2>1, <2>2, <2>3 DEF Element
<1>3. CASE ~GoesUp(e, h)
  BY <1>1, <1>3 DEF Moved
<1> QED  BY <1>2, <1>3

\* No two elements get into one slot of the doubled table, whatever part of
\* them has moved.
LEMMA MovedApart ==
  ASSUME NEW E, NEW h \in 0 .. MaxHp, Filled(E, h), NEW e \in E, NEW f \in E,
         Moved(e, E, h).bucket = Moved(f, E, h).bucket,
         Moved(e, E, h).slot = Moved(f, E, h).slot
  PROVE  e = f
<1> DEFINE m(x) == Moved(x, E, h)
           N    == HashSize(h)
<1>1. N \in Nat \ {0}
  BY Sizes
<1>2. ASSUME NEW x \in E
      PROVE  /\ x \in Element
             /\ x.bucket \in 0 .. N - 1
             /\ x.slot \in Nat
  BY ElementFields DEF Filled, Housed, Buckets
<1>3. ASSUME NEW x \in E
      PROVE  IF GoesUp(x, h)
               THEN m(x).bucket = x.bucket + N /\ m(x).slot = Cardinality(Ahead(x, E, h))
               ELSE m(x) = x
  BY MovedOne
<1>4. ASSUME NEW x \in E, NEW y \in E, GoesUp(x, h), GoesUp(y, h),
             m(x).bucket = m(y).bucket, m(x).slot = m(y).slot
      PROVE  ~(x.slot < y.slot)
  <2>1. x.bucket = y.bucket
    BY <1>1, <1>2, <1>3, <1>4
  <2>2. Cardinality(Ahead(x, E, h)) = Cardinality(Ahead(y, E, h))
    BY <1>3, <1>4
  <2>3. SUFFICES ASSUME x.slot < y.slot  PROVE FALSE
    OBVIOUS
  <2>4. Cardinality(Ahead(x, E, h)) < Cardinality(Ahead(y, E, h))
    BY <1>4, <2>1, <2>3, AheadGrows DEF Filled
  <2>5. Cardinality(Ahead(y, E, h)) \in Nat
    BY <1>2, AheadBound DEF Filled
  <2> QED  BY <2>2, <2>4, <2>5
<1>5. CASE GoesUp(e, h) /\ GoesUp(f, h)
  <2>1. e.bucket = f.bucket
    BY <1>1, <1>2, <1>3, <1>5
  <2>2. e.slot = f.slot
    BY <1>2, <1>4, <1>5
  <2> QED  BY <2>1, <2>2 DEF Filled, OneInASlot
<1>6. CASE ~GoesUp(e, h) /\ ~GoesUp(f, h)
  <2>1. e.bucket = f.bucket /\ e.slot = f.slot
    BY <1>3, <1>6
  <2> QED  BY <2>1 DEF Filled, OneInASlot
<1>7. CASE GoesUp(e, h) /\ ~GoesUp(f, h)
  <2>1. e.bucket + N = f.bucket
    BY <1>3, <1>7
  <2> QED  BY <1>1, <1>2, <2>1
<1>8. CASE ~GoesUp(e, h) /\ GoesUp(f, h)
  <2>1. f.bucket + N = e.bucket
    BY <1>3, <1>8
  <2> QED  BY <1>1, <1>2, <2>1
<1> QED  BY <1>5, <1>6, <1>7, <1>8

\* An element that moves is in one of its buckets of the doubled table, and
\* no element that stays is in the wrong one.
LEMMA MovedHoused ==
  ASSUME NEW E, NEW h \in 0 .. MaxHp, h + 1 \in 0 .. MaxHp, Filled(E, h), NEW e \in E
  PROVE  LET m == Moved(e, E, h) IN
         /\ m.bucket \in Buckets(h + 1)
         /\ m.key \in Keys => m.bucket \in Home(m.key, h + 1)
<1> DEFINE m == Moved(e, E, h)
           N == HashSize(h)
<1>1. N \in Nat \ {0} /\ HashSize(h + 1) = 2 * N
  BY Sizes
<1>2. e \in Element /\ e.key \in Keys \union {Husk} /\ e.bucket \in 0 .. N - 1
  BY ElementFields DEF Filled, Housed, Buckets
<1>3. m.key = e.key /\ IF GoesUp(e, h) THEN m.bucket = e.bucket + N ELSE m = e
  BY MovedOne
<1>4. m.bucket \in Buckets(h + 1)
  BY <1>1, <1>2, <1>3 DEF Buckets
<1>5. ASSUME e.key \in Keys
      PROVE  m.bucket \in Home(e.key, h + 1)
  <2>1. CASE GoesUp(e, h)
    <3>1. I1(e.key, h + 1) = m.bucket \/ I2(e.key, h + 1) = m.bucket
      BY <1>3, <2>1 DEF GoesUp
    <3> QED  BY <3>1 DEF Home
  <2>2. CASE ~GoesUp(e, h)
    <3>1. e.bucket = I1(e.key, h) \/ e.bucket = I2(e.key, h)
      BY <1>5 DEF Filled, Housed, Home
    <3>2. I1(e.key, h + 1) = e.bucket \/ I2(e.key, h + 1) = e.bucket
      BY <1>2, <2>2, <3>1, HomeDoubles DEF GoesUp
    <3> QED  BY <1>3, <2>2, <3>2 DEF Home
  <2> QED  BY <2>1, <2>2
<1> QED  BY <1>3, <1>4, <1>5

\* An element moves to a bucket of the same lock, if there are as many
\* buckets as locks.
LEMMA MovedLock ==
  ASSUME NEW E, NEW h \in 0 .. MaxHp, HashSize(h) >= MaxNumLocks, Filled(E, h), NEW e \in E
  PROVE  LockInd(Moved(e, E, h).bucket) = LockInd(e.bucket)
<1>1. e.bucket \in Nat
  BY ElementFields DEF Filled
<1>2. LockInd(e.bucket + HashSize(h)) = LockInd(e.bucket)
  BY <1>1, LockOfUpper
<1>3. IF GoesUp(e, h) THEN Moved(e, E, h).bucket = e.bucket + HashSize(h)
                      ELSE Moved(e, E, h) = e
  BY MovedOne
<1> QED  BY <1>2, <1>3

-----------------------------------------------------------------------------
(* What operations do to the contents.                                     *)

\* Everything in a table of hashpower h moves to one of hashpower h + 1.
LEMMA AllMoved ==
  ASSUME NEW E, NEW h \in 0 .. MaxHp, h + 1 \in 0 .. MaxHp, Filled(E, h)
  PROVE  Filled({Moved(e, E, h) : e \in E}, h + 1)
<1> DEFINE F == {Moved(e, E, h) : e \in E}
<1>1. F \subseteq Element
  BY MovedOne
<1>2. OneInASlot(F)
  BY MovedApart DEF OneInASlot
<1>3. KeysOnce(F)
  <2> SUFFICES ASSUME NEW e \in E, NEW f \in E,
                      Moved(e, E, h).key = Moved(f, E, h).key,
                      Moved(e, E, h).key \in Keys
               PROVE  e = f
    BY DEF KeysOnce
  <2>1. e.key = f.key /\ e.key \in Keys
    BY MovedOne
  <2> QED  BY <2>1 DEF Filled, KeysOnce
<1>4. Housed(F, h + 1)
  BY MovedHoused DEF Housed
<1> QED  BY <1>1, <1>2, <1>3, <1>4 DEF Filled

\* What waits under the locks L arrives: rehash_lock of these locks.
LEMMA SomeArrive ==
  ASSUME NEW S, NEW O, NEW U, NEW h, NEW g, NEW L, NEW W,
         Sound(S, O, U, h, g),
         W = {e \in O : LockInd(e.bucket) \in L \intersect U}
  PROVE  Sound(S \union {Moved(e, O, g) : e \in W}, O \ W, U \ L, h, g)
<1> DEFINE A == {Moved(e, O, g) : e \in W}
<1>1. CASE W = {}
  <2>1. S \union A = S /\ O \ W = O
    BY <1>1
  <2>2. \A e \in O : LockInd(e.bucket) \in U \ L
    BY <1>1 DEF Sound
  <2> QED  BY <2>1, <2>2 DEF Sound
<1>2. CASE W # {}
  <2>1. /\ h = g + 1 /\ HashSize(g) >= MaxNumLocks
        /\ h \in 0 .. MaxHp /\ g \in 0 .. MaxHp /\ g + 1 \in 0 .. MaxHp
        /\ Filled(O, g) /\ Filled(S, h)
    BY <1>2 DEF Sound
  <2>2. ASSUME NEW e \in W
        PROVE  /\ e \in O
               /\ Moved(e, O, g) \in Element
               /\ Moved(e, O, g).key = e.key
               /\ LockInd(Moved(e, O, g).bucket) = LockInd(e.bucket)
               /\ LockInd(e.bucket) \in L \intersect U
    BY <2>1, MovedOne, MovedLock
  <2>3. \A a \in A : LockInd(a.bucket) \in L \intersect U
    BY <2>2
  <2>4. S \union A \subseteq Element
    BY <2>1, <2>2 DEF Filled
  <2>5. OneInASlot(S \union A)
    <3>1. ASSUME NEW a \in A, NEW b \in A, a.bucket = b.bucket, a.slot = b.slot
          PROVE  a = b
      BY <2>1, <2>2, <3>1, MovedApart
    <3>2. ASSUME NEW a \in S, NEW b \in A
          PROVE  a.bucket # b.bucket
      BY <2>3 DEF Sound
    <3> QED  BY <2>1, <3>1, <3>2 DEF OneInASlot, Filled
  <2>6. KeysOnce(S \union A)
    <3>1. ASSUME NEW a \in A, NEW b \in A, a.key = b.key, a.key \in Keys
          PROVE  a = b
      <4>1. PICK e \in W : a = Moved(e, O, g)
        OBVIOUS
      <4>2. PICK f \in W : b = Moved(f, O, g)
        OBVIOUS
      <4>3. e \in O /\ f \in O /\ e.key = f.key /\ e.key \in Keys
        BY <2>2, <3>1, <4>1, <4>2
      <4>4. e = f
        BY <2>1, <4>3 DEF Filled, KeysOnce
      <4> QED  BY <4>1, <4>2, <4>4
    <3>2. ASSUME NEW a \in S, NEW b \in A, a.key = b.key
          PROVE  a.key \notin Keys
      <4>1. PICK e \in W : b = Moved(e, O, g)
        OBVIOUS
      <4>2. e \in O /\ a.key = e.key
        BY <2>2, <3>2, <4>1
      <4> QED  BY <4>2, CuckooTableAssumption DEF Sound
    <3> QED  BY <2>1, <3>1, <3>2 DEF KeysOnce, Filled
  <2>7. Housed(S \union A, h)
    <3>1. ASSUME NEW a \in A
          PROVE  a.bucket \in Buckets(h) /\ (a.key \in Keys => a.bucket \in Home(a.key, h))
      BY <2>1, <2>2, MovedHoused
    <3> QED  BY <2>1, <3>1 DEF Housed, Filled
  <2>8. Filled(O \ W, g)
    BY <2>1 DEF Filled, OneInASlot, KeysOnce, Housed
  <2>9. \A e \in S \union A, f \in O \ W : e.key = f.key => e.key = Husk
    <3>1. ASSUME NEW e \in W, NEW f \in O \ W, e.key = f.key
          PROVE  e.key = Husk
      <4>1. e \in O /\ e # f /\ e.key \in Keys \union {Husk}
        BY <2>1, <2>2, ElementFields DEF Filled
      <4> QED  BY <2>1, <3>1, <4>1 DEF Filled, KeysOnce
    <3>2. ASSUME NEW a \in A, NEW f \in O \ W, a.key = f.key
          PROVE  a.key = Husk
      BY <2>2, <3>1, <3>2
    <3> QED  BY <3>2 DEF Sound
  <2>10. \A e \in O \ W : LockInd(e.bucket) \in U \ L
    BY DEF Sound
  <2>11. \A e \in S \union A : LockInd(e.bucket) \notin U \ L
    BY <2>3 DEF Sound
  <2>12. U \ L \subseteq Locks
    BY DEF Sound
  <2> QED
    BY <2>1, <2>4, <2>5, <2>6, <2>7, <2>8, <2>9, <2>10, <2>11, <2>12 DEF Sound, Filled
<1> QED  BY <1>1, <1>2

\* Elements are taken away.
LEMMA Removed ==
  ASSUME NEW S, NEW O, NEW U, NEW h, NEW g, NEW T \in SUBSET S, Sound(S, O, U, h, g)
  PROVE  Sound(T, O, U, h, g)
BY DEF Sound, Filled, OneInASlot, KeysOnce, Housed

\* An element of a key that is nowhere is put in a free slot of one of the
\* key's buckets, whose lock has been migrated.
LEMMA Added ==
  ASSUME NEW S, NEW O, NEW U, NEW h, NEW g, Sound(S, O, U, h, g),
         NEW e \in Element,
         \A f \in S : f.bucket = e.bucket => f.slot # e.slot,
         \A f \in S \union O : f.key = e.key => e.key = Husk,
         e.bucket \in Buckets(h),
         e.key \in Keys => e.bucket \in Home(e.key, h),
         LockInd(e.bucket) \notin U
  PROVE  Sound(S \union {e}, O, U, h, g)
<1>1. S \union {e} \subseteq Element
  BY DEF Sound, Filled
<1>2. OneInASlot(S \union {e})
  BY DEF Sound, Filled, OneInASlot
<1>3. KeysOnce(S \union {e})
  BY CuckooTableAssumption DEF Sound, Filled, KeysOnce
<1>4. Housed(S \union {e}, h)
  BY DEF Sound, Filled, Housed
<1>5. \A d \in S \union {e}, f \in O : d.key = f.key => d.key = Husk
  BY DEF Sound
<1> QED  BY <1>1, <1>2, <1>3, <1>4, <1>5 DEF Sound, Filled

\* The element e gives way to f, which has its key and is in its slot or in a
\* free one.
LEMMA Replaced ==
  ASSUME NEW S, NEW O, NEW U, NEW h, NEW g, Sound(S, O, U, h, g),
         NEW e \in S, NEW f \in Element, f.key = e.key,
         \A d \in S \ {e} : d.bucket = f.bucket => d.slot # f.slot,
         f.bucket \in Buckets(h),
         f.key \in Keys => f.bucket \in Home(f.key, h),
         LockInd(f.bucket) \notin U
  PROVE  Sound((S \ {e}) \union {f}, O, U, h, g)
<1>1. Sound(S \ {e}, O, U, h, g)
  BY Removed
<1>2. ASSUME NEW d \in (S \ {e}) \union O, d.key = f.key
      PROVE  f.key = Husk
  <2>1. e.key \in Keys \union {Husk}
    BY ElementFields DEF Sound, Filled
  <2> QED  BY <1>2, <2>1 DEF Sound, Filled, KeysOnce
<1> QED  BY <1>1, <1>2, Added

\* An element gets another value.
LEMMA Changed ==
  ASSUME NEW S, NEW O, NEW U, NEW h, NEW g, Sound(S, O, U, h, g),
         NEW e \in S, NEW v \in Values
  PROVE  Sound((S \ {e}) \union {[e EXCEPT !.val = v]}, O, U, h, g)
<1> DEFINE f == [e EXCEPT !.val = v]
<1>1. e \in Element
  BY DEF Sound, Filled
<1>2. f \in Element /\ f.key = e.key /\ f.bucket = e.bucket /\ f.slot = e.slot
  BY <1>1 DEF Element
<1>3. \A d \in S \ {e} : d.bucket = f.bucket => d.slot # f.slot
  BY <1>2 DEF Sound, Filled, OneInASlot
<1>4. /\ f.bucket \in Buckets(h)
      /\ f.key \in Keys => f.bucket \in Home(f.key, h)
      /\ LockInd(f.bucket) \notin U
  BY <1>2 DEF Sound, Filled, Housed
<1> QED  BY <1>2, <1>3, <1>4, Replaced

\* The key of an element is moved out of it.
LEMMA TurnedHusk ==
  ASSUME NEW S, NEW O, NEW U, NEW h, NEW g, Sound(S, O, U, h, g), NEW e \in S
  PROVE  Sound((S \ {e}) \union {[e EXCEPT !.key = Husk]}, O, U, h, g)
<1> DEFINE f == [e EXCEPT !.key = Husk]
<1>1. e \in Element
  BY DEF Sound, Filled
<1>2. f \in Element /\ f.key = Husk /\ f.bucket = e.bucket /\ f.slot = e.slot
  BY <1>1 DEF Element
<1>3. Sound(S \ {e}, O, U, h, g)
  BY Removed
<1>4. \A d \in S \ {e} : d.bucket = f.bucket => d.slot # f.slot
  BY <1>2 DEF Sound, Filled, OneInASlot
<1>5. f.bucket \in Buckets(h) /\ LockInd(f.bucket) \notin U
  BY <1>2 DEF Sound, Filled, Housed
<1>6. f.key \notin Keys
  BY <1>2, CuckooTableAssumption
<1> HIDE DEF f
<1>7. Sound((S \ {e}) \union {f}, O, U, h, g)
  BY <1>2, <1>3, <1>4, <1>5, <1>6, Added
<1> QED  BY <1>7 DEF f

\* A key that is in neither of its buckets is nowhere, if what waits under
\* their locks has arrived.
LEMMA NotHit ==
  ASSUME NEW S, NEW O, NEW U, NEW h, NEW g, Sound(S, O, U, h, g), NEW k \in Keys,
         LockInds(Home(k, h)) \intersect U = {},
         \A e \in S : ~(e.bucket \in Home(k, h) /\ e.key = k)
  PROVE  \A e \in S \union O : e.key # k
<1>1. \A e \in S : e.key # k
  BY DEF Sound, Filled, Housed
<1>2. ASSUME NEW e \in O, e.key = k
      PROVE  FALSE
  <2>1. LockInd(e.bucket) \in U /\ e.bucket \in Home(k, g)
    BY <1>2 DEF Sound, Filled, Housed
  <2>2. h = g + 1 /\ HashSize(g) >= MaxNumLocks /\ g \in 0 .. MaxHp
    BY <2>1 DEF Sound
  <2>3. LockInd(e.bucket) \in LockInds(Home(k, g))
    BY <2>1 DEF LockInds
  <2>4. LockInds(Home(k, h)) = LockInds(Home(k, g))
    BY <2>2, HomeLocks
  <2> QED  BY <2>1, <2>3, <2>4
<1> QED  BY <1>1, <1>2

\* One element of each of the keys K at a place of its own of a table of
\* hashpower n: what a new table may be filled with.
LEMMA Refilled ==
  ASSUME NEW E, NEW n \in 0 .. MaxHp, E \subseteq Element, NEW S \in Fillings(E, n)
  PROVE  /\ Filled(S, n)
         /\ \A e \in S : \E f \in E : f.key = e.key /\ f.val = e.val
         /\ \A f \in E : \E e \in S : f.key = e.key
<1> DEFINE K    == {e.key : e \in E}
           V(k) == (CHOOSE e \in E : e.key = k).val
           B(k, c) == IF c[1] = 1 THEN I1(k, n) ELSE I2(k, n)
           Apart(f) == \A j, k \in K :
                         j # k => B(j, f[j]) # B(k, f[k]) \/ f[j][2] # f[k][2]
           At(f, k) == [bucket |-> B(k, f[k]), slot |-> f[k][2],
                       key |-> k, tag |-> k, val |-> V(k)]
<1>1. PICK f \in [K -> {1, 2} \X Slots] : Apart(f) /\ S = {At(f, k) : k \in K}
  BY Zenon DEF Fillings
<1>2. ASSUME NEW k \in K
      PROVE  /\ k \in Keys \union {Husk}
             /\ V(k) \in Values
             /\ f[k][2] \in Slots
             /\ B(k, f[k]) \in Home(k, n)
             /\ B(k, f[k]) \in Buckets(n)
             /\ B(k, f[k]) \in Nat
             /\ \E e \in E : e.key = k /\ e.val = V(k)
  <2>1. PICK e \in E : e.key = k
    OBVIOUS
  <2>2. (CHOOSE x \in E : x.key = k) \in E /\ (CHOOSE x \in E : x.key = k).key = k
    BY <2>1
  <2>3. k \in Keys \union {Husk} /\ V(k) \in Values
    BY <2>1, <2>2, ElementFields
  <2>4. I1(k, n) \in Home(k, n) /\ I2(k, n) \in Home(k, n)
    BY DEF Home
  <2>5. Home(k, n) \subseteq Buckets(n) /\ Buckets(n) \subseteq Nat
    BY <2>3, HomeType
  <2>6. f[k][2] \in Slots
    OBVIOUS
  <2> QED  BY <2>2, <2>3, <2>4, <2>5, <2>6
<1> HIDE DEF V, B
<1>3. S \subseteq Element
  BY <1>1, <1>2 DEF Element
<1>4. OneInASlot(S)
  BY <1>1 DEF OneInASlot
<1>5. KeysOnce(S)
  BY <1>1 DEF KeysOnce
<1>6. Housed(S, n)
  BY <1>1, <1>2 DEF Housed
<1>7. \A e \in S : \E d \in E : d.key = e.key /\ d.val = e.val
  BY <1>1, <1>2
<1>8. ASSUME NEW d \in E
      PROVE  \E e \in S : d.key = e.key
  <2>1. d.key \in K
    OBVIOUS
  <2>2. At(f, d.key) \in S /\ At(f, d.key).key = d.key
    BY <1>1, <2>1
  <2> QED  BY <2>2
<1> QED  BY <1>3, <1>4, <1>5, <1>6, <1>7, <1>8 DEF Filled

\* With nothing left in old buckets and nothing to migrate.
LEMMA Settled ==
  ASSUME NEW S, NEW h \in 0 .. MaxHp, NEW g \in 0 .. MaxHp, Filled(S, h)
  PROVE  Sound(S, {}, {}, h, g)
BY DEF Sound, Filled, OneInASlot, KeysOnce, Housed

\* Everything waits to be moved to a table twice as big.
LEMMA AllWait ==
  ASSUME NEW E, NEW h \in 0 .. MaxHp, h + 1 \in 0 .. MaxHp, Filled(E, h),
         HashSize(h) >= MaxNumLocks
  PROVE  Sound({}, E, Locks, h + 1, h)
<1>1. \A e \in E : LockInd(e.bucket) \in Locks
  BY LockIndType, ElementFields DEF Filled
<1>2. Filled({}, h + 1)
  BY DEF Filled, OneInASlot, KeysOnce, Housed
<1> QED  BY <1>1, <1>2 DEF Sound

\* When all the locks have been migrated nothing waits.
LEMMA NothingWaits ==
  ASSUME NEW S, NEW O, NEW h, NEW g, Sound(S, O, {}, h, g)
  PROVE  O = {}
BY DEF Sound

\* The elements E when those in D have been moved out of their slots.
Emptied(E, D) == {IF e \in D THEN [e EXCEPT !.key = Husk] ELSE e : e \in E}

LEMMA MovedOut ==
  ASSUME NEW E, NEW h \in 0 .. MaxHp, Filled(E, h), NEW D
  PROVE  Filled(Emptied(E, D), h)
<1> DEFINE m(e) == IF e \in D THEN [e EXCEPT !.key = Husk] ELSE e
           F    == {m(e) : e \in E}
<1>1. ASSUME NEW e \in E
      PROVE  /\ e \in Element
             /\ m(e) \in Element
             /\ m(e).bucket = e.bucket
             /\ m(e).slot = e.slot
             /\ m(e).key \in Keys => m(e) = e
  <2>1. e \in Element
    BY DEF Filled
  <2> QED  BY <2>1, CuckooTableAssumption DEF Element
<1> HIDE DEF m
<1>2. F \subseteq Element
  BY <1>1
<1>3. OneInASlot(F)
  BY <1>1 DEF OneInASlot, Filled
<1>4. KeysOnce(F)
  <2> SUFFICES ASSUME NEW e \in E, NEW f \in E, m(e).key = m(f).key, m(e).key \in Keys
               PROVE  m(e) = m(f)
    BY DEF KeysOnce
  <2>1. m(e) = e /\ m(f) = f
    BY <1>1
  <2> QED  BY <2>1 DEF Filled, KeysOnce
<1>5. Housed(F, h)
  BY <1>1 DEF Housed, Filled
<1>6. Filled(F, h)
  BY <1>2, <1>3, <1>4, <1>5 DEF Filled
<1> QED  BY <1>6 DEF m, Emptied

-----------------------------------------------------------------------------
(* Sums of counters.                                                       *)

\* To have all subsets of a finite set in Q it is enough that Q has each
\* subset of which it has all smaller ones.
LEMMA SubsetsInduction ==
  ASSUME NEW S, IsFiniteSet(S), NEW Q,
         \A s \in SUBSET S : (\A r \in SUBSET s : r # s => r \in Q) => s \in Q
  PROVE  SUBSET S \subseteq Q
<1> DEFINE N == {s \in SUBSET S : s \notin Q}
<1> SUFFICES ASSUME N # {}
             PROVE  FALSE
  OBVIOUS
<1>1. N \subseteq FiniteSubsetsOf(S)
  BY FS_Subset DEF FiniteSubsetsOf
<1> HIDE DEF N
<1>2. PICK m \in N : \A n \in N : ~(<<n, m>> \in StrictSubsetOrdering(S))
  <2>1. IsWellFoundedOn(StrictSubsetOrdering(S), FiniteSubsetsOf(S))
    BY FS_StrictSubsetOrderingWellFounded
  <2> DEFINE R == StrictSubsetOrdering(S)
             F == FiniteSubsetsOf(S)
  <2>2. N \subseteq F /\ IsWellFoundedOn(R, F) /\ N # {}
    BY <1>1, <2>1
  <2> HIDE DEF R, F
  <2>3. \E m \in N : \A n \in N : ~(<<n, m>> \in R)
    BY <2>2, WFMin
  <2> QED  BY <2>3 DEF R
<1> USE DEF N
<1>3. ASSUME NEW r \in SUBSET m, r # m
      PROVE  r \in Q
  BY <1>2, <1>3 DEF StrictSubsetOrdering
<1> QED  BY <1>2, <1>3

Sum(f, S) == FoldFunctionOnSet(LAMBDA x, y : x + y, 0, f, S)
Pick(s)   == CHOOSE x \in s : TRUE

\* g gives the sums over the subsets of S, as the fold defines them.
Sums(g, f, S) ==
  g = [s \in SUBSET S |-> IF s = {} THEN 0 ELSE f[Pick(s)] + g[s \ {Pick(s)}]]

LEMMA PickType ==
  ASSUME NEW s, s # {}
  PROVE  Pick(s) \in s
BY DEF Pick

LEMMA SumsAt ==
  ASSUME NEW f, NEW S, NEW g, Sums(g, f, S)
  PROVE  \A s \in SUBSET S :
           g[s] = IF s = {} THEN 0 ELSE f[Pick(s)] + g[s \ {Pick(s)}]
BY Zenon DEF Sums

\* There is but one such function ...
LEMMA SumsAgree ==
  ASSUME NEW f, NEW S, IsFiniteSet(S), NEW T, NEW g, NEW h, Sums(g, f, S), Sums(h, f, T)
  PROVE  \A s \in SUBSET S : s \in SUBSET T => g[s] = h[s]
<1> DEFINE Q == {s \in SUBSET S : s \in SUBSET T => g[s] = h[s]}
<1>1. ASSUME NEW s \in SUBSET S, \A r \in SUBSET s : r # s => r \in Q
      PROVE  s \in Q
  <2> SUFFICES ASSUME s \in SUBSET T
               PROVE  g[s] = h[s]
    OBVIOUS
  <2>1. g[s] = IF s = {} THEN 0 ELSE f[Pick(s)] + g[s \ {Pick(s)}]
    BY SumsAt
  <2>2. h[s] = IF s = {} THEN 0 ELSE f[Pick(s)] + h[s \ {Pick(s)}]
    BY SumsAt
  <2>3. ASSUME s # {}
        PROVE  g[s \ {Pick(s)}] = h[s \ {Pick(s)}]
    <3>1. s \ {Pick(s)} \in SUBSET s /\ s \ {Pick(s)} # s
      BY <2>3, PickType
    <3> QED  BY <1>1, <3>1
  <2> QED  BY <2>1, <2>2, <2>3
<1> HIDE DEF Q
<1>2. SUBSET S \subseteq Q
  BY <1>1, SubsetsInduction
<1> QED  BY <1>2 DEF Q

\* ... and there is one.
LEMMA SumsExist ==
  ASSUME NEW f, NEW S, IsFiniteSet(S)
  PROVE  \E g : Sums(g, f, S)
<1> DEFINE Q == {s \in SUBSET S : \E g : Sums(g, f, s)}
<1>1. ASSUME NEW s \in SUBSET S, \A r \in SUBSET s : r # s => r \in Q
      PROVE  s \in Q
  <2> DEFINE of(r) == CHOOSE g : Sums(g, f, r)
             h == [r \in SUBSET s |->
                     IF r = {} THEN 0 ELSE f[Pick(r)] + of(r \ {Pick(r)})[r \ {Pick(r)}]]
  <2>1. ASSUME NEW r \in SUBSET s, r # s
        PROVE  Sums(of(r), f, r)
    BY <1>1, <2>1
  <2>2. ASSUME NEW r \in SUBSET s
        PROVE  h[r] = IF r = {} THEN 0 ELSE f[Pick(r)] + of(r \ {Pick(r)})[r \ {Pick(r)}]
    OBVIOUS
  <2> HIDE DEF h, of
  <2>3. ASSUME NEW r \in SUBSET s, r # s
        PROVE  h[r] = of(r)[r]
    <3> DEFINE q == r \ {Pick(r)}
    <3>1. CASE r = {}
      <4>1. of(r)[r] = 0
        BY <2>1, <2>3, <3>1, SumsAt
      <4> QED  BY <2>2, <3>1, <4>1
    <3>2. CASE r # {}
      <4>1. q \in SUBSET r /\ q \in SUBSET s /\ q # s
        BY <3>2, PickType
      <4>2. Sums(of(r), f, r) /\ Sums(of(q), f, q)
        BY <2>1, <2>3, <4>1
      <4>3. IsFiniteSet(q)
        BY <4>1, FS_Subset
      <4>4. of(q)[q] = of(r)[q]
        BY <4>1, <4>2, <4>3, SumsAgree
      <4>5. of(r)[r] = f[Pick(r)] + of(r)[q]
        BY <3>2, <4>2, SumsAt
      <4> QED  BY <2>2, <3>2, <4>4, <4>5
    <3> QED  BY <3>1, <3>2
  <2>4. ASSUME NEW r \in SUBSET s
        PROVE  h[r] = IF r = {} THEN 0 ELSE f[Pick(r)] + h[r \ {Pick(r)}]
    <3>1. CASE r = {}
      BY <2>2, <3>1
    <3>2. CASE r # {}
      <4>1. r \ {Pick(r)} \in SUBSET s /\ r \ {Pick(r)} # s
        BY <3>2, PickType
      <4> QED  BY <2>2, <2>3, <3>2, <4>1
    <3> QED  BY <3>1, <3>2
  <2>5. h = [r \in SUBSET s |-> h[r]]
    BY DEF h
  <2>6. h = [r \in SUBSET s |-> IF r = {} THEN 0 ELSE f[Pick(r)] + h[r \ {Pick(r)}]]
    BY <2>4, <2>5
  <2> QED  BY <2>6 DEF Sums
<1> HIDE DEF Q
<1>2. SUBSET S \subseteq Q
  BY <1>1, SubsetsInduction
<1> QED  BY <1>2 DEF Q

\* The fold is its value at S.
LEMMA SumOfSums ==
  ASSUME NEW f, NEW S, IsFiniteSet(S)
  PROVE  \E g : Sums(g, f, S) /\ Sum(f, S) = g[S]
<1> DEFINE it == CHOOSE g : Sums(g, f, S)
<1>1. Sums(it, f, S)
  BY SumsExist, Zenon
<1>2. Sum(f, S) = it[S]
  BY Zenon DEF Sum, FoldFunctionOnSet, MapThenFoldSet, Sums, Pick
<1> QED  BY <1>1, <1>2

\* The order does not matter.
LEMMA SumsInAnyOrder ==
  ASSUME NEW D, NEW f \in [D -> Int], NEW S \in SUBSET D, IsFiniteSet(S),
         NEW g, Sums(g, f, S)
  PROVE  \A s \in SUBSET S : /\ g[s] \in Int
                             /\ \A x \in s : g[s] = f[x] + g[s \ {x}]
<1> DEFINE Q == {s \in SUBSET S : /\ g[s] \in Int
                                  /\ \A x \in s : g[s] = f[x] + g[s \ {x}]}
<1>1. ASSUME NEW s \in SUBSET S, \A r \in SUBSET s : r # s => r \in Q
      PROVE  s \in Q
  <2>1. CASE s = {}
    <3>1. g[s] = 0
      BY <2>1, SumsAt
    <3> QED  BY <2>1, <3>1
  <2>2. CASE s # {}
    <3> DEFINE p == Pick(s)
    <3>1. p \in s
      BY <2>2, PickType
    <3>2. g[s] = f[p] + g[s \ {p}]
      BY <2>2, SumsAt
    <3> HIDE DEF p
    <3>3. s \ {p} \in Q
      BY <1>1, <3>1
    <3>4. g[s \ {p}] \in Int /\ f[p] \in Int
      BY <3>1, <3>3
    <3>5. ASSUME NEW x \in s
          PROVE  g[s] = f[x] + g[s \ {x}]
      <4>1. CASE x = p
        BY <3>2, <4>1
      <4>2. CASE x # p
        <5>1. s \ {x} \in Q /\ p \in s \ {x} /\ x \in s \ {p}
          BY <1>1, <3>1, <4>2
        <5> DEFINE u == s \ {p, x}
        <5>2. u = (s \ {p}) \ {x} /\ u = (s \ {x}) \ {p}
          OBVIOUS
        <5>3. u \in Q
          BY <1>1, <3>1
        <5>4. g[u] \in Int /\ f[x] \in Int
          BY <5>3
        <5> HIDE DEF u
        <5>5. g[s \ {p}] = f[x] + g[u]
          BY <3>3, <5>1, <5>2
        <5>6. g[s \ {x}] = f[p] + g[u]
          BY <5>1, <5>2
        <5> QED  BY <3>2, <3>4, <5>4, <5>5, <5>6
      <4> QED  BY <4>1, <4>2
    <3>6. g[s] \in Int
      BY <3>2, <3>4
    <3> QED  BY <3>5, <3>6
  <2> QED  BY <2>1, <2>2
<1> HIDE DEF Q
<1>2. SUBSET S \subseteq Q
  BY <1>1, SubsetsInduction
<1>3. ASSUME NEW s \in SUBSET S
      PROVE  s \in Q
  BY <1>2
<1> QED  BY <1>3 DEF Q

\* A sum with one more summand.
LEMMA SumAdd ==
  ASSUME NEW D, NEW f \in [D -> Int], NEW S \in SUBSET D, IsFiniteSet(S)
  PROVE  /\ Sum(f, S) \in Int
         /\ \A x \in S : Sum(f, S) = f[x] + Sum(f, S \ {x})
         /\ S = {} => Sum(f, S) = 0
<1>1. PICK g : Sums(g, f, S) /\ Sum(f, S) = g[S]
  BY SumOfSums
<1>2. \A s \in SUBSET S : g[s] \in Int /\ \A x \in s : g[s] = f[x] + g[s \ {x}]
  <2>1. /\ f \in [D -> Int] /\ S \in SUBSET D /\ IsFiniteSet(S)
        /\ Sums(g, f, S)
    BY <1>1
  <2> QED  BY <2>1, SumsInAnyOrder
<1>3. ASSUME NEW x \in S
      PROVE  Sum(f, S \ {x}) = g[S \ {x}]
  <2>1. IsFiniteSet(S \ {x})
    BY FS_Subset
  <2>2. PICK h : Sums(h, f, S \ {x}) /\ Sum(f, S \ {x}) = h[S \ {x}]
    BY <2>1, SumOfSums
  <2>3. h[S \ {x}] = g[S \ {x}]
    BY <1>1, <2>1, <2>2, SumsAgree
  <2> QED  BY <2>2, <2>3
<1>4. S = {} => g[S] = 0
  BY <1>1, SumsAt
<1> QED  BY <1>1, <1>2, <1>3, <1>4

\* Only the summands matter.
LEMMA SumSame ==
  ASSUME NEW D, NEW f \in [D -> Int], NEW g \in [D -> Int], NEW S \in SUBSET D,
         IsFiniteSet(S), \A x \in S : f[x] = g[x]
  PROVE  Sum(f, S) = Sum(g, S)
<1> DEFINE Q == {s \in SUBSET S : Sum(f, s) = Sum(g, s)}
<1>1. ASSUME NEW s \in SUBSET S, \A r \in SUBSET s : r # s => r \in Q
      PROVE  s \in Q
  <2>1. IsFiniteSet(s) /\ s \in SUBSET D
    BY FS_Subset
  <2>2. CASE s = {}
    BY <2>1, <2>2, SumAdd
  <2>3. CASE s # {}
    <3>1. PICK x \in s : TRUE
      BY <2>3
    <3>2. Sum(f, s \ {x}) = Sum(g, s \ {x})
      BY <1>1
    <3>3. Sum(f, s) = f[x] + Sum(f, s \ {x}) /\ Sum(g, s) = g[x] + Sum(g, s \ {x})
      BY <2>1, SumAdd
    <3> QED  BY <3>2, <3>3
  <2> QED  BY <2>2, <2>3
<1> HIDE DEF Q
<1>2. SUBSET S \subseteq Q
  BY <1>1, SubsetsInduction
<1> QED  BY <1>2 DEF Q

\* One summand changes by n.
LEMMA SumChange ==
  ASSUME NEW S, IsFiniteSet(S), NEW f \in [S -> Int], NEW x \in S, NEW n \in Int
  PROVE  Sum([f EXCEPT ![x] = @ + n], S) = Sum(f, S) + n
<1> DEFINE g == [f EXCEPT ![x] = @ + n]
<1>1. /\ g \in [S -> Int] /\ g[x] = f[x] + n
      /\ \A y \in S \ {x} : g[y] = f[y]
  OBVIOUS
<1> HIDE DEF g
<1>2. IsFiniteSet(S \ {x}) /\ S \ {x} \in SUBSET S /\ S \in SUBSET S
  BY FS_Subset
<1>3. Sum(g, S \ {x}) = Sum(f, S \ {x})
  BY <1>1, <1>2, SumSame
<1>4. Sum(f, S) = f[x] + Sum(f, S \ {x}) /\ Sum(g, S) = g[x] + Sum(g, S \ {x})
  BY <1>1, <1>2, SumAdd
<1>5. Sum(f, S \ {x}) \in Int /\ f[x] \in Int
  BY <1>2, SumAdd
<1>6. Sum(g, S) = Sum(f, S) + n
  BY <1>1, <1>3, <1>4, <1>5
<1> QED  BY <1>6 DEF g

\* Nothing but zeros.
LEMMA SumZero ==
  ASSUME NEW S, IsFiniteSet(S)
  PROVE  Sum([x \in S |-> 0], S) = 0
<1> DEFINE f == [x \in S |-> 0]
           Q == {s \in SUBSET S : Sum(f, s) = 0}
<1>0. f \in [S -> Int] /\ \A x \in S : f[x] = 0
  OBVIOUS
<1> HIDE DEF f
<1>1. ASSUME NEW s \in SUBSET S, \A r \in SUBSET s : r # s => r \in Q
      PROVE  s \in Q
  <2>1. IsFiniteSet(s)
    BY FS_Subset
  <2>2. CASE s = {}
    BY <1>0, <2>1, <2>2, SumAdd
  <2>3. CASE s # {}
    <3>1. PICK x \in s : TRUE
      BY <2>3
    <3>2. Sum(f, s \ {x}) = 0
      BY <1>1
    <3>3. Sum(f, s) = f[x] + Sum(f, s \ {x})
      BY <1>0, <2>1, SumAdd
    <3> QED  BY <1>0, <3>2, <3>3
  <2> QED  BY <2>2, <2>3
<1> HIDE DEF Q
<1>2. SUBSET S \subseteq Q
  BY <1>1, SubsetsInduction
<1> QED  BY <1>2 DEF Q, f

\* The counters add up to Total.
LEMMA TotalIsSum ==
  ASSUME counter \in [Locks -> Int]
  PROVE  Total = Sum(counter, Locks)
<1>1. Total = Sum(counter, DOMAIN counter)
  BY Zenon DEF Total, Sum, FoldFunction
<1> QED  BY <1>1

-----------------------------------------------------------------------------
(* What elements say of the keys.                                          *)

KeysOf(S) == {e.key : e \in S}

\* The map that the elements S stand for.
Meaning(S) ==
  [k \in Keys |-> IF k \in KeysOf(S) THEN (CHOOSE e \in S : e.key = k).val
                                     ELSE Absent]

\* What the map has for a key.
LEMMA MeaningAt ==
  ASSUME NEW S, KeysOnce(S)
  PROVE  /\ \A e \in S : e.key \in Keys => Meaning(S)[e.key] = e.val
         /\ \A k \in Keys : k \notin KeysOf(S) => Meaning(S)[k] = Absent
<1>1. ASSUME NEW e \in S, e.key \in Keys
      PROVE  Meaning(S)[e.key] = e.val
  <2> DEFINE c == CHOOSE f \in S : f.key = e.key
  <2>1. c \in S /\ c.key = e.key
    OBVIOUS
  <2>2. c = e
    BY <1>1, <2>1 DEF KeysOnce
  <2>3. e.key \in KeysOf(S)
    BY DEF KeysOf
  <2>4. Meaning(S)[e.key] = c.val
    BY <1>1, <2>3 DEF Meaning
  <2> HIDE DEF c
  <2> QED  BY <2>2, <2>4
<1>2. \A k \in Keys : k \notin KeysOf(S) => Meaning(S)[k] = Absent
  BY DEF Meaning
<1> QED  BY <1>1, <1>2

\* It is the only function that has this for each key.
LEMMA MeaningIs ==
  ASSUME NEW S, KeysOnce(S), NEW m, m = [k \in Keys |-> m[k]],
         \A e \in S : e.key \in Keys => m[e.key] = e.val,
         \A k \in Keys : k \notin KeysOf(S) => m[k] = Absent
  PROVE  Meaning(S) = m
<1>1. ASSUME NEW k \in Keys
      PROVE  Meaning(S)[k] = m[k]
  <2>1. CASE k \in KeysOf(S)
    BY <2>1, MeaningAt DEF KeysOf
  <2>2. CASE k \notin KeysOf(S)
    BY <2>2, MeaningAt
  <2> QED  BY <2>1, <2>2
<1>2. Meaning(S) = [k \in Keys |-> Meaning(S)[k]]
  BY DEF Meaning
<1> QED  BY <1>1, <1>2

\* Elements that have the same keys and values.
LEMMA MeaningKept ==
  ASSUME NEW S, NEW T, KeysOnce(S), KeysOnce(T),
         \A f \in T : \E e \in S : e.key = f.key /\ e.val = f.val,
         \A e \in S : \E f \in T : f.key = e.key
  PROVE  Meaning(T) = Meaning(S) /\ KeysOf(T) = KeysOf(S)
<1> DEFINE m == Meaning(S)
<1>1. KeysOf(T) = KeysOf(S)
  BY DEF KeysOf
<1>2. \A f \in T : f.key \in Keys => m[f.key] = f.val
  BY MeaningAt
<1>3. \A k \in Keys : k \notin KeysOf(T) => m[k] = Absent
  BY <1>1, MeaningAt
<1>4. m = [k \in Keys |-> m[k]]
  BY DEF Meaning
<1> HIDE DEF m
<1>5. Meaning(T) = m
  BY <1>2, <1>3, <1>4, MeaningIs
<1> QED  BY <1>1, <1>5 DEF m

\* The elements T are those of S but for the key of f.
LEMMA MeaningWith ==
  ASSUME NEW S, NEW T, KeysOnce(S), KeysOnce(T), NEW f \in T, f.key \in Keys,
         \A e \in S : e.key # f.key => e \in T,
         \A e \in T : e.key # f.key => e \in S
  PROVE  /\ Meaning(T) = [Meaning(S) EXCEPT ![f.key] = f.val]
         /\ KeysOf(T) = KeysOf(S) \union {f.key}
<1> DEFINE m == [Meaning(S) EXCEPT ![f.key] = f.val]
<1>1. KeysOf(T) = KeysOf(S) \union {f.key}
  BY DEF KeysOf
<1>2. /\ m = [k \in Keys |-> m[k]]
      /\ m[f.key] = f.val
      /\ \A k \in Keys \ {f.key} : m[k] = Meaning(S)[k]
  <2>1. Meaning(S) = [k \in Keys |-> Meaning(S)[k]]
    BY DEF Meaning
  <2> QED  BY <2>1
<1> HIDE DEF m
<1>3. \A e \in T : e.key \in Keys => m[e.key] = e.val
  <2> SUFFICES ASSUME NEW e \in T, e.key \in Keys
               PROVE  m[e.key] = e.val
    OBVIOUS
  <2>1. CASE e.key = f.key
    BY <1>2, <2>1 DEF KeysOnce
  <2>2. CASE e.key # f.key
    BY <1>2, <2>2, MeaningAt
  <2> QED  BY <2>1, <2>2
<1>4. \A k \in Keys : k \notin KeysOf(T) => m[k] = Absent
  BY <1>1, <1>2, MeaningAt
<1>5. Meaning(T) = m
  BY <1>2, <1>3, <1>4, MeaningIs
<1> QED  BY <1>1, <1>5 DEF m

\* The elements T are those of S that do not have the key k.
LEMMA MeaningWithout ==
  ASSUME NEW S, NEW T, KeysOnce(S), KeysOnce(T), NEW k \in Keys,
         \A e \in S : e.key # k => e \in T,
         \A e \in T : e \in S /\ e.key # k
  PROVE  /\ Meaning(T) = [Meaning(S) EXCEPT ![k] = Absent]
         /\ KeysOf(T) = KeysOf(S) \ {k}
<1> DEFINE m == [Meaning(S) EXCEPT ![k] = Absent]
<1>1. KeysOf(T) = KeysOf(S) \ {k}
  BY DEF KeysOf
<1>2. /\ m = [j \in Keys |-> m[j]]
      /\ m[k] = Absent
      /\ \A j \in Keys \ {k} : m[j] = Meaning(S)[j]
  <2>1. Meaning(S) = [j \in Keys |-> Meaning(S)[j]]
    BY DEF Meaning
  <2> QED  BY <2>1
<1> HIDE DEF m
<1>3. \A e \in T : e.key \in Keys => m[e.key] = e.val
  BY <1>2, MeaningAt
<1>4. \A j \in Keys : j \notin KeysOf(T) => m[j] = Absent
  BY <1>1, <1>2, MeaningAt
<1>5. Meaning(T) = m
  BY <1>2, <1>3, <1>4, MeaningIs
<1> QED  BY <1>1, <1>5 DEF m

\* No key is in the table and in what waits.
LEMMA OnceInAll ==
  ASSUME NEW S, NEW O, NEW U, NEW h, NEW g, Sound(S, O, U, h, g)
  PROVE  KeysOnce(S \union O) /\ S \union O \subseteq Element
BY CuckooTableAssumption DEF Sound, Filled, KeysOnce

\* There are as many elements as keys, if no element was moved out.
LEMMA KeysCount ==
  ASSUME NEW S, KeysOnce(S), KeysOf(S) \subseteq Keys, IsFiniteSet(KeysOf(S))
  PROVE  IsFiniteSet(S) /\ Cardinality(S) = Cardinality(KeysOf(S))
<1> DEFINE f == [e \in S |-> e.key]
<1>1. f \in Injection(S, KeysOf(S))
  BY DEF Injection, IsInjective, KeysOf, KeysOnce
<1>2. f \in Surjection(S, KeysOf(S))
  BY DEF Surjection, KeysOf
<1> QED  BY <1>1, <1>2, FS_Injection
=============================================================================
