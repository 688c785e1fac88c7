---------------------------- MODULE BucketAccess ----------------------------
(***************************************************************************)
(* What the locks of a cuckoohash_map promise to the code between lock and *)
(* unlock, with no lock in sight: a thread has some buckets of the table   *)
(* for itself, or it has the whole table for itself and may change its     *)
(* size.  CuckooLocks implements this for tables of the default size.      *)
(***************************************************************************)
EXTENDS Integers

CONSTANTS
  Threads,        \* the threads that use the map
  Hashpowers,     \* the hashpowers the table may have
  InitHp,         \* the first of them
  Buckets(_)      \* the buckets of a table with some hashpower

VARIABLES
  hp,     \* the hashpower
  uses,   \* [Threads -> the buckets the thread has for itself]
  alone   \* the threads that have the whole table for themselves

vars == <<hp, uses, alone>>

Init ==
  /\ hp    = InitHp
  /\ uses  = [t \in Threads |-> {}]
  /\ alone = {}

\* snapshot_and_lock_two and the other bucket locks return.
Acquire(t) ==
  /\ alone = {}
  /\ uses[t] = {}
  /\ \E B \in SUBSET Buckets(hp) :
       /\ \A u \in Threads : uses[u] \intersect B = {}
       /\ uses' = [uses EXCEPT ![t] = B]
  /\ UNCHANGED <<hp, alone>>

\* Some of the buckets, or all of them, are unlocked.
Release(t) ==
  /\ \E B \in SUBSET uses[t] : uses' = [uses EXCEPT ![t] = B]
  /\ UNCHANGED <<hp, alone>>

\* lock_all returns.
Seize(t) ==
  /\ alone = {}
  /\ \A u \in Threads : uses[u] = {}
  /\ alone' = {t}
  /\ UNCHANGED <<hp, uses>>

Resize(t) ==
  /\ alone = {t}
  /\ hp' \in Hashpowers
  /\ UNCHANGED <<uses, alone>>

\* The AllLocksManager starts to unlock.
Yield(t) ==
  /\ alone = {t}
  /\ alone' = {}
  /\ UNCHANGED <<hp, uses>>

Next ==
  \E t \in Threads :
    Acquire(t) \/ Release(t) \/ Seize(t) \/ Resize(t) \/ Yield(t)

Spec == Init /\ [][Next]_vars
=============================================================================
