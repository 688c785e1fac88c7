--------------------------- MODULE MCCuckooTable ----------------------------
(* Values for model-checking CuckooTable: keys with chosen buckets, and the *)
(* calls each run is about.                                                 *)
EXTENDS CuckooTable, TLC

CONSTANTS t1, t2, k1, k2, k3, v1, v2

ThreadSymmetry == Permutations(Threads)

\* In two buckets k1 and k2 can be in both, k3 in 0; in four of them k1 can
\* be in 0 or 3, k2 in 2 or 1, k3 in 0 or 2, which have one lock of two.
Spread1 == k1 :> 0 @@ k2 :> 2 @@ k3 :> 0 @@ Husk :> 1
Spread2 == k1 :> 3 @@ k2 :> 1 @@ k3 :> 2 @@ Husk :> 2

\* As Spread2, but what was moved from can only be in bucket 1.
Husked2 == k1 :> 3 @@ k2 :> 1 @@ k3 :> 2 @@ Husk :> 1

\* As above, but for k3, which can be in 0 or 1 in either table.
Triple2 == k1 :> 3 @@ k2 :> 1 @@ k3 :> 1 @@ Husk :> 2

\* Three keys in bucket 0 of two, in 0 or 2 of four.
Pair1 == k1 :> 0 @@ k2 :> 2 @@ k3 :> 0 @@ Husk :> 0
Pair2 == k1 :> 2 @@ k2 :> 0 @@ k3 :> 2 @@ Husk :> 2

KeyCall(kind, k, v) == [kind |-> kind, key |-> k, val |-> v]
Rehash(h)           == [kind |-> "rehash", hp |-> h]
WholeCall(kind)       == [kind |-> kind]

\* Inserting, erasing and finding, with one value.
KeyCalls ==
  {KeyCall("insert", k, v1) : k \in Keys}
    \union {KeyCall("erase", k, v1) : k \in {k1, k2}} \union {KeyCall("find", k1, v1)}

\* Values that change, and everything that concerns the whole table.
WholeCalls ==
  {KeyCall("insert", k, v1) : k \in Keys}
    \union {KeyCall(kind, k1, v2) : kind \in {"find", "update", "assign", "uprase"}}
    \union {Rehash(0), Rehash(2)}
    \union {WholeCall(kind) : kind \in {"clear", "lock table", "unlock", "size"}}

\* Inserting into a table that others resize.
ResizeCalls ==
  {KeyCall(kind, k, v1) : kind \in {"insert", "erase"}, k \in Keys}
    \union {Rehash(h) : h \in 0 .. 2}

\* Counting while elements come, move and go.
SizeCalls ==
  {KeyCall(kind, k, v1) : kind \in {"insert", "erase"}, k \in Keys}
    \union {WholeCall("size")}
=============================================================================
