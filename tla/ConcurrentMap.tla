--------------------------- MODULE ConcurrentMap ----------------------------
(***************************************************************************)
(* What a cuckoohash_map promises to the threads that use it: each call    *)
(* takes effect at once on a plain map, some time between its start and    *)
(* its end, and returns what that map says.  Nothing is known of buckets,  *)
(* locks or sizes.  CuckooTable implements this.                           *)
(***************************************************************************)
EXTENDS Integers, FiniteSets

CONSTANTS
  Threads,    \* the threads that use the map
  Keys,
  Calls,      \* the calls they may make
  Absent,     \* stands for the value of a key that is not in the map
  Nobody,     \* stands for no thread
  NoCall      \* stands for the call of a thread that makes none

VARIABLES
  map,    \* [Keys -> the key's value, or Absent]
  call,   \* [Threads -> what the thread has called and not got back from]
  last,   \* [Threads -> what its last call returned]
  sole    \* the thread that has a locked_table, or Nobody

vars == <<map, call, last, sole>>

Init ==
  /\ map  = [k \in Keys |-> Absent]
  /\ call = [t \in Threads |-> NoCall]
  /\ last = [t \in Threads |-> <<"nothing">>]
  /\ sole = Nobody

Call(t) ==
  /\ call[t] = NoCall
  /\ \E c \in Calls : call' = [call EXCEPT ![t] = c]
  /\ UNCHANGED <<map, last, sole>>

Size(m) == Cardinality({k \in Keys : m[k] # Absent})

\* On the map m, call c of thread t may answer r and leave the map n behind.
Answer(t, c, m, r, n) ==
  LET key == c.key IN
  \/ /\ c.kind = "find" /\ m[key] = Absent
     /\ r = <<"no">> /\ n = m
  \/ /\ c.kind = "find" /\ m[key] # Absent
     /\ r = <<"value", m[key]>> /\ n = m
  \/ /\ c.kind \in {"update", "erase"} /\ m[key] = Absent
     /\ r = <<"no">> /\ n = m
  \/ /\ c.kind = "update" /\ m[key] # Absent
     /\ r = <<"yes">> /\ n = [m EXCEPT ![key] = c.val]
  \/ /\ c.kind = "erase" /\ m[key] # Absent
     /\ r = <<"yes">> /\ n = [m EXCEPT ![key] = Absent]
  \/ /\ c.kind \in {"insert", "assign"} /\ m[key] = Absent
     /\ r = <<"yes">> /\ n = [m EXCEPT ![key] = c.val]
  \/ /\ c.kind = "insert" /\ m[key] # Absent
     /\ r = <<"no">> /\ n = m
  \/ /\ c.kind = "assign" /\ m[key] # Absent
     /\ r = <<"no">> /\ n = [m EXCEPT ![key] = c.val]
  \/ /\ c.kind = "uprase"
     /\ r = IF m[key] = Absent THEN <<"yes">> ELSE <<"no">>
     /\ n = [m EXCEPT ![key] = Absent]
  \/ /\ c.kind = "clear"
     /\ r = <<"yes">> /\ n = [k \in Keys |-> Absent]
  \/ /\ c.kind = "rehash"
     /\ r \in {<<"yes">>, <<"no">>} /\ n = m
  \/ /\ c.kind \in {"lock table", "unlock"}
     /\ r = <<"yes">> /\ n = m
  \/ /\ c.kind \in {"insert", "assign", "uprase", "rehash"}
     /\ r = <<"threw">> /\ n = m
  \/ /\ c.kind = "size"
     /\ r[1] = "size" /\ n = m
     /\ sole = t => r[2] = Size(m)

\* The call takes effect and returns.  While a thread has a locked_table only
\* its own calls take effect; size(), and a rehash that finds nothing to do, ask
\* for no lock.
Return(t) ==
  /\ call[t] # NoCall
  /\ \/ sole \in {Nobody, t}
     \/ call[t].kind = "size"
     \/ call[t].kind = "rehash" /\ last'[t] = <<"no">>
  /\ Answer(t, call[t], map, last'[t], map')
  /\ last' = [last EXCEPT ![t] = last'[t]]
  /\ call' = [call EXCEPT ![t] = NoCall]
  /\ sole' = IF call[t].kind = "lock table" THEN t
             ELSE IF call[t].kind = "unlock" THEN Nobody
             ELSE sole

Next == \E t \in Threads : Call(t) \/ Return(t)

Spec == Init /\ [][Next]_vars
=============================================================================
