--------------------------- MODULE SharedLogProofs ---------------------------
(***************************************************************************)
(* Whatever the processes that share the log file do to each other's       *)
(* files, each of their loggers is the one of AsyncLogger, for any number  *)
(* of processes, any size and any number of files.  So what is proved of   *)
(* AsyncLogger is true of loggers that share a file.                       *)
(***************************************************************************)
EXTENDS SharedLog, AsyncLoggerProofs, FiniteSetTheorems

\* What is in the stdio buffers are lines.  (Line numbers are not 0, but that
\* takes more than types.)
BufType == buf \in [Procs -> Seq(Procs \X Nat)]

\* The steps that only concern files.
LEMMA OnlyFiles ==
  ASSUME NEW p \in Procs, NEW k \in 1 .. MaxFiles,
         \/ StartRotation(p) \/ EndRotation(p) \/ CloseFile(p)
         \/ Check(p, k) \/ Remove(p, k) \/ Rename(p, k) \/ TryAgain(p, k)
  PROVE  UNCHANGED logVars
BY DEF StartRotation, EndRotation, CloseFile, Check, Remove, Rename, TryAgain

\* A step of loggers that share files is a step of a logger, or none.
LEMMA StepIsLogStep ==
  ASSUME LogTypeOK, BufType, [Next]_sharedVars
  PROVE  [LogNext]_logVars
<1>1. CASE UNCHANGED sharedVars
  BY <1>1 DEF sharedVars
<1>2. ASSUME NEW p \in Procs, Step(p) PROVE [LogNext]_logVars
  <2>1. ASSUME LogStep(p) PROVE LogNext
    BY <2>1 DEF LogNext
  <2>2. CASE Post(p) \/ PostTerminate(p) \/ Take(p) \/ Write(p, "console")
    BY <2>1, <2>2 DEF LogStep, SinkNames
  <2>3. CASE WriteLine(p)
    BY <2>1, <2>3 DEF WriteLine, LogStep, SinkNames
  <2>4. CASE WriteFails(p)
    BY <2>1, <2>4 DEF WriteFails, LogStep
  <2>5. CASE StartRotation(p) \/ EndRotation(p) \/ CloseFile(p)
    <3>1. 1 \in 1 .. MaxFiles
      BY SharedLogAssumption
    <3> QED  BY <2>5, <3>1, OnlyFiles
  <2>6. CASE Ends(p)
    BY <2>1, <2>6 DEF Ends, LogStep
  <2>7. ASSUME NEW k \in 1 .. MaxFiles, Check(p, k) \/ Remove(p, k) \/ Rename(p, k) \/ TryAgain(p, k)
        PROVE  [LogNext]_logVars
    BY <2>7, OnlyFiles
  <2>8. ASSUME NEW k \in 1 .. MaxFiles, RenameFails(p, k) PROVE [LogNext]_logVars
    BY <2>1, <2>8 DEF RenameFails, LogStep
  <2> QED BY <1>2, <2>2, <2>3, <2>4, <2>5, <2>6, <2>7, <2>8 DEF Step
<1>3. ASSUME NEW p \in Procs, CallFiltered(p) \/ Call(p) \/ CallThrows(p) \/ Exits(p)
      PROVE  LogNext
  BY <1>3 DEF LogNext
<1>4. ASSUME NEW p \in Procs, Killed(p) PROVE LogNext
  <2>1. Kill(p, Len(buf[p])) /\ Len(buf[p]) <= Len(out[p]["file"])
    BY <1>4 DEF Killed, Kill
  <2>2. Len(buf[p]) \in Nat
    BY DEF BufType
  <2>3. Len(out[p]["file"]) \in Nat
    BY TypeOfOne
  <2>4. Len(buf[p]) \in 0 .. Len(out[p]["file"])
    BY <2>1, <2>2, <2>3
  <2> QED BY <2>1, <2>4 DEF LogNext
<1> QED BY <1>1, <1>2, <1>3, <1>4 DEF Next

\* Every step keeps the buffers' type.
LEMMA StepBuf ==
  ASSUME LogTypeOK, BufType, [Next]_sharedVars
  PROVE  BufType'
<1> USE DEF BufType
<1>1. CASE UNCHANGED sharedVars
  BY <1>1 DEF sharedVars, fileVars
<1>2. ASSUME NEW p \in Procs, WriteLine(p) PROVE BufType'
  <2>1. <<p, taken[p]>> \in Procs \X Nat
    BY TypeOfOne
  <2>2. Append(buf[p], <<p, taken[p]>>) \in Seq(Procs \X Nat)
    BY <2>1, AppendFacts
  <2>3. << >> \in Seq(Procs \X Nat)
    OBVIOUS
  <2>4. \/ buf' = [buf EXCEPT ![p] = Append(buf[p], <<p, taken[p]>>)]
        \/ buf' = [buf EXCEPT ![p] = << >>]
    BY <1>2 DEF WriteLine
  <2> QED BY <2>2, <2>3, <2>4
<1>3. ASSUME NEW p \in Procs, buf' = [buf EXCEPT ![p] = << >>] PROVE BufType'
  <2>1. << >> \in Seq(Procs \X Nat)
    OBVIOUS
  <2> QED BY <1>3, <2>1
<1>4. ASSUME NEW p \in Procs, Step(p) PROVE BufType'
  <2>1. CASE StartRotation(p) \/ CloseFile(p)
    BY <2>1, <1>3 DEF StartRotation, CloseFile
  <2>2. ASSUME NEW k \in 1 .. MaxFiles,
               \/ Check(p, k) \/ Remove(p, k) \/ Rename(p, k)
               \/ TryAgain(p, k) \/ RenameFails(p, k)
        PROVE  BufType'
    BY <2>2 DEF Check, Remove, Rename, TryAgain, RenameFails
  <2>3. CASE WriteFails(p) \/ EndRotation(p) \/ Ends(p)
    BY <2>3 DEF WriteFails, EndRotation, Ends, fileVars
  <2> QED BY <1>4, <1>2, <2>1, <2>2, <2>3 DEF Step, fileVars
<1>5. ASSUME NEW p \in Procs, Open(p) \/ UNCHANGED fileVars PROVE BufType'
  BY <1>5 DEF Open, fileVars
<1>6. ASSUME NEW p \in Procs, Killed(p) PROVE BufType'
  BY <1>6, <1>3 DEF Killed
<1> QED BY <1>1, <1>4, <1>5, <1>6 DEF Next

\* The refinement's invariant.
LEMMA SharedForever == Spec => [](LogTypeOK /\ BufType)
<1>1. Init => LogTypeOK /\ BufType
  <2> SUFFICES ASSUME Init PROVE LogTypeOK /\ BufType
    OBVIOUS
  <2>1. << >> \in Seq(Procs \X Nat)
    OBVIOUS
  <2> QED BY <2>1, InitType DEF Init, BufType
<1>2. LogTypeOK /\ BufType /\ [Next]_sharedVars => (LogTypeOK /\ BufType)'
  BY StepIsLogStep, StepType, StepBuf
<1> QED BY <1>1, <1>2, PTL DEF Spec

\* For all sizes: to the program and its console the shared, rotating, failing
\* file is no more than lines that were written or missed.  logger.cpp:8-11.
THEOREM SharedImplementsLogger == Spec => ImplementsLogger
<1>1. Init => LogInit
  BY DEF Init
<1>2. LogTypeOK /\ BufType /\ [Next]_sharedVars => [LogNext]_logVars
  BY StepIsLogStep
<1> QED BY <1>1, <1>2, SharedForever, PTL DEF Spec, LogSpec, ImplementsLogger

\* So loggers that share their file lose, swap and repeat nothing on the way
\* to the console, whatever happens to the file.  logger.h:26, logger.cpp:9.
THEOREM SharedLosesNothing == Spec => []NothingLostOrSwapped
BY SharedImplementsLogger, NothingIsLost, PTL DEF ImplementsLogger

\* And a program that returns from main has handed every line to both sinks.
\* logger.h:20-28, logger.cpp:9.
THEOREM SharedAllIsWritten == Spec => []WrittenBeforeExit
BY SharedImplementsLogger, AllIsWritten, PTL DEF ImplementsLogger

-----------------------------------------------------------------------------
(* Whose lines are in a file.                                              *)

\* How many of the lines s are p's, and whether all are.
Own(s, p)     == Cardinality(OwnLines(s, p))
AllFrom(s, p) == \A i \in 1 .. Len(s) : s[i][1] = p

\* The first n numbers.
LEMMA Count ==
  ASSUME NEW n \in Nat
  PROVE  IsFiniteSet(1 .. n) /\ Cardinality(1 .. n) = n
<1>1. 1 \in Int /\ n \in Int
  OBVIOUS
<1>2. IsFiniteSet(1 .. n) /\ Cardinality(1 .. n) = IF 1 > n THEN 0 ELSE n - 1 + 1
  BY <1>1, FS_Interval
<1> QED  BY <1>2

LEMMA OwnType ==
  ASSUME NEW s \in Seq(Line), NEW p
  PROVE  /\ IsFiniteSet(OwnLines(s, p))
         /\ Own(s, p) \in Nat
         /\ Own(s, p) <= Len(s)
<1>1. Len(s) \in Nat /\ OwnLines(s, p) \subseteq 1 .. Len(s)
  BY DEF OwnLines
<1>2. IsFiniteSet(1 .. Len(s)) /\ Cardinality(1 .. Len(s)) = Len(s)
  BY <1>1, Count
<1>3. IsFiniteSet(OwnLines(s, p)) /\ Cardinality(OwnLines(s, p)) <= Len(s)
  BY <1>1, <1>2, FS_Subset
<1> QED  BY <1>3, FS_CardinalityType DEF Own

LEMMA OwnNone ==
  ASSUME NEW p
  PROVE  Own(<< >>, p) = 0 /\ AllFrom(<< >>, p)
<1>1. OwnLines(<< >>, p) = {}
  BY DEF OwnLines
<1>2. AllFrom(<< >>, p)
  BY DEF AllFrom
<1> QED  BY <1>1, <1>2, FS_EmptySet DEF Own

\* Lines of p at the end make no more of p's, and none of the others'.
LEMMA OwnMore ==
  ASSUME NEW s \in Seq(Line), NEW t \in Seq(Line), NEW p, AllFrom(t, p)
  PROVE  /\ s \o t \in Seq(Line)
         /\ Own(s \o t, p) <= Own(s, p) + Len(t)
         /\ \A q : q # p => Own(s \o t, q) = Own(s, q)
<1> DEFINE n == Len(s)
           m == Len(t)
           U == n + 1 .. n + m
<1>1. /\ n \in Nat /\ m \in Nat /\ s \o t \in Seq(Line) /\ Len(s \o t) = n + m
      /\ \A i \in 1 .. n : (s \o t)[i] = s[i]
      /\ \A i \in 1 .. m : (s \o t)[n + i] = t[i]
  OBVIOUS
<1>2. \A i \in U : i - n \in 1 .. m /\ (s \o t)[i] = t[i - n]
  <2> SUFFICES ASSUME NEW i \in U
               PROVE  i - n \in 1 .. m /\ (s \o t)[i] = t[i - n]
    OBVIOUS
  <2>1. i - n \in 1 .. m /\ n + (i - n) = i
    BY <1>1
  <2> QED  BY <1>1, <2>1
<1>3. IsFiniteSet(U) /\ Cardinality(U) = m
  <2> DEFINE a == n + 1
             b == n + m
  <2>1. a \in Int /\ b \in Int
    BY <1>1
  <2> HIDE DEF a, b
  <2>2. IsFiniteSet(a .. b) /\ Cardinality(a .. b) = IF a > b THEN 0 ELSE b - a + 1
    BY <2>1, FS_Interval
  <2>3. IsFiniteSet(U) /\ Cardinality(U) = IF a > b THEN 0 ELSE b - a + 1
    BY <2>2 DEF a, b
  <2> HIDE DEF U
  <2> QED  BY <1>1, <2>3 DEF a, b
<1>4. Own(s \o t, p) <= Own(s, p) + m
  <2>1. OwnLines(s \o t, p) \subseteq OwnLines(s, p) \union U
    BY <1>1 DEF OwnLines
  <2>2. IsFiniteSet(OwnLines(s, p)) /\ Cardinality(OwnLines(s, p)) \in Nat
    BY OwnType DEF Own
  <2>3. /\ IsFiniteSet(OwnLines(s, p) \union U)
        /\ Cardinality(OwnLines(s, p) \union U)
             = Cardinality(OwnLines(s, p)) + Cardinality(U)
               - Cardinality(OwnLines(s, p) \intersect U)
        /\ IsFiniteSet(OwnLines(s, p) \intersect U)
    BY <1>3, <2>2, FS_Union, FS_Subset
  <2>4. Cardinality(OwnLines(s, p) \intersect U) \in Nat
    BY <2>3, FS_CardinalityType
  <2>5. Cardinality(OwnLines(s, p) \union U) <= Cardinality(OwnLines(s, p)) + m
    BY <1>1, <1>3, <2>2, <2>3, <2>4
  <2>6. Cardinality(OwnLines(s \o t, p)) <= Cardinality(OwnLines(s, p) \union U)
    BY <2>1, <2>3, FS_Subset
  <2>7. /\ Cardinality(OwnLines(s \o t, p)) \in Nat
        /\ Cardinality(OwnLines(s, p) \union U) \in Nat
    BY <1>1, <2>3, OwnType, FS_CardinalityType DEF Own
  <2> QED  BY <1>1, <2>2, <2>5, <2>6, <2>7 DEF Own
<1>5. ASSUME NEW q, q # p
      PROVE  Own(s \o t, q) = Own(s, q)
  <2>1. OwnLines(s \o t, q) = OwnLines(s, q)
    <3>1. \A i \in 1 .. n + m : i \in 1 .. n \/ i \in U
      BY <1>1
    <3> QED  BY <1>1, <1>2, <1>5, <3>1 DEF OwnLines, AllFrom
  <2> QED  BY <2>1 DEF Own
<1> QED  BY <1>1, <1>4, <1>5

\* If nobody has more than n lines in a file, it has no more than so many.
LEMMA AllOwn ==
  ASSUME NEW s \in Seq(Line), NEW n \in Nat, \A p \in Procs : Own(s, p) <= n
  PROVE  Len(s) <= Cardinality(Procs) * n
<1> DEFINE upto(i) == OwnLines(s, s[i][1]) \intersect 1 .. i
           f == [i \in 1 .. Len(s) |-> <<s[i][1], Cardinality(upto(i))>>]
<1>1. Len(s) \in Nat /\ \A i \in 1 .. Len(s) : s[i] \in Line /\ s[i][1] \in Procs
  BY DEF Line
<1>2. ASSUME NEW i \in 1 .. Len(s)
      PROVE  /\ upto(i) \subseteq OwnLines(s, s[i][1]) /\ i \in upto(i)
             /\ IsFiniteSet(upto(i)) /\ Cardinality(upto(i)) \in 1 .. n
  <2>1. upto(i) \subseteq OwnLines(s, s[i][1]) /\ i \in upto(i)
    BY DEF OwnLines
  <2>2. IsFiniteSet(OwnLines(s, s[i][1])) /\ Own(s, s[i][1]) <= n /\ Own(s, s[i][1]) \in Nat
    BY <1>1, OwnType
  <2> HIDE DEF upto
  <2>3. IsFiniteSet(upto(i)) /\ Cardinality(upto(i)) <= Own(s, s[i][1])
    BY <2>1, <2>2, FS_Subset DEF Own
  <2>4. Cardinality(upto(i)) \in Nat /\ Cardinality(upto(i)) # 0
    BY <2>1, <2>3, FS_CardinalityType, FS_EmptySet
  <2> QED  BY <2>1, <2>2, <2>3, <2>4
<1>3. ASSUME NEW i \in 1 .. Len(s), NEW j \in 1 .. Len(s), i < j, s[i][1] = s[j][1]
      PROVE  Cardinality(upto(i)) # Cardinality(upto(j))
  <2>1. upto(i) \subseteq upto(j) /\ j \notin upto(i)
    BY <1>1, <1>3
  <2> HIDE DEF upto
  <2>2. upto(i) # upto(j)
    BY <1>2, <2>1
  <2> QED  BY <1>2, <2>1, <2>2, FS_Subset
<1>4. f \in Injection(1 .. Len(s), Procs \X (1 .. n))
  <2>1. f \in [1 .. Len(s) -> Procs \X (1 .. n)]
    BY <1>1, <1>2
  <2>2. ASSUME NEW i \in 1 .. Len(s), NEW j \in 1 .. Len(s), f[i] = f[j]
        PROVE  i = j
    <3>1. s[i][1] = s[j][1] /\ Cardinality(upto(i)) = Cardinality(upto(j))
      BY <2>2
    <3> HIDE DEF upto, f
    <3> QED  BY <1>1, <1>3, <3>1
  <2> HIDE DEF f
  <2> QED  BY <2>1, <2>2 DEF Injection, IsInjective
<1>5. IsFiniteSet(1 .. n) /\ Cardinality(1 .. n) = n /\ Cardinality(1 .. Len(s)) = Len(s)
  BY <1>1, Count
<1>6. IsFiniteSet(Procs \X (1 .. n)) /\ Cardinality(Procs \X (1 .. n)) = Cardinality(Procs) * n
  BY <1>5, FS_Product, SharedLogAssumption
<1> HIDE DEF f
<1>7. Cardinality(1 .. Len(s)) <= Cardinality(Procs \X (1 .. n))
  BY <1>4, <1>6, FS_Injection
<1> QED  BY <1>5, <1>6, <1>7

-----------------------------------------------------------------------------
(* The types of files and sinks.                                           *)

Disk(f, k) == IF k \in DOMAIN f THEN f[k] ELSE << >>
Files(f)   == DOMAIN f \subseteq Names /\ \A k \in DOMAIN f : f[k] \in Seq(Line)

Handles   == Names \union {Closed, Unlinked}
Rotations == Phase \X Names

\* Where a rotation can be while it removes or renames file k.
Moving(k) == {<<"remove", k>>, <<"rename", k>>, <<"remove again", k>>, <<"rename again", k>>}

\* p is removing or renaming file k.
Removes(p, k) == rotation[p] \in {<<"remove", k>>, <<"remove again", k>>}
Renames(p, k) == rotation[p] \in {<<"rename", k>>, <<"rename again", k>>}

SinksTyped ==
  /\ handle   \in [Procs -> Handles]
  /\ size     \in [Procs -> Nat]
  /\ buf      \in [Procs -> Seq(Line)]
  /\ rotation \in [Procs -> Rotations]

\* Whose handle is closed has no name to write to.
LEMMA NoNames ==
  /\ Closed \notin Names /\ Unlinked \notin Names /\ Closed # Unlinked
  /\ 0 \in Names /\ MaxFiles \in Names
  /\ \A k \in 1 .. MaxFiles : k \in Names /\ k - 1 \in Names /\ k # k - 1
BY SharedLogAssumption DEF Closed, Unlinked, Names

LEMMA TypeParts ==
  TypeOK <=> /\ LogTypeOK /\ Files(file) /\ SinksTyped
             /\ \A p \in Procs : ~made[p] => handle[p] = Closed
BY DEF TypeOK, Files, SinksTyped, Handles, Rotations

LEMMA DiskType ==
  ASSUME NEW f, Files(f), NEW k
  PROVE  Disk(f, k) \in Seq(Line)
<1>1. << >> \in Seq(Line)
  OBVIOUS
<1> QED  BY <1>1 DEF Disk, Files

\* A file that grows.
LEMMA GrownFiles ==
  ASSUME Files(file), NEW p \in Procs, NEW t \in Seq(Line)
  PROVE  /\ Files(Grown(p, t))
         /\ \A k \in Names : Disk(Grown(p, t), k) =
              IF k = handle[p] /\ k \in DOMAIN file THEN Disk(file, k) \o t ELSE Disk(file, k)
<1> DEFINE h == handle[p]
           g == [file EXCEPT ![h] = @ \o t]
<1>1. CASE h \in Names
  <2>1. Grown(p, t) = g
    BY <1>1 DEF Grown
  <2>2. DOMAIN g = DOMAIN file /\ \A k \in DOMAIN file : k # h => g[k] = file[k]
    OBVIOUS
  <2>3. h \in DOMAIN file => g[h] = file[h] \o t
    OBVIOUS
  <2>4. h \in DOMAIN file => file[h] \o t \in Seq(Line)
    BY DEF Files
  <2> HIDE DEF g, h
  <2>5. Files(g)
    BY <2>2, <2>3, <2>4 DEF Files
  <2>6. \A k : Disk(g, k) = IF k = h /\ k \in DOMAIN file THEN Disk(file, k) \o t ELSE Disk(file, k)
    BY <2>2, <2>3 DEF Disk
  <2> QED  BY <2>1, <2>5, <2>6 DEF h
<1>2. CASE h \notin Names
  BY <1>2 DEF Grown
<1> QED  BY <1>1, <1>2

\* A file that is new or new under its name.
LEMMA NewestFiles ==
  ASSUME Files(file), NEW t \in Seq(Line)
  PROVE  /\ Files(WithNewest(t))
         /\ \A k \in Names : Disk(WithNewest(t), k) = IF k = 0 THEN t ELSE Disk(file, k)
BY NoNames DEF WithNewest, Files, Disk

\* Files that are renamed.
LEMMA ShiftedFiles ==
  ASSUME Files(file), NEW k \in 1 .. MaxFiles, k - 1 \in DOMAIN file
  PROVE  /\ Files(Shifted(k))
         /\ \A j \in Names : Disk(Shifted(k), j) =
              IF j = k THEN Disk(file, k - 1) ELSE IF j = k - 1 THEN << >> ELSE Disk(file, j)
BY NoNames DEF Shifted, Files, Disk

\* A file that is removed.
LEMMA RemovedFiles ==
  ASSUME Files(file), NEW k \in 1 .. MaxFiles, file' = Restrict(file, DOMAIN file \ {k})
  PROVE  /\ Files(file')
         /\ \A j \in Names : Disk(file', j) = IF j = k THEN << >> ELSE Disk(file, j)
BY DEF Restrict, Files, Disk

\* Where a rotation goes on.
LEMMA Phases ==
  ASSUME NEW k \in 1 .. MaxFiles
  PROVE  /\ After(k) \in Rotations
         /\ \A w \in Phase : <<w, k>> \in Rotations
         /\ NoRotation \notin Moving(k)
         /\ After(k) # NoRotation
<1>1. k \in Names /\ 0 \in Names /\ (k = 1 \/ k - 1 \in Names)
  BY NoNames
<1> QED  BY <1>1 DEF After, Rotations, Phase, NoRotation, Moving

\* A removal and the rename behind it.
LEMMA Tries ==
  ASSUME NEW k \in 1 .. MaxFiles
  PROVE  /\ Renaming(<<"remove", k>>) = <<"rename", k>>
         /\ Renaming(<<"remove again", k>>) = <<"rename again", k>>
<1> DEFINE r == <<"remove", k>>
           s == <<"remove again", k>>
<1>1. /\ r[1] = "remove" /\ r[2] = k
      /\ s[1] = "remove again" /\ s[2] = k
  OBVIOUS
<1>2. "remove" # "remove again"
  OBVIOUS
<1> HIDE DEF r, s
<1>3. Renaming(r) = <<"rename", k>> /\ Renaming(s) = <<"rename again", k>>
  BY <1>1, <1>2 DEF Renaming
<1> QED  BY <1>3 DEF r, s

\* A removal goes on to the rename.
LEMMA RemovalGoesOn ==
  ASSUME NEW p \in Procs, NEW k \in 1 .. MaxFiles, Removes(p, k)
  PROVE  /\ Renaming(rotation[p]) \in {<<"rename", k>>, <<"rename again", k>>}
         /\ Renaming(rotation[p]) \in Rotations
         /\ rotation[p] # NoRotation
<1>1. Renaming(rotation[p]) \in {<<"rename", k>>, <<"rename again", k>>}
  BY Tries DEF Removes
<1> QED  BY <1>1, Phases DEF Removes, Moving, Phase

\* The line in the worker's hands.
LEMMA TakenLine ==
  ASSUME LogTypeOK, LogSafe, NEW p \in Procs, Works(p), todo[p] # << >>
  PROVE  <<p, taken[p]>> \in Line
<1>1. taken[p] = Written(p) + 1 /\ Written(p) \in Nat
  BY TypeOfOne DEF LogSafe, LogInv, Lines, Works
<1> QED  BY <1>1 DEF Line

LEMMA LineAppended ==
  ASSUME LogTypeOK, LogSafe, SinksTyped, NEW p \in Procs, Works(p), todo[p] # << >>
  PROVE  LET lines == Append(buf[p], <<p, taken[p]>>)
         IN  /\ lines \in Seq(Line) /\ buf[p] \in Seq(Line)
             /\ Len(buf[p]) \in Nat /\ Len(lines) = Len(buf[p]) + 1
             /\ \A i \in 1 .. Len(buf[p]) : lines[i] = buf[p][i]
             /\ lines[Len(buf[p]) + 1] = <<p, taken[p]>>
<1>1. buf[p] \in Seq(Line) /\ <<p, taken[p]>> \in Line
  BY TakenLine DEF SinksTyped
<1> QED  BY <1>1, AppendFacts

\* No step takes log_cat's objects away.
LEMMA MadeStays ==
  ASSUME LogTypeOK, [Next]_sharedVars
  PROVE  \A p \in Procs : made[p] => made'[p]
<1>1. ASSUME NEW p \in Procs, Step(p)
      PROVE  made' = made
  <2>1. CASE Post(p) \/ PostTerminate(p) \/ Take(p) \/ Write(p, "console")
    BY <2>1 DEF Post, PostTerminate, Take, Write
  <2>2. CASE WriteLine(p) \/ WriteFails(p) \/ StartRotation(p) \/ EndRotation(p)
    BY <2>2 DEF WriteLine, Write, WriteFails, WriteThrows, StartRotation, EndRotation, logVars
  <2>3. ASSUME NEW k \in 1 .. MaxFiles,
               \/ Check(p, k) \/ Remove(p, k) \/ Rename(p, k)
               \/ TryAgain(p, k) \/ RenameFails(p, k)
        PROVE  made' = made
    BY <2>3 DEF Check, Remove, Rename, TryAgain, RenameFails, WriteThrows, logVars
  <2>4. CASE CloseFile(p) \/ Ends(p)
    BY <2>4 DEF CloseFile, Ends, Terminate, logVars
  <2> QED  BY <1>1, <2>1, <2>2, <2>3, <2>4 DEF Step
<1>2. ASSUME NEW p \in Procs, CallFiltered(p) \/ Call(p)
      PROVE  \A q \in Procs : made[q] => made'[q]
  BY <1>2 DEF CallFiltered, Call, LogTypeOK
<1>3. ASSUME NEW p \in Procs, CallThrows(p) \/ Exits(p) \/ Killed(p)
      PROVE  made' = made
  BY <1>3 DEF CallThrows, Exits, Killed, Kill
<1>4. CASE UNCHANGED sharedVars
  BY <1>4 DEF sharedVars, logVars
<1> QED  BY <1>1, <1>2, <1>3, <1>4 DEF Next

-----------------------------------------------------------------------------
(* What a process has put into the files.                                  *)

\* The lines of p in the file it has open.
Share(p) == IF handle[p] \in Names THEN Own(Disk(file, handle[p]), p) ELSE 0

\* Nobody has more than one file's worth in a file; with what is in its buffer
\* that is true of the file it writes to, and its sink's count is not less.
\* Nothing is in the buffer before the file is opened or while it is rotated.
OneShare(p) ==
  /\ \A k \in Names : Own(Disk(file, k), p) <= MaxSize
  /\ AllFrom(buf[p], p)
  /\ Share(p) + Len(buf[p]) <= MaxSize
  /\ Share(p) + Len(buf[p]) <= size[p]
  /\ rotation[p] # NoRotation => buf[p] = << >>
  /\ ~made[p] => buf[p] = << >> /\ handle[p] = Closed

FileInv == Files(file) /\ SinksTyped /\ \A p \in Procs : OneShare(p)

MadeGrows == \A p \in Procs : made[p] => made'[p]

LEMMA ShareType ==
  ASSUME Files(file), SinksTyped, NEW p \in Procs
  PROVE  /\ Share(p) \in Nat /\ Len(buf[p]) \in Nat /\ size[p] \in Nat /\ buf[p] \in Seq(Line)
         /\ \A k : Own(Disk(file, k), p) \in Nat
BY DiskType, OwnType DEF Share, SinksTyped

\* A step that takes nothing to the file of another process.
LEMMA OthersShare ==
  ASSUME FileInv, MadeGrows, Files(file'), NEW q \in Procs, OneShare(q),
         handle'[q] = handle[q], buf'[q] = buf[q], size'[q] = size[q],
         rotation'[q] = rotation[q],
         \A k \in Names : Own(Disk(file', k), q) <= Own(Disk(file, k), q)
  PROVE  OneShare(q)'
<1>1. \A k : Own(Disk(file', k), q) \in Nat /\ Own(Disk(file, k), q) \in Nat
  BY DiskType, OwnType DEF FileInv
<1>2. /\ Share(q) \in Nat /\ Share(q)' \in Nat /\ Share(q)' <= Share(q)
      /\ Len(buf[q]) \in Nat /\ size[q] \in Nat
  BY <1>1, ShareType DEF Share, FileInv
<1>3. MaxSize \in Nat
  BY SharedLogAssumption
<1>4. \A k \in Names : Own(Disk(file, k), q)' <= MaxSize
  BY <1>1, <1>3 DEF OneShare
<1>5. Share(q)' + Len(buf'[q]) <= MaxSize /\ Share(q)' + Len(buf'[q]) <= size'[q]
  BY <1>2, <1>3 DEF OneShare
<1>6. ~made'[q] => ~made[q]
  BY DEF MadeGrows
<1> QED  BY <1>4, <1>5, <1>6 DEF OneShare

\* Lines of p at the end of its file.
LEMMA GrownShares ==
  ASSUME FileInv, NEW p \in Procs, NEW t \in Seq(Line), AllFrom(t, p),
         file' = Grown(p, t), Share(p) + Len(t) <= MaxSize
  PROVE  /\ Files(file')
         /\ \A k \in Names : Own(Disk(file', k), p) <= MaxSize
         /\ handle'[p] = handle[p] => Share(p)' <= Share(p) + Len(t)
         /\ \A q \in Procs \ {p} : \A k \in Names :
              Own(Disk(file', k), q) <= Own(Disk(file, k), q)
<1>0. \A s \in Seq(Line) :
        /\ Own(s \o t, p) <= Own(s, p) + Len(t)
        /\ \A q : q # p => Own(s \o t, q) = Own(s, q)
  <2> SUFFICES ASSUME NEW s \in Seq(Line)
               PROVE  /\ Own(s \o t, p) <= Own(s, p) + Len(t)
                      /\ \A q : q # p => Own(s \o t, q) = Own(s, q)
    OBVIOUS
  <2> QED  BY OwnMore
<1>1. Files(file') /\ \A k \in Names : Disk(file', k) =
        IF k = handle[p] /\ k \in DOMAIN file THEN Disk(file, k) \o t ELSE Disk(file, k)
  BY GrownFiles DEF FileInv
<1>2. /\ \A k, q : Own(Disk(file, k), q) \in Nat /\ Own(Disk(file', k), q) \in Nat
      /\ MaxSize \in Nat /\ Len(t) \in Nat
      /\ \A k \in Names : Own(Disk(file, k), p) <= MaxSize
  BY <1>1, DiskType, OwnType, SharedLogAssumption DEF FileInv, OneShare
<1>3. ASSUME NEW k \in Names
      PROVE  /\ \A q : q # p => Own(Disk(file', k), q) = Own(Disk(file, k), q)
             /\ k # handle[p] => Own(Disk(file', k), p) = Own(Disk(file, k), p)
             /\ k = handle[p] => Own(Disk(file', k), p) <= Share(p) + Len(t)
  <2>1. CASE k = handle[p] /\ k \in DOMAIN file
    <3>1. Disk(file', k) = Disk(file, k) \o t /\ Disk(file, k) \in Seq(Line)
      BY <1>1, <2>1, DiskType DEF FileInv
    <3>2. Share(p) = Own(Disk(file, k), p)
      BY <2>1 DEF Share
    <3> QED  BY <1>0, <2>1, <3>1, <3>2
  <2>2. CASE ~(k = handle[p] /\ k \in DOMAIN file)
    <3>1. Disk(file', k) = Disk(file, k)
      BY <1>1, <2>2
    <3>2. k = handle[p] => Share(p) = Own(Disk(file, k), p)
      BY DEF Share
    <3> QED  BY <1>2, <3>1, <3>2
  <2> QED  BY <2>1, <2>2
<1>4. \A k \in Names : Own(Disk(file', k), p) <= MaxSize
  <2> SUFFICES ASSUME NEW k \in Names
               PROVE  Own(Disk(file', k), p) <= MaxSize
    OBVIOUS
  <2>1. Share(p) \in Nat
    BY ShareType DEF FileInv
  <2> QED  BY <1>2, <1>3, <2>1
<1>5. ASSUME handle'[p] = handle[p]
      PROVE  Share(p)' <= Share(p) + Len(t)
  <2>1. CASE handle[p] \in Names
    <3>1. Share(p)' = Own(Disk(file', handle[p]), p)
      BY <1>5, <2>1 DEF Share
    <3> QED  BY <1>3, <2>1, <3>1
  <2>2. CASE handle[p] \notin Names
    <3>1. Share(p)' = 0 /\ Share(p) = 0
      BY <1>5, <2>2 DEF Share
    <3> QED  BY <1>2, <3>1
  <2> QED  BY <2>1, <2>2
<1>6. \A q \in Procs \ {p} : \A k \in Names : Own(Disk(file', k), q) <= Own(Disk(file, k), q)
  BY <1>2, <1>3
<1> QED  BY <1>1, <1>4, <1>5, <1>6

\* Nothing is in the buffer.
LEMMA EmptyShare ==
  ASSUME NEW p \in Procs, Files(file'), \A k \in Names : Own(Disk(file', k), p) <= MaxSize,
         buf'[p] = << >>, size'[p] \in Nat, Share(p)' <= size'[p],
         ~made'[p] => handle'[p] = Closed
  PROVE  OneShare(p)'
<1>1. \A k : Own(Disk(file', k), p) \in Nat
  BY DiskType, OwnType
<1>2. Share(p)' \in Nat /\ Share(p)' <= MaxSize /\ Len(buf'[p]) = 0
  BY <1>1, SharedLogAssumption DEF Share
<1>3. AllFrom(buf'[p], p)
  BY OwnNone
<1>4. Share(p)' + Len(buf'[p]) <= MaxSize /\ Share(p)' + Len(buf'[p]) <= size'[p]
  BY <1>2
<1> QED  BY <1>3, <1>4 DEF OneShare

\* Only p's rotation may go on.
Rotates(p) ==
  /\ rotation' \in [Procs -> Rotations]
  /\ \A q \in Procs \ {p} : rotation'[q] = rotation[q]

\* The line fits.
LEMMA RoomForOne ==
  ASSUME FileInv, NEW p \in Procs, Fits(p) \/ MayBeEmpty(p)
  PROVE  Share(p) + Len(buf[p]) + 1 <= MaxSize /\ Share(p) + Len(buf[p]) + 1 <= size[p] + 1
<1>1. /\ Share(p) \in Nat /\ Len(buf[p]) \in Nat /\ size[p] \in Nat /\ MaxSize \in Nat \ {0}
      /\ Share(p) + Len(buf[p]) <= size[p]
  BY ShareType, SharedLogAssumption DEF FileInv, OneShare
<1>2. CASE Fits(p)
  BY <1>1, <1>2 DEF Fits
<1>3. CASE MayBeEmpty(p)
  <2>1. Len(buf[p]) = 0
    BY <1>3 DEF MayBeEmpty
  <2>2. Share(p) = 0
    <3>1. handle[p] \in Names => Disk(file, handle[p]) = << >>
      BY <1>3, NoNames DEF MayBeEmpty, OnDisk, Disk
    <3> QED  BY <3>1, OwnNone DEF Share
  <2> QED  BY <1>1, <2>1, <2>2
<1> QED  BY <1>2, <1>3

LEMMA WriteLineShares ==
  ASSUME LogTypeOK, LogSafe, FileInv, MadeGrows, NEW p \in Procs, WriteLine(p)
  PROVE  FileInv'
<1> DEFINE lines == Append(buf[p], <<p, taken[p]>>)
<1>1. /\ Fits(p) \/ MayBeEmpty(p)
      /\ Works(p) /\ todo[p] # << >> /\ rotation[p] = NoRotation
      /\ \/ buf' = [buf EXCEPT ![p] = lines] /\ file' = file
         \/ buf' = [buf EXCEPT ![p] = << >>] /\ file' = Grown(p, lines)
      /\ size' = [size EXCEPT ![p] = size[p] + 1]
      /\ handle' = handle /\ rotation' = rotation /\ made' = made
  BY DEF WriteLine, Write
<1>2. /\ lines \in Seq(Line) /\ Len(lines) = Len(buf[p]) + 1 /\ Len(buf[p]) \in Nat
      /\ \A i \in 1 .. Len(buf[p]) : lines[i] = buf[p][i]
      /\ lines[Len(buf[p]) + 1] = <<p, taken[p]>>
  BY <1>1, LineAppended DEF FileInv
<1> HIDE DEF lines
<1>3. AllFrom(lines, p)
  <2> SUFFICES ASSUME NEW i \in 1 .. Len(lines)
               PROVE  lines[i][1] = p
    BY DEF AllFrom
  <2>1. i \in 1 .. Len(buf[p]) \/ i = Len(buf[p]) + 1
    BY <1>2
  <2> QED  BY <1>2, <2>1 DEF FileInv, OneShare, AllFrom
<1>4. /\ Share(p) \in Nat /\ size[p] \in Nat /\ MaxSize \in Nat
      /\ Share(p) + Len(lines) <= MaxSize /\ Share(p) + Len(lines) <= size[p] + 1
  BY <1>1, <1>2, RoomForOne, ShareType, SharedLogAssumption DEF FileInv
<1>5. SinksTyped /\ << >> \in Seq(Line) /\ Files(file)
  BY DEF FileInv
<1>6. SinksTyped' /\ size'[p] = size[p] + 1 /\ made[p]
  <2>1. buf' \in [Procs -> Seq(Line)]
    BY <1>1, <1>2, <1>5 DEF SinksTyped
  <2>2. size' \in [Procs -> Nat] /\ size'[p] = size[p] + 1
    BY <1>1, <1>4, <1>5 DEF SinksTyped
  <2> QED  BY <1>1, <1>5, <2>1, <2>2 DEF SinksTyped, Works
<1>7. CASE buf' = [buf EXCEPT ![p] = lines] /\ file' = file
  <2>1. buf'[p] = lines /\ Share(p)' = Share(p)
    BY <1>1, <1>5, <1>7 DEF SinksTyped, Share
  <2>2. OneShare(p)'
    BY <1>1, <1>3, <1>4, <1>6, <1>7, <2>1 DEF OneShare, FileInv
  <2>3. ASSUME NEW q \in Procs \ {p}
        PROVE  OneShare(q)'
    <3>1. \A k \in Names : Own(Disk(file', k), q) <= Own(Disk(file, k), q)
      BY <1>5, <1>7, DiskType, OwnType
    <3>2. buf'[q] = buf[q] /\ size'[q] = size[q]
      BY <1>1, <1>5, <1>7 DEF SinksTyped
    <3> QED  BY <1>1, <1>5, <1>7, <3>1, <3>2, OthersShare DEF FileInv
  <2> QED  BY <1>5, <1>6, <1>7, <2>2, <2>3 DEF FileInv
<1>8. CASE buf' = [buf EXCEPT ![p] = << >>] /\ file' = Grown(p, lines)
  <2>1. /\ Files(file')
        /\ \A k \in Names : Own(Disk(file', k), p) <= MaxSize
        /\ Share(p)' <= Share(p) + Len(lines)
        /\ \A q \in Procs \ {p} : \A k \in Names :
             Own(Disk(file', k), q) <= Own(Disk(file, k), q)
    BY <1>1, <1>2, <1>3, <1>4, <1>8, GrownShares
  <2>2. buf'[p] = << >> /\ Len(buf'[p]) = 0 /\ Share(p)' \in Nat
    BY <1>5, <1>6, <1>8, <2>1, DiskType, OwnType DEF SinksTyped, Share
  <2>3. Share(p)' + Len(buf'[p]) <= MaxSize /\ Share(p)' + Len(buf'[p]) <= size'[p]
    BY <1>2, <1>4, <1>6, <2>1, <2>2
  <2>4. OneShare(p)'
    BY <1>1, <1>6, <2>1, <2>2, <2>3, OwnNone DEF OneShare
  <2>5. ASSUME NEW q \in Procs \ {p}
        PROVE  OneShare(q)'
    <3>1. buf'[q] = buf[q] /\ size'[q] = size[q]
      BY <1>1, <1>5, <1>8 DEF SinksTyped
    <3> QED  BY <1>1, <2>1, <3>1, OthersShare DEF FileInv
  <2> QED  BY <1>6, <2>1, <2>4, <2>5 DEF FileInv
<1> QED  BY <1>1, <1>7, <1>8

\* p's file is closed, and its buffer written out or lost.
LEMMA CloseShares ==
  ASSUME FileInv, MadeGrows, NEW p \in Procs,
         file' = Grown(p, buf[p]) \/ file' = file,
         buf' = [buf EXCEPT ![p] = << >>], handle' = [handle EXCEPT ![p] = Closed],
         size' = size, Rotates(p)
  PROVE  FileInv'
<1>1. /\ SinksTyped /\ Files(file) /\ << >> \in Seq(Line) /\ buf[p] \in Seq(Line)
      /\ AllFrom(buf[p], p) /\ Share(p) + Len(buf[p]) <= MaxSize
      /\ \A k \in Names : Own(Disk(file, k), p) <= MaxSize
  BY DEF FileInv, OneShare, SinksTyped
<1>2. /\ Files(file')
      /\ \A k \in Names : Own(Disk(file', k), p) <= MaxSize
      /\ \A q \in Procs \ {p} : \A k \in Names :
           Own(Disk(file', k), q) <= Own(Disk(file, k), q)
  <2>1. CASE file' = Grown(p, buf[p])
    BY <1>1, <2>1, GrownShares
  <2>2. CASE file' = file
    <3>1. \A k, q : Own(Disk(file, k), q) \in Nat
      BY <1>1, DiskType, OwnType
    <3> QED  BY <1>1, <2>2, <3>1
  <2> QED  BY <2>1, <2>2
<1>3. SinksTyped' /\ buf'[p] = << >> /\ handle'[p] = Closed
  <2>1. buf' \in [Procs -> Seq(Line)] /\ buf'[p] = << >>
    BY <1>1 DEF SinksTyped
  <2>2. handle' \in [Procs -> Handles] /\ handle'[p] = Closed
    BY <1>1 DEF SinksTyped, Handles
  <2> QED  BY <1>1, <2>1, <2>2 DEF SinksTyped, Rotates
<1>4. OneShare(p)'
  <2>1. Share(p)' = 0 /\ size'[p] \in Nat
    BY <1>3, NoNames DEF Share, SinksTyped
  <2> QED  BY <1>2, <1>3, <2>1, EmptyShare
<1>5. ASSUME NEW q \in Procs \ {p}
      PROVE  OneShare(q)'
  <2>1. buf'[q] = buf[q] /\ handle'[q] = handle[q] /\ size'[q] = size[q]
    BY <1>1 DEF SinksTyped
  <2>2. rotation'[q] = rotation[q] /\ OneShare(q)
    BY DEF Rotates, FileInv
  <2> QED  BY <1>2, <2>1, <2>2, OthersShare
<1> QED  BY <1>2, <1>3, <1>4, <1>5 DEF FileInv

\* p opens log_filename, to go on with what is in it or to begin anew.
LEMMA OpenShares ==
  ASSUME FileInv, MadeGrows, NEW p \in Procs, buf[p] = << >>,
         NEW t \in {<< >>, Disk(file, 0)}, file' = WithNewest(t),
         handle' = [handle EXCEPT ![p] = 0], size' = [size EXCEPT ![p] = Len(t)],
         buf' = buf, Rotates(p), made'[p]
  PROVE  FileInv'
<1>1. /\ SinksTyped /\ Files(file) /\ OneShare(p)
      /\ \A k, q : Own(Disk(file, k), q) \in Nat
  BY DiskType, OwnType DEF FileInv
<1>2. t \in Seq(Line) /\ Len(t) \in Nat
  <2>1. << >> \in Seq(Line)
    OBVIOUS
  <2>2. Disk(file, 0) \in Seq(Line)
    BY <1>1, DiskType
  <2>3. t \in Seq(Line)
    BY <2>1, <2>2
  <2> QED  BY <2>3
<1>3. /\ Files(file')
      /\ \A k \in Names : Disk(file', k) = IF k = 0 THEN t ELSE Disk(file, k)
  BY <1>1, <1>2, NewestFiles
<1>4. ASSUME NEW q, NEW k \in Names
      PROVE  Own(Disk(file', k), q) <= Own(Disk(file, k), q)
  <2>1. CASE Disk(file', k) = Disk(file, k)
    BY <1>1, <2>1
  <2>2. CASE Disk(file', k) = << >>
    BY <1>1, <2>2, OwnNone
  <2> QED  BY <1>3, <2>1, <2>2
<1>5. /\ SinksTyped' /\ handle'[p] = 0 /\ size'[p] = Len(t) /\ buf'[p] = << >>
  <2>1. handle' \in [Procs -> Handles] /\ handle'[p] = 0
    BY <1>1, NoNames DEF SinksTyped, Handles
  <2>2. size' \in [Procs -> Nat] /\ size'[p] = Len(t)
    BY <1>1, <1>2 DEF SinksTyped
  <2> QED  BY <1>1, <2>1, <2>2 DEF SinksTyped, Rotates
<1>6. OneShare(p)'
  <2>1. \A k \in Names : Own(Disk(file', k), p) <= MaxSize
    <3> SUFFICES ASSUME NEW k \in Names
                 PROVE  Own(Disk(file', k), p) <= MaxSize
      OBVIOUS
    <3>1. Own(Disk(file, k), p) <= MaxSize /\ Own(Disk(file, k), p) \in Nat
      BY <1>1 DEF OneShare
    <3>2. Own(Disk(file', k), p) \in Nat
      BY <1>3, DiskType, OwnType
    <3> QED  BY <1>4, <3>1, <3>2, SharedLogAssumption
  <2>2. Share(p)' <= size'[p] /\ size'[p] \in Nat
    <3>1. Share(p)' = Own(t, p)
      BY <1>3, <1>5, NoNames DEF Share
    <3>2. Own(t, p) <= Len(t)
      BY <1>2, OwnType
    <3> QED  BY <1>2, <1>5, <3>1, <3>2
  <2> QED  BY <1>3, <1>5, <2>1, <2>2, EmptyShare
<1>7. ASSUME NEW q \in Procs \ {p}
      PROVE  OneShare(q)'
  <2>1. buf'[q] = buf[q] /\ handle'[q] = handle[q] /\ size'[q] = size[q]
    BY <1>1 DEF SinksTyped
  <2>2. rotation'[q] = rotation[q] /\ OneShare(q)
    BY DEF Rotates, FileInv
  <2>3. \A k \in Names : Own(Disk(file', k), q) <= Own(Disk(file, k), q)
    BY <1>4
  <2> QED  BY <1>3, <2>1, <2>2, <2>3, OthersShare
<1> QED  BY <1>3, <1>5, <1>6, <1>7 DEF FileInv

\* A step that moves nothing but p's rotation.
LEMMA UnmovedShares ==
  ASSUME FileInv, MadeGrows, NEW p \in Procs, UNCHANGED <<file, handle, size, buf>>,
         Rotates(p), rotation'[p] = rotation[p] \/ rotation[p] # NoRotation
  PROVE  FileInv'
<1>1. SinksTyped' /\ Files(file)'
  BY DEF FileInv, SinksTyped, Rotates
<1>2. ASSUME NEW q \in Procs
      PROVE  OneShare(q)'
  <2>1. OneShare(q) /\ Share(q)' = Share(q)
    BY DEF FileInv, Share
  <2>2. rotation'[q] # NoRotation => buf'[q] = << >>
    BY <2>1 DEF OneShare, Rotates
  <2>3. ~made'[q] => buf'[q] = << >> /\ handle'[q] = Closed
    BY <2>1 DEF OneShare, MadeGrows
  <2> QED  BY <2>1, <2>2, <2>3 DEF OneShare
<1> QED  BY <1>1, <1>2 DEF FileInv

\* Files are renamed under whoever has them open.
LEMMA RenameShares ==
  ASSUME FileInv, MadeGrows, NEW p \in Procs, NEW k \in 1 .. MaxFiles, Rename(p, k)
  PROVE  FileInv'
<1>1. /\ Renames(p, k) /\ k - 1 \in DOMAIN file /\ file' = Shifted(k)
      /\ handle' = [q \in Procs |-> CASE handle[q] = k     -> Unlinked
                                      [] handle[q] = k - 1 -> k
                                      [] OTHER             -> handle[q]]
      /\ rotation' = [rotation EXCEPT ![p] = After(k)]
      /\ size' = size /\ buf' = buf
  BY DEF Rename, Renames
<1>2. /\ SinksTyped /\ Files(file)
      /\ \A j, q : Own(Disk(file, j), q) \in Nat
  BY DiskType, OwnType DEF FileInv
<1>3. /\ Files(file')
      /\ \A j \in Names : Disk(file', j) =
           IF j = k THEN Disk(file, k - 1) ELSE IF j = k - 1 THEN << >> ELSE Disk(file, j)
  BY <1>1, <1>2, ShiftedFiles
<1>4. k \in Names /\ k - 1 \in Names /\ k # k - 1 /\ Unlinked \notin Names /\ Closed \notin Names
      /\ MaxSize \in Nat /\ Closed # Unlinked
  BY NoNames, SharedLogAssumption
<1>5. Rotates(p)
  BY <1>1, <1>2, Phases DEF SinksTyped, Rotates
<1>6. SinksTyped'
  <2>1. handle' \in [Procs -> Handles]
    BY <1>1, <1>2, <1>4 DEF SinksTyped, Handles
  <2> QED  BY <1>1, <1>2, <1>5, <2>1 DEF SinksTyped, Rotates
<1>7. ASSUME NEW q \in Procs
      PROVE  OneShare(q)'
  <2>1. OneShare(q) /\ Share(q) \in Nat /\ Len(buf[q]) \in Nat /\ size[q] \in Nat
    BY ShareType DEF FileInv
  <2>2. \A j \in Names : Own(Disk(file', j), q) <= MaxSize
    <3> SUFFICES ASSUME NEW j \in Names
                 PROVE  Own(Disk(file', j), q) <= MaxSize
      OBVIOUS
    <3>1. CASE j = k
      BY <1>3, <1>4, <2>1, <3>1 DEF OneShare
    <3>2. CASE j = k - 1
      BY <1>3, <1>4, <3>2, OwnNone
    <3>3. CASE j # k /\ j # k - 1
      BY <1>3, <2>1, <3>3 DEF OneShare
    <3> QED  BY <3>1, <3>2, <3>3
  <2>3. Share(q)' \in Nat /\ Share(q)' <= Share(q)
    <3>1. CASE handle[q] = k
      <4>1. handle'[q] = Unlinked
        BY <1>1, <3>1
      <4> QED  BY <1>4, <2>1, <4>1 DEF Share
    <3>2. CASE handle[q] = k - 1
      <4>1. handle'[q] = k
        BY <1>1, <1>4, <3>2
      <4>2. Share(q)' = Own(Disk(file, k - 1), q) /\ Share(q) = Own(Disk(file, k - 1), q)
        BY <1>3, <1>4, <3>2, <4>1 DEF Share
      <4> QED  BY <2>1, <4>2
    <3>3. CASE handle[q] # k /\ handle[q] # k - 1
      <4>1. handle'[q] = handle[q]
        BY <1>1, <3>3
      <4>2. Share(q)' = Share(q)
        BY <1>3, <3>3, <4>1 DEF Share
      <4> QED  BY <2>1, <4>2
    <3> QED  BY <3>1, <3>2, <3>3
  <2>4. Share(q)' + Len(buf'[q]) <= MaxSize /\ Share(q)' + Len(buf'[q]) <= size'[q]
    BY <1>1, <1>4, <2>1, <2>3 DEF OneShare
  <2>5. rotation'[q] # NoRotation => buf'[q] = << >>
    <3>1. rotation[p] # NoRotation
      BY <1>1, Phases DEF Renames, Moving
    <3> QED  BY <1>1, <1>5, <2>1, <3>1 DEF OneShare, Rotates
  <2>6. ~made'[q] => buf'[q] = << >> /\ handle'[q] = Closed
    <3>1. ~made'[q] => ~made[q]
      BY DEF MadeGrows
    <3>2. handle[q] = Closed => handle'[q] = Closed
      BY <1>1, <1>4
    <3> QED  BY <1>1, <2>1, <3>1, <3>2 DEF OneShare
  <2> QED  BY <1>1, <2>1, <2>2, <2>4, <2>5, <2>6 DEF OneShare
<1> QED  BY <1>3, <1>6, <1>7 DEF FileInv

\* A file is removed under whoever has it open.
LEMMA RemoveShares ==
  ASSUME FileInv, MadeGrows, NEW p \in Procs, NEW k \in 1 .. MaxFiles, Remove(p, k)
  PROVE  FileInv'
<1>1. /\ Removes(p, k) /\ file' = Restrict(file, DOMAIN file \ {k})
      /\ handle' = [q \in Procs |-> IF handle[q] = k THEN Unlinked ELSE handle[q]]
      /\ rotation' = [rotation EXCEPT ![p] = Renaming(@)]
      /\ size' = size /\ buf' = buf
  BY DEF Remove, Removes
<1>2. /\ SinksTyped /\ Files(file)
      /\ \A j, q : Own(Disk(file, j), q) \in Nat
  BY DiskType, OwnType DEF FileInv
<1>3. /\ Files(file')
      /\ \A j \in Names : Disk(file', j) = IF j = k THEN << >> ELSE Disk(file, j)
  BY <1>1, <1>2, RemovedFiles
<1>4. /\ k \in Names /\ Unlinked \notin Names /\ Unlinked \in Handles /\ Closed \notin Names
      /\ MaxSize \in Nat /\ Closed # Unlinked
  BY NoNames, SharedLogAssumption DEF Handles
<1>5. Rotates(p) /\ rotation[p] # NoRotation
  BY <1>1, <1>2, RemovalGoesOn DEF SinksTyped, Rotates
<1>6. SinksTyped'
  <2>1. handle' \in [Procs -> Handles]
    BY <1>1, <1>2, <1>4 DEF SinksTyped
  <2> QED  BY <1>1, <1>2, <1>5, <2>1 DEF SinksTyped, Rotates
<1>7. ASSUME NEW q \in Procs
      PROVE  OneShare(q)'
  <2>1. OneShare(q) /\ Share(q) \in Nat /\ Len(buf[q]) \in Nat /\ size[q] \in Nat
    BY ShareType DEF FileInv
  <2>2. ASSUME NEW j \in Names
        PROVE  Own(Disk(file', j), q) <= MaxSize
    <3>1. CASE j = k
      BY <1>3, <1>4, <3>1, OwnNone
    <3>2. CASE j # k
      BY <1>3, <2>1, <3>2 DEF OneShare
    <3> QED  BY <3>1, <3>2
  <2>3. Share(q)' \in Nat /\ Share(q)' <= Share(q)
    <3>1. CASE handle[q] = k
      BY <1>1, <1>4, <2>1, <3>1 DEF Share
    <3>2. CASE handle[q] # k
      <4>1. handle'[q] = handle[q]
        BY <1>1, <3>2
      <4>2. Share(q)' = Share(q)
        BY <1>3, <3>2, <4>1 DEF Share
      <4> QED  BY <2>1, <4>2
    <3> QED  BY <3>1, <3>2
  <2>4. Share(q)' + Len(buf'[q]) <= MaxSize /\ Share(q)' + Len(buf'[q]) <= size'[q]
    BY <1>1, <1>4, <2>1, <2>3 DEF OneShare
  <2>5. rotation'[q] # NoRotation => buf'[q] = << >>
    BY <1>1, <1>5, <2>1 DEF OneShare, Rotates
  <2>6. ~made'[q] => buf'[q] = << >> /\ handle'[q] = Closed
    <3>1. ~made'[q] => ~made[q]
      BY DEF MadeGrows
    <3>2. handle[q] = Closed => handle'[q] = Closed
      BY <1>1, <1>4
    <3> QED  BY <1>1, <2>1, <3>1, <3>2 DEF OneShare
  <2> QED  BY <1>1, <2>1, <2>2, <2>4, <2>5, <2>6 DEF OneShare
<1> QED  BY <1>3, <1>6, <1>7 DEF FileInv

\* Every step keeps the shares.
LEMMA StepShares ==
  ASSUME LogTypeOK, LogSafe, FileInv, [Next]_sharedVars
  PROVE  FileInv'
<1>1. MadeGrows /\ SinksTyped
  BY MadeStays DEF MadeGrows, FileInv
<1>2. ASSUME NEW p \in Procs, UNCHANGED fileVars
      PROVE  FileInv'
  <2>1. Rotates(p) /\ rotation'[p] = rotation[p] /\ UNCHANGED <<file, handle, size, buf>>
    BY <1>1, <1>2 DEF Rotates, SinksTyped, fileVars
  <2> QED  BY <1>1, <2>1, UnmovedShares
<1>3. ASSUME NEW p \in Procs, StartRotation(p)
      PROVE  FileInv'
  <2>1. <<"check", MaxFiles>> \in Rotations
    BY NoNames DEF Rotations, Phase
  <2>2. Rotates(p)
    BY <1>1, <1>3, <2>1 DEF StartRotation, Rotates, SinksTyped
  <2> QED  BY <1>1, <1>3, <2>2, CloseShares DEF StartRotation
<1>4. ASSUME NEW p \in Procs, CloseFile(p) \/ Killed(p)
      PROVE  FileInv'
  <2>1. /\ file' = Grown(p, buf[p]) \/ file' = file
        /\ buf' = [buf EXCEPT ![p] = << >>] /\ handle' = [handle EXCEPT ![p] = Closed]
        /\ size' = size /\ rotation' = rotation
    BY <1>4 DEF CloseFile, Killed
  <2>2. Rotates(p)
    BY <1>1, <2>1 DEF Rotates, SinksTyped
  <2> QED  BY <1>1, <2>1, <2>2, CloseShares
<1>5. ASSUME NEW p \in Procs, Reopen(p), buf' = buf, rotation[p] # NoRotation, Works(p),
             made' = made
      PROVE  FileInv'
  <2>1. buf[p] = << >> /\ made'[p]
    BY <1>5 DEF FileInv, OneShare, Works
  <2>2. NoRotation \in Rotations
    BY NoNames DEF NoRotation, Rotations, Phase
  <2>3. Rotates(p)
    BY <1>1, <1>5, <2>2 DEF Reopen, Rotates, SinksTyped
  <2>4. /\ << >> \in {<< >>, Disk(file, 0)} /\ file' = WithNewest(<< >>)
        /\ handle' = [handle EXCEPT ![p] = 0] /\ size' = [size EXCEPT ![p] = Len(<< >>)]
    BY <1>5 DEF Reopen
  <2> QED  BY <1>1, <1>5, <2>1, <2>3, <2>4, OpenShares
<1>6. ASSUME NEW p \in Procs, EndRotation(p)
      PROVE  FileInv'
  <2>1. Reopen(p) /\ buf' = buf /\ rotation[p] = <<"reopen", 0>> /\ Works(p) /\ made' = made
    BY <1>6 DEF EndRotation, AtFile, logVars
  <2> QED  BY <1>5, <2>1 DEF NoRotation
<1>7. ASSUME NEW p \in Procs, NEW k \in 1 .. MaxFiles, Check(p, k) \/ TryAgain(p, k)
      PROVE  FileInv'
  <2>1. /\ rotation[p] \in {<<"check", k>>, <<"rename", k>>} /\ UNCHANGED <<file, handle, size, buf>>
        /\ \E r \in {<<"remove", k>>, <<"remove again", k>>, After(k)} :
             rotation' = [rotation EXCEPT ![p] = r]
    BY <1>7 DEF Check, TryAgain
  <2>2. <<"remove", k>> \in Rotations /\ <<"remove again", k>> \in Rotations /\ After(k) \in Rotations
    BY Phases DEF Phase
  <2>3. Rotates(p)
    BY <1>1, <2>1, <2>2 DEF Rotates, SinksTyped
  <2>4. rotation[p] # NoRotation
    <3>1. <<"check", k>> # NoRotation
      BY DEF NoRotation
    <3> QED  BY <2>1, <3>1, Phases DEF Moving
  <2> QED  BY <1>1, <2>1, <2>3, <2>4, UnmovedShares
<1>8. ASSUME NEW p \in Procs, NEW k \in 1 .. MaxFiles, RenameFails(p, k)
      PROVE  FileInv'
  <2>1. Reopen(p) /\ buf' = buf /\ rotation[p] = <<"rename again", k>> /\ Works(p) /\ made' = made
    BY <1>8 DEF RenameFails, WriteThrows
  <2>2. rotation[p] # NoRotation
    BY <2>1, Phases DEF Moving
  <2> QED  BY <1>5, <2>1, <2>2
<1>9. ASSUME NEW p \in Procs, Step(p)
      PROVE  FileInv'
  <2>1. CASE UNCHANGED fileVars
    BY <1>2, <2>1
  <2>2. CASE WriteLine(p)
    BY <1>1, <2>2, WriteLineShares
  <2>3. CASE WriteFails(p) \/ Ends(p)
    BY <2>1, <2>3 DEF WriteFails, Ends
  <2>4. ASSUME NEW k \in 1 .. MaxFiles, Remove(p, k) \/ Rename(p, k)
        PROVE  FileInv'
    BY <1>1, <2>4, RemoveShares, RenameShares
  <2> QED  BY <1>3, <1>4, <1>6, <1>7, <1>8, <1>9, <2>1, <2>2, <2>3, <2>4 DEF Step
<1>10. ASSUME NEW p \in Procs, CallFiltered(p) \/ Call(p), Open(p)
       PROVE  FileInv'
  <2>1. CASE made[p]
    BY <1>2, <1>10, <2>1 DEF Open
  <2>2. CASE ~made[p]
    <3>1. made'[p] /\ buf[p] = << >>
      BY <1>10, <2>2 DEF CallFiltered, Call, LogTypeOK, FileInv, OneShare
    <3>2. OnDisk(0) = Disk(file, 0)
      BY DEF OnDisk, Disk
    <3>3. /\ file' = WithNewest(Disk(file, 0)) /\ handle' = [handle EXCEPT ![p] = 0]
          /\ size' = [size EXCEPT ![p] = Len(Disk(file, 0))]
          /\ buf' = buf /\ rotation' = rotation
      BY <1>10, <2>2, <3>2 DEF Open
    <3>4. Rotates(p)
      BY <1>1, <3>3 DEF Rotates, SinksTyped
    <3> QED  BY <1>1, <3>1, <3>3, <3>4, OpenShares
  <2> QED  BY <2>1, <2>2
<1>11. CASE UNCHANGED sharedVars
  <2>1. CASE Procs = {}
    BY <1>1, <1>11, <2>1 DEF FileInv, SinksTyped, sharedVars, fileVars
  <2>2. CASE Procs # {}
    BY <1>2, <1>11, <2>2 DEF sharedVars
  <2> QED  BY <2>1, <2>2
<1> QED  BY <1>2, <1>4, <1>9, <1>10, <1>11 DEF Next

LEMMA InitShares == Init => FileInv
<1> SUFFICES ASSUME Init
             PROVE  FileInv
  OBVIOUS
<1>1. << >> \in Seq(Line) /\ Len(<< >>) = 0 /\ DOMAIN << >> = {}
  OBVIOUS
<1>2. Files(file) /\ \A k : Disk(file, k) = << >>
  BY <1>1 DEF Init, Files, Disk
<1>3. SinksTyped
  <2>1. NoRotation \in Rotations /\ Closed \in Handles
    BY NoNames DEF NoRotation, Rotations, Phase, Handles
  <2> QED  BY <1>1, <2>1 DEF Init, SinksTyped
<1>4. ASSUME NEW p \in Procs
      PROVE  OneShare(p)
  <2>1. /\ buf[p] = << >> /\ handle[p] = Closed /\ size[p] = 0 /\ rotation[p] = NoRotation
    BY DEF Init
  <2>2. Share(p) = 0 /\ Len(buf[p]) = 0 /\ AllFrom(buf[p], p)
    BY <1>1, <2>1, NoNames, OwnNone DEF Share
  <2>3. \A k : Own(Disk(file, k), p) = 0
    BY <1>2, OwnNone
  <2> QED  BY <2>1, <2>2, <2>3, SharedLogAssumption DEF OneShare
<1> QED  BY <1>2, <1>3, <1>4 DEF FileInv

\* The invariant of the loggers and of the files they share.
LEMMA SharesForever == Spec => [](LogTypeOK /\ LogSafe /\ FileInv)
<1>1. Spec => [](LogTypeOK /\ LogSafe)
  BY SharedImplementsLogger, SafeForever, PTL DEF ImplementsLogger
<1>2. LogTypeOK /\ LogSafe /\ FileInv /\ [Next]_sharedVars => FileInv'
  BY StepShares
<1> QED  BY <1>1, <1>2, InitShares, PTL DEF Spec

\* Every variable of the shared log has its type at all times, and a program
\* that has not logged has no file open.
THEOREM SharedTypeCorrect == Spec => []TypeOK
<1>1. LogTypeOK /\ LogSafe /\ FileInv => TypeOK
  BY TypeParts DEF FileInv, OneShare
<1> QED  BY <1>1, SharesForever, PTL

\* No file outgrows the sum of what its programs may write, for any number of
\* programs, and whatever they rename, truncate or lose.  logger.cpp:9.
THEOREM SharedFilesStaySmall == Spec => []FilesStaySmall
<1>1. FileInv => FilesStaySmall
  <2> SUFFICES ASSUME FileInv, NEW k \in Names
               PROVE  Len(OnDisk(k)) <= Cardinality(Procs) * MaxSize
    BY DEF FilesStaySmall
  <2>1. OnDisk(k) = Disk(file, k)
    BY DEF OnDisk, Disk
  <2>2. Disk(file, k) \in Seq(Line) /\ MaxSize \in Nat
    BY DiskType, SharedLogAssumption DEF FileInv
  <2>3. \A p \in Procs : Own(Disk(file, k), p) <= MaxSize
    BY DEF FileInv, OneShare
  <2> QED  BY <2>1, <2>2, <2>3, AllOwn
<1> QED  BY <1>1, SharesForever, PTL

-----------------------------------------------------------------------------
(* In which order the lines of a process are.                              *)

\* Line n of q is at place i of file k; it is at place i of q's buffer.
InFile(f, q, k, i, n) == i \in 1 .. Len(Disk(f, k)) /\ Disk(f, k)[i] = <<q, n>>
InBuf(q, i, n)        == i \in 1 .. Len(buf[q]) /\ buf[q][i] = <<q, n>>

\* The last line the file sink of q has had, until q is killed.
LastLine(q) == Written(q) + (IF todo[q] = <<"console">> THEN 1 ELSE 0)

\* Older files have older lines.
FilesOrdered(q) ==
  \A k, m \in Names : \A i, j, n, l \in Nat :
    InFile(file, q, k, i, n) /\ InFile(file, q, m, j, l) /\ (k > m \/ (k = m /\ i < j))
      => n < l

\* What is in the buffer is newer than what is in the files.
BufOrdered(q) ==
  \A j, l \in Nat : InBuf(q, j, l) =>
    /\ \A i, n \in Nat : InBuf(q, i, n) /\ i < j => n < l
    /\ \A k \in Names : \A i, n \in Nat : InFile(file, q, k, i, n) => n < l

\* There is nothing of q in files that are newer than the one it has open, and
\* nothing newer than the last line.
NoneNewer(q) ==
  /\ handle[q] \in Names =>
       \A k \in Names : \A i, n \in Nat : InFile(file, q, k, i, n) => k >= handle[q]
  /\ proc[q] # "dead" =>
       /\ \A k \in Names : \A i, n \in Nat : InFile(file, q, k, i, n) => n <= LastLine(q)
       /\ \A i, n \in Nat : InBuf(q, i, n) => n <= LastLine(q)

OneOrder(q) == FilesOrdered(q) /\ BufOrdered(q) /\ NoneNewer(q)
OrderInv    == \A q \in Procs : OneOrder(q)

\* A killed process stays dead, and a line is never taken back from the sinks.
LastGrows == \A q \in Procs : proc'[q] # "dead" => proc[q] # "dead" /\ LastLine(q)' >= LastLine(q)

LEMMA LastType ==
  ASSUME LogTypeOK, NEW q \in Procs
  PROVE  LastLine(q) \in Nat
<1>1. Len(out[q]["console"]) \in Nat
  BY TypeOfOne
<1>2. CASE todo[q] = <<"console">>
  BY <1>1, <1>2 DEF LastLine, Written
<1>3. CASE todo[q] # <<"console">>
  <2>1. LastLine(q) = Written(q) + 0
    BY <1>3 DEF LastLine
  <2> QED  BY <1>1, <2>1 DEF Written
<1> QED  BY <1>2, <1>3

LEMMA LastTypeNext ==
  (LogTypeOK => \A q \in Procs : LastLine(q) \in Nat)'
<1>1. LogTypeOK => \A q \in Procs : LastLine(q) \in Nat
  BY LastType
<1> QED  BY <1>1, PTL

\* A sink is through with the line.
LEMMA LastOfSinks ==
  ASSUME LogTypeOK, LogSafe, NEW p \in Procs, WriteLine(p) \/ WriteThrows(p) \/ Write(p, "console")
  PROVE  /\ proc' = proc
         /\ \A q \in Procs \ {p} : LastLine(q)' = LastLine(q)
         /\ LastLine(p)' >= LastLine(p)
         /\ WriteLine(p) => taken[p] = LastLine(p) + 1 /\ LastLine(p)' = LastLine(p) + 1
<1>1. /\ todo[p] # << >> /\ Works(p) /\ NextSink(p) /\ proc' = proc
      /\ \/ Head(todo[p]) = "console" /\ out' = [out EXCEPT ![p]["console"] = Append(@, taken[p])]
         \/ Head(todo[p]) = "file" /\ out' = [out EXCEPT ![p]["file"] = Append(@, taken[p])]
         \/ Head(todo[p]) = "file" /\ out' = out
      /\ WriteLine(p) => Head(todo[p]) = "file"
  BY DEF WriteLine, WriteThrows, Write
<1>2. /\ todo[p] \in {sinksVector, <<"console">>} /\ out \in [Procs -> [SinkNames -> Seq(Nat)]]
      /\ taken[p] \in Nat /\ out[p]["console"] \in Seq(Nat) /\ Len(out[p]["console"]) \in Nat
      /\ todo \in [Procs -> {sinksVector, <<"console">>, << >>}]
  BY <1>1, TypeOfOne DEF LogTypeOK
<1>3. taken[p] = Written(p) + 1
  BY <1>1 DEF LogSafe, LogInv, Lines, Works
<1>4. ASSUME NEW q \in Procs \ {p}
      PROVE  LastLine(q)' = LastLine(q)
  <2>1. out'[q] = out[q] /\ todo'[q] = todo[q]
    BY <1>1, <1>2 DEF NextSink
  <2> QED  BY <2>1 DEF LastLine, Written
<1>5. CASE Head(todo[p]) = "file"
  <2>1. todo[p] = sinksVector /\ todo'[p] = <<"console">>
    BY <1>1, <1>2, <1>5, SinkFacts DEF NextSink
  <2>2. out'[p]["console"] = out[p]["console"]
    <3>1. CASE out' = [out EXCEPT ![p]["file"] = Append(@, taken[p])]
      <4>1. out'[p] = [out[p] EXCEPT !["file"] = Append(out[p]["file"], taken[p])]
        BY <1>2, <3>1
      <4> QED  BY <1>2, <4>1 DEF SinkNames
    <3> QED  BY <1>1, <1>5, <3>1
  <2>3. LastLine(p) = Written(p) + 0 /\ LastLine(p)' = Written(p) + 1 /\ Written(p) \in Nat
    BY <1>2, <2>1, <2>2, SinkFacts DEF LastLine, Written
  <2> QED  BY <1>1, <1>3, <1>4, <2>3
<1>6. CASE Head(todo[p]) = "console"
  <2>1. todo[p] = <<"console">> /\ todo'[p] = << >>
    BY <1>1, <1>2, <1>6, SinkFacts DEF NextSink
  <2>2. Append(out[p]["console"], taken[p]) \in Seq(Nat)
        /\ Len(Append(out[p]["console"], taken[p])) = Len(out[p]["console"]) + 1
    BY <1>2, AppendFacts
  <2>3. out'[p]["console"] = Append(out[p]["console"], taken[p])
    BY <1>1, <1>2, <1>6 DEF SinkNames
  <2>4. LastLine(p) = Written(p) + 1 /\ LastLine(p)' = Written(p) + 1 + 0 /\ Written(p) \in Nat
    BY <1>2, <2>1, <2>2, <2>3, SinkFacts DEF LastLine, Written
  <2> QED  BY <1>1, <1>4, <1>6, <2>4
<1> QED  BY <1>1, <1>5, <1>6

LEMMA LastStays ==
  ASSUME LogTypeOK, LogSafe, [Next]_sharedVars
  PROVE  LastGrows
<1>0. \A q \in Procs : LastLine(q) \in Nat
  BY LastType
<1>1. ASSUME UNCHANGED <<out, todo>>, \A q \in Procs : proc[q] = "dead" => proc'[q] = "dead"
      PROVE  LastGrows
  <2>1. \A q \in Procs : LastLine(q)' = LastLine(q)
    BY <1>1 DEF LastLine, Written
  <2> QED  BY <1>0, <1>1, <2>1 DEF LastGrows
<1>2. ASSUME NEW p \in Procs, WriteLine(p) \/ WriteThrows(p) \/ Write(p, "console")
      PROVE  LastGrows
  <2>1. /\ proc' = proc /\ \A q \in Procs \ {p} : LastLine(q)' = LastLine(q)
        /\ LastLine(p)' >= LastLine(p) /\ proc[p] # "dead"
    BY <1>2, LastOfSinks DEF WriteLine, WriteThrows, Write, Works
  <2> QED  BY <1>0, <2>1 DEF LastGrows
<1>3. ASSUME NEW p \in Procs, Take(p)
      PROVE  LastGrows
  <2>1. todo' = [todo EXCEPT ![p] = sinksVector] /\ todo[p] = << >> /\ UNCHANGED <<proc, out>>
    BY <1>3 DEF Take
  <2>2. \A q \in Procs : todo'[q] = <<"console">> <=> todo[q] = <<"console">>
    BY <2>1, SinkFacts DEF LogTypeOK
  <2>3. \A q \in Procs : LastLine(q)' = LastLine(q)
    BY <2>1, <2>2 DEF LastLine, Written
  <2> QED  BY <1>0, <2>1, <2>3 DEF LastGrows
<1>4. ASSUME NEW p \in Procs, Post(p) \/ PostTerminate(p) \/ Ends(p)
                                \/ CallFiltered(p) \/ Call(p) \/ CallThrows(p) \/ Exits(p)
      PROVE  LastGrows
  <2>1. UNCHANGED <<out, todo>>
    BY <1>4 DEF Post, PostTerminate, Ends, Terminate, CallFiltered, Call, CallThrows, Exits
  <2>2. \A q \in Procs : proc[q] = "dead" => proc'[q] = "dead"
    BY <1>4 DEF Post, PostTerminate, Ends, Terminate, CallFiltered, Call, CallThrows, Exits,
                LogTypeOK
  <2> QED  BY <1>1, <2>1, <2>2
<1>5. ASSUME NEW p \in Procs, Killed(p)
      PROVE  LastGrows
  <2>1. ASSUME NEW q \in Procs, proc'[q] # "dead"
        PROVE  proc[q] # "dead" /\ LastLine(q)' >= LastLine(q)
    <3>1. q # p /\ proc'[q] = proc[q] /\ out'[q] = out[q] /\ todo'[q] = todo[q]
      BY <1>5, <2>1 DEF Killed, Kill, LogTypeOK
    <3>2. LastLine(q)' = LastLine(q)
      BY <3>1 DEF LastLine, Written
    <3> QED  BY <1>0, <2>1, <3>1, <3>2
  <2> QED  BY <2>1 DEF LastGrows
<1>6. ASSUME UNCHANGED logVars
      PROVE  LastGrows
  BY <1>1, <1>6 DEF logVars
<1>7. ASSUME NEW p \in Procs, Step(p)
      PROVE  LastGrows
  <2>1. ASSUME NEW k \in 1 .. MaxFiles,
               \/ Check(p, k) \/ Remove(p, k) \/ Rename(p, k)
               \/ TryAgain(p, k) \/ RenameFails(p, k)
        PROVE  LastGrows
    BY <1>2, <1>6, <2>1, OnlyFiles DEF RenameFails
  <2>2. CASE WriteFails(p) \/ StartRotation(p) \/ EndRotation(p) \/ CloseFile(p)
    BY <1>2, <1>6, <2>2 DEF WriteFails, StartRotation, EndRotation, CloseFile
  <2> QED  BY <1>2, <1>3, <1>4, <1>7, <2>1, <2>2 DEF Step
<1>8. CASE UNCHANGED sharedVars
  BY <1>6, <1>8 DEF sharedVars
<1> QED  BY <1>4, <1>5, <1>7, <1>8 DEF Next

\* A line is in its place, with its number.
LEMMA InFileType ==
  ASSUME FileInv, NEW q \in Procs
  PROVE  /\ \A k, i, n : InFile(file, q, k, i, n) => i \in Nat /\ n \in Nat
         /\ \A i, n : InBuf(q, i, n) => i \in Nat /\ n \in Nat
<1>1. \A k : Disk(file, k) \in Seq(Line)
  BY DiskType DEF FileInv
<1>2. ASSUME NEW k, NEW i, NEW n, InFile(file, q, k, i, n)
      PROVE  i \in Nat /\ n \in Nat
  <2>1. Disk(file, k) \in Seq(Line) /\ i \in 1 .. Len(Disk(file, k)) /\ Disk(file, k)[i] = <<q, n>>
    BY <1>1, <1>2 DEF InFile
  <2>2. Disk(file, k)[i] \in Line
    BY <2>1
  <2> QED  BY <2>1, <2>2 DEF Line
<1>3. ASSUME NEW i, NEW n, InBuf(q, i, n)
      PROVE  i \in Nat /\ n \in Nat
  <2>1. buf[q] \in Seq(Line) /\ i \in 1 .. Len(buf[q]) /\ buf[q][i] = <<q, n>>
    BY <1>3 DEF InBuf, FileInv, SinksTyped
  <2>2. buf[q][i] \in Line
    BY <2>1
  <2> QED  BY <2>1, <2>2 DEF Line
<1> QED  BY <1>2, <1>3

\* A step by which q gets no new lines and no other file, except for a newest one.
LEMMA OrderKept ==
  ASSUME LogTypeOK, LastGrows, NEW q \in Procs, OneOrder(q), LastLine(q)' \in Nat,
         \A k \in Names : \A i, n \in Nat : InFile(file', q, k, i, n) => InFile(file, q, k, i, n),
         \A i, n \in Nat : InBuf(q, i, n)' => InBuf(q, i, n),
         handle'[q] = handle[q] \/ handle'[q] = 0 \/ handle'[q] \notin Names
  PROVE  OneOrder(q)'
<1>1. FilesOrdered(q)'
  BY DEF OneOrder, FilesOrdered
<1>2. BufOrdered(q)'
  BY DEF OneOrder, BufOrdered
<1>3. ASSUME handle'[q] \in Names, NEW k \in Names, NEW i \in Nat, NEW n \in Nat,
             InFile(file', q, k, i, n)
      PROVE  k >= handle'[q]
  <2>1. CASE handle'[q] = handle[q]
    BY <1>3, <2>1 DEF OneOrder, NoneNewer
  <2>2. CASE handle'[q] = 0
    BY <2>2 DEF Names
  <2> QED  BY <1>3, <2>1, <2>2
<1>4. ASSUME proc'[q] # "dead"
      PROVE  /\ \A k \in Names : \A i, n \in Nat : InFile(file', q, k, i, n) => n <= LastLine(q)'
             /\ \A i, n \in Nat : InBuf(q, i, n)' => n <= LastLine(q)'
  <2>1. proc[q] # "dead" /\ LastLine(q)' >= LastLine(q) /\ LastLine(q) \in Nat
    BY <1>4, LastType DEF LastGrows
  <2>2. /\ \A k \in Names : \A i, n \in Nat : InFile(file', q, k, i, n) => n <= LastLine(q)
        /\ \A i, n \in Nat : InBuf(q, i, n)' => n <= LastLine(q)
    BY <2>1 DEF OneOrder, NoneNewer
  <2> QED  BY <2>1, <2>2
<1>5. NoneNewer(q)'
  BY <1>3, <1>4 DEF NoneNewer
<1> QED  BY <1>1, <1>2, <1>5 DEF OneOrder

\* Where lines are when p's file has grown.
LEMMA GrownLines ==
  ASSUME FileInv, NEW p \in Procs, NEW t \in Seq(Line), AllFrom(t, p), file' = Grown(p, t),
         NEW q \in Procs, NEW k \in Names, NEW i \in Nat, NEW n \in Nat,
         InFile(file', q, k, i, n)
  PROVE  \/ InFile(file, q, k, i, n)
         \/ /\ q = p /\ k = handle[p]
            /\ \A j, l \in Nat : InFile(file, q, k, j, l) => j < i
            /\ i - Len(Disk(file, k)) \in 1 .. Len(t)
            /\ t[i - Len(Disk(file, k))] = <<p, n>>
<1>1. /\ Disk(file, k) \in Seq(Line)
      /\ Disk(file', k) = IF k = handle[p] /\ k \in DOMAIN file
                            THEN Disk(file, k) \o t ELSE Disk(file, k)
  BY GrownFiles, DiskType DEF FileInv
<1>2. CASE Disk(file', k) = Disk(file, k)
  BY <1>2 DEF InFile
<1>3. CASE k = handle[p] /\ Disk(file', k) = Disk(file, k) \o t
  <2> DEFINE s == Disk(file, k)
             m == i - Len(s)
  <2>1. /\ s \in Seq(Line) /\ i \in 1 .. Len(s \o t) /\ (s \o t)[i] = <<q, n>>
        /\ \A j, l \in Nat : InFile(file, q, k, j, l) => j \in 1 .. Len(s)
        /\ i \in 1 .. Len(s) /\ s[i] = <<q, n>> => InFile(file, q, k, i, n)
    BY <1>1, <1>3 DEF InFile
  <2> HIDE DEF s
  <2>2. /\ Len(s) \in Nat /\ Len(t) \in Nat /\ Len(s \o t) = Len(s) + Len(t)
        /\ \A j \in 1 .. Len(s) : (s \o t)[j] = s[j]
        /\ \A j \in 1 .. Len(t) : (s \o t)[Len(s) + j] = t[j]
    BY <2>1
  <2>3. CASE i \in 1 .. Len(s)
    BY <2>1, <2>2, <2>3
  <2>4. CASE i \notin 1 .. Len(s)
    <3>1. m \in 1 .. Len(t) /\ Len(s) + m = i /\ \A j \in 1 .. Len(s) : j < i
      BY <2>1, <2>2, <2>4
    <3>2. t[m] = <<q, n>>
      BY <2>1, <2>2, <3>1
    <3>3. q = p
      <4>1. t[m][1] = p
        BY <3>1 DEF AllFrom
      <4> QED  BY <3>2, <4>1
    <3> QED  BY <1>3, <2>1, <3>1, <3>2, <3>3 DEF s
  <2> QED  BY <2>3, <2>4
<1> QED  BY <1>1, <1>2, <1>3

\* p's new lines are in the order of their numbers and newer than its others.
LEMMA GrownOrder ==
  ASSUME LogTypeOK, FileInv, LastGrows, NEW p \in Procs, OneOrder(p), LastLine(p)' \in Nat,
         NEW t \in Seq(Line), AllFrom(t, p), file' = Grown(p, t), buf'[p] = << >>,
         handle'[p] = handle[p] \/ handle'[p] \notin Names,
         \A i, j \in 1 .. Len(t) : i < j => t[i][2] < t[j][2],
         \A j \in 1 .. Len(t) :
           /\ \A k \in Names : \A i, n \in Nat : InFile(file, p, k, i, n) => n < t[j][2]
           /\ proc'[p] # "dead" => t[j][2] <= LastLine(p)'
  PROVE  OneOrder(p)'
<1>0. \A j \in 1 .. Len(t) : t[j][2] \in Nat
  BY DEF Line
<1>1. \A i, n : ~InBuf(p, i, n)'
  BY DEF InBuf
<1>2. Len(t) \in Nat /\ \A k : Len(Disk(file, k)) \in Nat
  BY DiskType DEF FileInv
<1> DEFINE New(k, i, n) ==
      /\ k = handle[p] /\ \A j, l \in Nat : InFile(file, p, k, j, l) => j < i
      /\ i - Len(Disk(file, k)) \in 1 .. Len(t) /\ t[i - Len(Disk(file, k))] = <<p, n>>
<1>3. \A k \in Names : \A i, n \in Nat :
        InFile(file', p, k, i, n) => InFile(file, p, k, i, n) \/ New(k, i, n)
  BY GrownLines
<1>4. \A k \in Names : \A i, n \in Nat : New(k, i, n) =>
        /\ k = handle[p] /\ n = t[i - Len(Disk(file, k))][2]
        /\ i - Len(Disk(file, k)) \in 1 .. Len(t)
  OBVIOUS
<1>5. FilesOrdered(p)'
  <2> SUFFICES ASSUME NEW k \in Names, NEW m \in Names, NEW i \in Nat, NEW j \in Nat,
                      NEW n \in Nat, NEW l \in Nat,
                      InFile(file', p, k, i, n), InFile(file', p, m, j, l),
                      k > m \/ (k = m /\ i < j)
               PROVE  n < l
    BY DEF FilesOrdered
  <2>1. CASE InFile(file, p, k, i, n) /\ InFile(file, p, m, j, l)
    BY <2>1 DEF OneOrder, FilesOrdered
  <2>2. CASE InFile(file, p, k, i, n) /\ New(m, j, l)
    BY <1>4, <2>2
  <2>3. CASE New(k, i, n) /\ InFile(file, p, m, j, l)
    <3>1. k = handle[p] /\ m >= k /\ (j < i \/ m # k)
      BY <2>3 DEF OneOrder, NoneNewer
    <3>2. m >= k
      BY <2>3 DEF OneOrder, NoneNewer
    <3>3. m = k => j < i
      BY <2>3
    <3> QED  BY <3>2, <3>3 DEF Names
  <2>4. CASE New(k, i, n) /\ New(m, j, l)
    <3> DEFINE a == i - Len(Disk(file, k))
               b == j - Len(Disk(file, k))
    <3>1. k = m /\ a \in 1 .. Len(t) /\ b \in 1 .. Len(t) /\ n = t[a][2] /\ l = t[b][2]
      BY <1>4, <2>4
    <3>2. k = handle[p] /\ m = handle[p] /\ i < j
      BY <3>1, <2>4 DEF Names
    <3>3. a < b
      BY <1>2, <3>2
    <3> HIDE DEF a, b, New
    <3> QED  BY <3>1, <3>3
  <2> HIDE DEF New
  <2> QED  BY <1>3, <2>1, <2>2, <2>3, <2>4
<1>6. BufOrdered(p)'
  BY <1>1 DEF BufOrdered
<1>7. ASSUME handle'[p] \in Names, NEW k \in Names, NEW i \in Nat, NEW n \in Nat,
             InFile(file', p, k, i, n)
      PROVE  k >= handle'[p]
  <2>1. CASE InFile(file, p, k, i, n)
    BY <1>7, <2>1 DEF OneOrder, NoneNewer
  <2>2. CASE New(k, i, n)
    BY <1>7, <2>2 DEF Names
  <2> HIDE DEF New
  <2> QED  BY <1>3, <1>7, <2>1, <2>2
<1>8. ASSUME proc'[p] # "dead", NEW k \in Names, NEW i \in Nat, NEW n \in Nat,
             InFile(file', p, k, i, n)
      PROVE  n <= LastLine(p)'
  <2>1. CASE InFile(file, p, k, i, n)
    <3>1. proc[p] # "dead" /\ LastLine(p)' >= LastLine(p) /\ LastLine(p) \in Nat
      BY <1>8, LastType DEF LastGrows
    <3>2. n <= LastLine(p)
      BY <2>1, <3>1 DEF OneOrder, NoneNewer
    <3> QED  BY <3>1, <3>2
  <2>2. CASE New(k, i, n)
    BY <1>4, <1>8, <2>2
  <2> HIDE DEF New
  <2> QED  BY <1>3, <1>8, <2>1, <2>2
<1>9. NoneNewer(p)'
  BY <1>1, <1>7, <1>8 DEF NoneNewer
<1> QED  BY <1>5, <1>6, <1>9 DEF OneOrder

\* Every line of q has an entry in its order.
LEMMA Placed ==
  ASSUME FileInv, NEW q \in Procs
  PROVE  /\ \A i \in 1 .. Len(buf[q]) :
              i \in Nat /\ buf[q][i][2] \in Nat /\ InBuf(q, i, buf[q][i][2])
         /\ \A k : \A i \in OwnLines(Disk(file, k), q) :
              i \in Nat /\ Disk(file, k)[i][2] \in Nat
              /\ InFile(file, q, k, i, Disk(file, k)[i][2])
<1>1. /\ buf[q] \in Seq(Line) /\ AllFrom(buf[q], q)
      /\ \A k : Disk(file, k) \in Seq(Line)
  BY DiskType DEF FileInv, OneShare, SinksTyped
<1>2. ASSUME NEW i \in 1 .. Len(buf[q])
      PROVE  i \in Nat /\ buf[q][i][2] \in Nat /\ InBuf(q, i, buf[q][i][2])
  <2>1. buf[q][i] \in Line /\ buf[q][i][1] = q /\ i \in Nat
    BY <1>1 DEF AllFrom
  <2> QED  BY <2>1 DEF Line, InBuf
<1>3. ASSUME NEW k, NEW i \in OwnLines(Disk(file, k), q)
      PROVE  /\ i \in Nat /\ Disk(file, k)[i][2] \in Nat
             /\ InFile(file, q, k, i, Disk(file, k)[i][2])
  <2>1. i \in 1 .. Len(Disk(file, k)) /\ Disk(file, k)[i][1] = q /\ i \in Nat
    BY <1>1 DEF OwnLines
  <2>2. Disk(file, k)[i] \in Line
    BY <1>1, <2>1
  <2> QED  BY <2>1, <2>2 DEF Line, InFile
<1> QED  BY <1>2, <1>3

\* The sink has a new line for the file.
LEMMA WriteLineOrder ==
  ASSUME LogTypeOK, LogSafe, FileInv, LastGrows, NEW p \in Procs, OneOrder(p),
         LastLine(p)' \in Nat, WriteLine(p)
  PROVE  OneOrder(p)'
<1> DEFINE lines == Append(buf[p], <<p, taken[p]>>)
           n0    == Len(buf[p])
<1>1. /\ Works(p) /\ todo[p] # << >> /\ handle' = handle /\ SinksTyped
      /\ \/ buf' = [buf EXCEPT ![p] = lines] /\ file' = file
         \/ buf' = [buf EXCEPT ![p] = << >>] /\ file' = Grown(p, lines)
  BY DEF WriteLine, Write, FileInv
<1>2. /\ lines \in Seq(Line) /\ n0 \in Nat /\ Len(lines) = n0 + 1
      /\ \A i \in 1 .. n0 : lines[i] = buf[p][i]
      /\ lines[n0 + 1] = <<p, taken[p]>>
  BY <1>1, LineAppended
<1>3. /\ taken[p] = LastLine(p) + 1 /\ LastLine(p)' = LastLine(p) + 1 /\ LastLine(p) \in Nat
      /\ proc[p] # "dead" /\ proc' = proc
  BY <1>1, LastOfSinks, LastType DEF Works
<1>4. /\ \A k \in Names : \A i, n \in Nat : InFile(file, p, k, i, n) => n <= LastLine(p)
      /\ \A i, n \in Nat : InBuf(p, i, n) => n <= LastLine(p)
  BY <1>3 DEF OneOrder, NoneNewer
<1> HIDE DEF lines, n0
<1>5. \A i \in 1 .. n0 : /\ i \in Nat /\ lines[i][2] \in Nat /\ InBuf(p, i, lines[i][2])
                         /\ lines[i][1] = p
  <2>1. \A i \in 1 .. n0 : /\ i \in Nat /\ buf[p][i][2] \in Nat /\ InBuf(p, i, buf[p][i][2])
                           /\ buf[p][i][1] = p
    BY Placed DEF n0, FileInv, OneShare, AllFrom
  <2> QED  BY <1>2, <2>1
<1>6. \A i \in 1 .. n0 + 1 : i \in 1 .. n0 \/ i = n0 + 1
  BY <1>2
<1>7. CASE buf' = [buf EXCEPT ![p] = lines] /\ file' = file
  <2>1. buf'[p] = lines
    BY <1>1, <1>7 DEF SinksTyped
  <2>2. ASSUME NEW i \in Nat, NEW n \in Nat, InBuf(p, i, n)'
        PROVE  InBuf(p, i, n) \/ (i = n0 + 1 /\ n = LastLine(p) + 1)
    <3>1. i \in 1 .. n0 + 1 /\ lines[i] = <<p, n>>
      BY <1>2, <2>1, <2>2 DEF InBuf
    <3>2. CASE i \in 1 .. n0
      <4>1. n = lines[i][2]
        BY <3>1
      <4> QED  BY <1>5, <3>2, <4>1
    <3>3. CASE i = n0 + 1
      <4>1. <<p, n>> = <<p, taken[p]>>
        BY <1>2, <3>1, <3>3
      <4> QED  BY <1>3, <3>3, <4>1
    <3> QED  BY <1>6, <3>1, <3>2, <3>3
  <2>3. \A i, n \in Nat : InBuf(p, i, n) => i <= n0
    BY <1>2 DEF InBuf, n0
  <2>4. BufOrdered(p)'
    <3> SUFFICES ASSUME NEW j \in Nat, NEW l \in Nat, InBuf(p, j, l)'
                 PROVE  /\ \A i, n \in Nat : InBuf(p, i, n)' /\ i < j => n < l
                        /\ \A k \in Names : \A i, n \in Nat : InFile(file', p, k, i, n) => n < l
      BY DEF BufOrdered
    <3>1. CASE InBuf(p, j, l)
      <4>1. ASSUME NEW i \in Nat, NEW n \in Nat, InBuf(p, i, n)', i < j
            PROVE  n < l
        <5>1. i # n0 + 1
          BY <1>2, <2>3, <3>1, <4>1
        <5> QED  BY <2>2, <3>1, <4>1, <5>1 DEF OneOrder, BufOrdered
      <4>2. \A k \in Names : \A i, n \in Nat : InFile(file', p, k, i, n) => n < l
        BY <1>7, <3>1 DEF OneOrder, BufOrdered
      <4> QED  BY <4>1, <4>2
    <3>2. CASE j = n0 + 1 /\ l = LastLine(p) + 1
      <4>1. ASSUME NEW i \in Nat, NEW n \in Nat, InBuf(p, i, n)', i < j
            PROVE  n < l
        <5>1. n <= LastLine(p)
          BY <1>4, <2>2, <3>2, <4>1
        <5> QED  BY <1>3, <3>2, <5>1
      <4>2. \A k \in Names : \A i, n \in Nat : InFile(file', p, k, i, n) => n < l
        BY <1>3, <1>4, <1>7, <3>2
      <4> QED  BY <4>1, <4>2
    <3> QED  BY <2>2, <3>1, <3>2
  <2>5. FilesOrdered(p)'
    BY <1>7 DEF OneOrder, FilesOrdered
  <2>6. NoneNewer(p)'
    <3>1. \A i, n \in Nat : InBuf(p, i, n)' => n <= LastLine(p)'
      BY <1>3, <1>4, <2>2
    <3>2. \A k \in Names : \A i, n \in Nat : InFile(file', p, k, i, n) => n <= LastLine(p)'
      BY <1>3, <1>4, <1>7
    <3>3. handle'[p] \in Names =>
            \A k \in Names : \A i, n \in Nat : InFile(file', p, k, i, n) => k >= handle'[p]
      BY <1>1, <1>7 DEF OneOrder, NoneNewer
    <3> QED  BY <3>1, <3>2, <3>3 DEF NoneNewer
  <2> QED  BY <2>4, <2>5, <2>6 DEF OneOrder
<1>8. CASE buf' = [buf EXCEPT ![p] = << >>] /\ file' = Grown(p, lines)
  <2>1. AllFrom(lines, p)
    BY <1>2, <1>5, <1>6 DEF AllFrom
  <2>2. buf'[p] = << >>
    BY <1>1, <1>8 DEF SinksTyped
  <2>3. lines[n0 + 1][2] = LastLine(p) + 1
    BY <1>2, <1>3
  <2>4. \A i, j \in 1 .. Len(lines) : i < j => lines[i][2] < lines[j][2]
    <3> SUFFICES ASSUME NEW i \in 1 .. Len(lines), NEW j \in 1 .. Len(lines), i < j
                 PROVE  lines[i][2] < lines[j][2]
      OBVIOUS
    <3>1. i \in 1 .. n0
      BY <1>2
    <3>2. CASE j \in 1 .. n0
      BY <1>5, <3>1, <3>2 DEF OneOrder, BufOrdered
    <3>3. CASE j = n0 + 1
      BY <1>3, <1>4, <1>5, <2>3, <3>1, <3>3
    <3> QED  BY <1>2, <1>6, <3>2, <3>3
  <2>5. \A j \in 1 .. Len(lines) :
          /\ \A k \in Names : \A i, n \in Nat : InFile(file, p, k, i, n) => n < lines[j][2]
          /\ lines[j][2] <= LastLine(p)'
    <3> SUFFICES ASSUME NEW j \in 1 .. Len(lines)
                 PROVE  /\ \A k \in Names : \A i, n \in Nat :
                             InFile(file, p, k, i, n) => n < lines[j][2]
                        /\ lines[j][2] <= LastLine(p)'
      OBVIOUS
    <3>1. CASE j \in 1 .. n0
      <4>1. \A k \in Names : \A i, n \in Nat : InFile(file, p, k, i, n) => n < lines[j][2]
        BY <1>5, <3>1 DEF OneOrder, BufOrdered
      <4>2. lines[j][2] <= LastLine(p) /\ lines[j][2] \in Nat
        BY <1>4, <1>5, <3>1
      <4> QED  BY <1>3, <4>1, <4>2
    <3>2. CASE j = n0 + 1
      BY <1>3, <1>4, <2>3, <3>2
    <3> QED  BY <1>2, <1>6, <3>1, <3>2
  <2> QED  BY <1>1, <1>2, <1>8, <2>1, <2>2, <2>4, <2>5, GrownOrder
<1> QED  BY <1>1, <1>7, <1>8

\* The buffer is written out when the file is closed.
LEMMA CloseOrder ==
  ASSUME LogTypeOK, FileInv, LastGrows, NEW p \in Procs, OneOrder(p), LastLine(p)' \in Nat,
         file' = Grown(p, buf[p]), buf' = [buf EXCEPT ![p] = << >>],
         handle' = [handle EXCEPT ![p] = Closed]
  PROVE  OneOrder(p)'
<1> DEFINE t == buf[p]
<1>1. SinksTyped /\ t \in Seq(Line) /\ AllFrom(t, p) /\ file' = Grown(p, t)
  BY DEF FileInv, OneShare, SinksTyped
<1>2. buf'[p] = << >> /\ handle'[p] \notin Names
  BY <1>1, NoNames DEF SinksTyped
<1>3. \A i \in 1 .. Len(t) : i \in Nat /\ t[i][2] \in Nat /\ InBuf(p, i, t[i][2])
  BY Placed
<1>4. \A j \in 1 .. Len(t) :
        /\ \A k \in Names : \A i, n \in Nat : InFile(file, p, k, i, n) => n < t[j][2]
        /\ \A i, n \in Nat : InBuf(p, i, n) /\ i < j => n < t[j][2]
  BY <1>3 DEF OneOrder, BufOrdered
<1> HIDE DEF t
<1>5. \A i, j \in 1 .. Len(t) : i < j => t[i][2] < t[j][2]
  BY <1>3, <1>4
<1>6. ASSUME NEW j \in 1 .. Len(t), proc'[p] # "dead"
      PROVE  t[j][2] <= LastLine(p)'
  <2>1. proc[p] # "dead" /\ LastLine(p)' >= LastLine(p) /\ LastLine(p) \in Nat
    BY <1>6, LastType DEF LastGrows
  <2>2. t[j][2] <= LastLine(p) /\ t[j][2] \in Nat
    BY <1>3, <2>1 DEF OneOrder, NoneNewer
  <2> QED  BY <2>1, <2>2
<1> QED  BY <1>1, <1>2, <1>4, <1>5, <1>6, GrownOrder

\* Files are renamed, and the order is that of the files they come from.
LEMMA RenameOrder ==
  ASSUME LogTypeOK, FileInv, LastGrows, NEW p \in Procs, NEW k \in 1 .. MaxFiles, Rename(p, k),
         NEW q \in Procs, OneOrder(q), LastLine(q)' \in Nat
  PROVE  OneOrder(q)'
<1> DEFINE from(j) == IF j = k THEN k - 1 ELSE j
<1>1. /\ k - 1 \in DOMAIN file /\ file' = Shifted(k) /\ buf' = buf
      /\ handle'[q] = CASE handle[q] = k     -> Unlinked
                        [] handle[q] = k - 1 -> k
                        [] OTHER             -> handle[q]
  BY DEF Rename
<1>2. /\ k \in Names /\ k - 1 \in Names /\ k # k - 1 /\ Unlinked \notin Names
      /\ Names \subseteq Nat
  BY NoNames DEF Names
<1>3. ASSUME NEW j \in Names, NEW i \in Nat, NEW n \in Nat, InFile(file', q, j, i, n)
      PROVE  j # k - 1 /\ from(j) \in Names /\ InFile(file, q, from(j), i, n)
  <2>1. Disk(file', j) =
          IF j = k THEN Disk(file, k - 1) ELSE IF j = k - 1 THEN << >> ELSE Disk(file, j)
    BY <1>1, ShiftedFiles DEF FileInv
  <2>2. j # k - 1
    BY <1>2, <1>3, <2>1 DEF InFile
  <2>3. Disk(file', j) = Disk(file, from(j)) /\ from(j) \in Names
    BY <1>2, <2>1, <2>2
  <2> HIDE DEF from
  <2> QED  BY <1>3, <2>2, <2>3 DEF InFile
<1>4. FilesOrdered(q)'
  <2> SUFFICES ASSUME NEW j \in Names, NEW m \in Names, NEW i \in Nat, NEW h \in Nat,
                      NEW n \in Nat, NEW l \in Nat,
                      InFile(file', q, j, i, n), InFile(file', q, m, h, l),
                      j > m \/ (j = m /\ i < h)
               PROVE  n < l
    BY DEF FilesOrdered
  <2>1. /\ j # k - 1 /\ m # k - 1 /\ from(j) \in Names /\ from(m) \in Names
        /\ InFile(file, q, from(j), i, n) /\ InFile(file, q, from(m), h, l)
    BY <1>3
  <2>2. j \in Nat /\ m \in Nat /\ k \in Nat
    BY <1>2
  <2>3. from(j) > from(m) \/ (from(j) = from(m) /\ i < h)
    BY <2>1, <2>2
  <2> HIDE DEF from
  <2> QED  BY <2>1, <2>3 DEF OneOrder, FilesOrdered
<1>5. BufOrdered(q)'
  <2>1. \A i, n : InBuf(q, i, n)' = InBuf(q, i, n)
    BY <1>1 DEF InBuf
  <2> HIDE DEF from
  <2> QED  BY <1>3, <2>1 DEF OneOrder, BufOrdered
<1>6. ASSUME handle'[q] \in Names, NEW j \in Names, NEW i \in Nat, NEW n \in Nat,
             InFile(file', q, j, i, n)
      PROVE  j >= handle'[q]
  <2>1. j # k - 1 /\ from(j) \in Names /\ InFile(file, q, from(j), i, n)
    BY <1>3, <1>6
  <2>2. handle[q] \in Names => from(j) >= handle[q]
    <3> HIDE DEF from
    <3> QED  BY <2>1 DEF OneOrder, NoneNewer
  <2>3. j \in Nat /\ k \in Nat
    BY <1>2
  <2>4. CASE handle[q] = k
    BY <1>1, <1>2, <1>6, <2>4
  <2>5. CASE handle[q] = k - 1
    <3>1. handle'[q] = k
      BY <1>1, <1>2, <2>5
    <3> QED  BY <1>2, <2>1, <2>2, <2>3, <2>5, <3>1
  <2>6. CASE handle[q] # k /\ handle[q] # k - 1
    <3>1. handle'[q] = handle[q] /\ handle[q] \in Nat
      BY <1>1, <1>2, <1>6, <2>6
    <3> QED  BY <1>2, <1>6, <2>1, <2>2, <2>3, <2>6, <3>1
  <2> QED  BY <2>4, <2>5, <2>6
<1>7. ASSUME proc'[q] # "dead"
      PROVE  /\ \A j \in Names : \A i, n \in Nat : InFile(file', q, j, i, n) => n <= LastLine(q)'
             /\ \A i, n \in Nat : InBuf(q, i, n)' => n <= LastLine(q)'
  <2>1. proc[q] # "dead" /\ LastLine(q)' >= LastLine(q) /\ LastLine(q) \in Nat
    BY <1>7, LastType DEF LastGrows
  <2>2. \A i, n : InBuf(q, i, n)' = InBuf(q, i, n)
    BY <1>1 DEF InBuf
  <2> HIDE DEF from
  <2>3. /\ \A j \in Names : \A i, n \in Nat : InFile(file', q, j, i, n) => n <= LastLine(q)
        /\ \A i, n \in Nat : InBuf(q, i, n)' => n <= LastLine(q)
    BY <1>3, <2>1, <2>2 DEF OneOrder, NoneNewer
  <2> QED  BY <2>1, <2>3
<1>8. NoneNewer(q)'
  BY <1>6, <1>7 DEF NoneNewer
<1> QED  BY <1>4, <1>5, <1>8 DEF OneOrder

\* What is left when a file is removed is in order.
LEMMA RemoveOrder ==
  ASSUME LogTypeOK, FileInv, LastGrows, NEW p \in Procs, NEW k \in 1 .. MaxFiles, Remove(p, k),
         NEW q \in Procs, OneOrder(q), LastLine(q)' \in Nat
  PROVE  OneOrder(q)'
<1>1. /\ file' = Restrict(file, DOMAIN file \ {k}) /\ buf' = buf
      /\ handle'[q] = IF handle[q] = k THEN Unlinked ELSE handle[q]
  BY DEF Remove
<1>2. \A j \in Names : Disk(file', j) = << >> \/ Disk(file', j) = Disk(file, j)
  BY <1>1, RemovedFiles DEF FileInv
<1>3. ASSUME NEW j \in Names, NEW i \in Nat, NEW n \in Nat, InFile(file', q, j, i, n)
      PROVE  InFile(file, q, j, i, n)
  BY <1>2, <1>3 DEF InFile
<1>4. \A i, n \in Nat : InBuf(q, i, n)' => InBuf(q, i, n)
  BY <1>1 DEF InBuf
<1>5. handle'[q] = handle[q] \/ handle'[q] \notin Names
  BY <1>1, NoNames
<1> QED  BY <1>3, <1>4, <1>5, OrderKept

\* A step that gives no lines to q leaves it no new ones in the files.
LEMMA NoNewLines ==
  ASSUME FileInv, NEW q \in Procs,
         \/ file' = file
         \/ \E t \in {<< >>, Disk(file, 0)} : file' = WithNewest(t)
         \/ \E p \in Procs \ {q} : \E t \in Seq(Line) : AllFrom(t, p) /\ file' = Grown(p, t)
  PROVE  \A k \in Names : \A i, n \in Nat : InFile(file', q, k, i, n) => InFile(file, q, k, i, n)
<1>1. CASE file' = file
  BY <1>1
<1>2. ASSUME NEW t \in {<< >>, Disk(file, 0)}, file' = WithNewest(t),
             NEW k \in Names, NEW i \in Nat, NEW n \in Nat, InFile(file', q, k, i, n)
      PROVE  InFile(file, q, k, i, n)
  <2>1. << >> \in Seq(Line)
    OBVIOUS
  <2>2. Disk(file, 0) \in Seq(Line)
    BY DiskType DEF FileInv
  <2>3. t \in Seq(Line)
    BY <2>1, <2>2
  <2>4. Disk(file', k) = IF k = 0 THEN t ELSE Disk(file, k)
    BY <1>2, <2>3, NewestFiles DEF FileInv
  <2>5. Disk(file', k) = << >> \/ Disk(file', k) = Disk(file, k)
    BY <2>4
  <2> QED  BY <1>2, <2>5 DEF InFile
<1>3. ASSUME NEW p \in Procs \ {q}, NEW t \in Seq(Line), AllFrom(t, p), file' = Grown(p, t),
             NEW k \in Names, NEW i \in Nat, NEW n \in Nat, InFile(file', q, k, i, n)
      PROVE  InFile(file, q, k, i, n)
  BY <1>3, GrownLines
<1> QED  BY <1>1, <1>2, <1>3

\* Every step keeps the order.
LEMMA StepOrder ==
  ASSUME LogTypeOK, LogTypeOK', LogSafe, FileInv, OrderInv, [Next]_sharedVars, NEW q \in Procs
  PROVE  OneOrder(q)'
<1>1. LastGrows /\ LastLine(q)' \in Nat /\ OneOrder(q) /\ SinksTyped
  BY LastStays, LastTypeNext DEF OrderInv, FileInv
<1>2. ASSUME \/ file' = file
             \/ \E t \in {<< >>, Disk(file, 0)} : file' = WithNewest(t)
             \/ \E p \in Procs \ {q} : \E t \in Seq(Line) : AllFrom(t, p) /\ file' = Grown(p, t),
             buf'[q] = buf[q] \/ buf'[q] = << >>,
             handle'[q] = handle[q] \/ handle'[q] = 0 \/ handle'[q] = Closed
      PROVE  OneOrder(q)'
  <2>1. \A k \in Names : \A i, n \in Nat : InFile(file', q, k, i, n) => InFile(file, q, k, i, n)
    BY <1>2, NoNewLines
  <2>2. \A i, n \in Nat : InBuf(q, i, n)' => InBuf(q, i, n)
    BY <1>2 DEF InBuf
  <2>3. handle'[q] = handle[q] \/ handle'[q] = 0 \/ handle'[q] \notin Names
    BY <1>2, NoNames
  <2> QED  BY <1>1, <2>1, <2>2, <2>3, OrderKept
<1>3. ASSUME UNCHANGED fileVars
      PROVE  OneOrder(q)'
  BY <1>2, <1>3 DEF fileVars
<1>4. ASSUME NEW p \in Procs, WriteLine(p)
      PROVE  OneOrder(q)'
  <2>1. CASE q = p
    BY <1>1, <1>4, <2>1, WriteLineOrder
  <2>2. CASE q # p
    <3> DEFINE lines == Append(buf[p], <<p, taken[p]>>)
    <3>1. /\ Works(p) /\ todo[p] # << >> /\ handle' = handle
          /\ \/ buf' = [buf EXCEPT ![p] = lines] /\ file' = file
             \/ buf' = [buf EXCEPT ![p] = << >>] /\ file' = Grown(p, lines)
      BY <1>4 DEF WriteLine, Write
    <3>2. /\ lines \in Seq(Line) /\ Len(buf[p]) \in Nat /\ Len(lines) = Len(buf[p]) + 1
          /\ \A i \in 1 .. Len(buf[p]) : lines[i] = buf[p][i]
          /\ lines[Len(buf[p]) + 1] = <<p, taken[p]>>
      BY <1>1, <3>1, LineAppended
    <3>3. buf'[q] = buf[q]
      BY <1>1, <2>2, <3>1 DEF SinksTyped
    <3> HIDE DEF lines
    <3>4. AllFrom(lines, p)
      <4>1. \A i \in 1 .. Len(lines) : i \in 1 .. Len(buf[p]) \/ i = Len(buf[p]) + 1
        BY <3>2
      <4>2. \A i \in 1 .. Len(buf[p]) : buf[p][i][1] = p
        BY DEF FileInv, OneShare, AllFrom
      <4> QED  BY <3>2, <4>1, <4>2 DEF AllFrom
    <3> QED  BY <1>2, <2>2, <3>1, <3>2, <3>3, <3>4
  <2> QED  BY <2>1, <2>2
<1>5. ASSUME NEW p \in Procs, StartRotation(p) \/ CloseFile(p)
      PROVE  OneOrder(q)'
  <2>1. /\ file' = Grown(p, buf[p]) /\ buf' = [buf EXCEPT ![p] = << >>]
        /\ handle' = [handle EXCEPT ![p] = Closed]
    BY <1>5 DEF StartRotation, CloseFile
  <2>2. CASE q = p
    BY <1>1, <2>1, <2>2, CloseOrder
  <2>3. CASE q # p
    <3>1. buf'[q] = buf[q] /\ handle'[q] = handle[q]
      BY <1>1, <2>1, <2>3 DEF SinksTyped
    <3>2. buf[p] \in Seq(Line) /\ AllFrom(buf[p], p)
      BY DEF FileInv, OneShare, SinksTyped
    <3> QED  BY <1>2, <2>1, <2>3, <3>1, <3>2
  <2> QED  BY <2>2, <2>3
<1>6. ASSUME NEW p \in Procs, Killed(p)
      PROVE  OneOrder(q)'
  <2>1. /\ file' = file /\ buf' = [buf EXCEPT ![p] = << >>]
        /\ handle' = [handle EXCEPT ![p] = Closed]
    BY <1>6 DEF Killed
  <2>2. /\ buf'[q] = buf[q] \/ buf'[q] = << >>
        /\ handle'[q] = handle[q] \/ handle'[q] = Closed
    BY <1>1, <2>1 DEF SinksTyped
  <2> QED  BY <1>2, <2>1, <2>2
<1>7. ASSUME NEW p \in Procs, NEW t \in {<< >>, Disk(file, 0)}, file' = WithNewest(t),
             handle' = [handle EXCEPT ![p] = 0], buf' = buf
      PROVE  OneOrder(q)'
  <2>1. handle'[q] = handle[q] \/ handle'[q] = 0
    BY <1>1, <1>7 DEF SinksTyped
  <2> QED  BY <1>2, <1>7, <2>1
<1>8. ASSUME NEW p \in Procs, Reopen(p), buf' = buf
      PROVE  OneOrder(q)'
  <2>1. file' = WithNewest(<< >>) /\ handle' = [handle EXCEPT ![p] = 0]
    BY <1>8 DEF Reopen
  <2> QED  BY <1>7, <1>8, <2>1
<1>9. ASSUME NEW p \in Procs, Open(p)
      PROVE  OneOrder(q)'
  <2>1. OnDisk(0) = Disk(file, 0)
    BY DEF OnDisk, Disk
  <2> QED  BY <1>3, <1>7, <1>9, <2>1 DEF Open
<1>10. ASSUME NEW p \in Procs, NEW k \in 1 .. MaxFiles,
              \/ Check(p, k) \/ Remove(p, k) \/ Rename(p, k)
              \/ TryAgain(p, k) \/ RenameFails(p, k)
       PROVE  OneOrder(q)'
  <2>1. CASE Check(p, k) \/ TryAgain(p, k)
    BY <1>2, <2>1 DEF Check, TryAgain
  <2>2. CASE Remove(p, k) \/ Rename(p, k)
    BY <1>1, <2>2, RemoveOrder, RenameOrder
  <2>3. CASE RenameFails(p, k)
    BY <1>8, <2>3 DEF RenameFails
  <2> QED  BY <1>10, <2>1, <2>2, <2>3
<1>11. ASSUME NEW p \in Procs, Step(p)
       PROVE  OneOrder(q)'
  <2>1. CASE WriteFails(p) \/ Ends(p)
    BY <1>3, <2>1 DEF WriteFails, Ends
  <2>2. CASE EndRotation(p)
    BY <1>8, <2>2 DEF EndRotation
  <2> QED  BY <1>3, <1>4, <1>5, <1>10, <1>11, <2>1, <2>2 DEF Step
<1>12. CASE UNCHANGED sharedVars
  BY <1>3, <1>12 DEF sharedVars
<1> QED  BY <1>3, <1>6, <1>9, <1>11, <1>12 DEF Next

LEMMA InitOrder == Init => OrderInv
<1> SUFFICES ASSUME Init, NEW q \in Procs
             PROVE  OneOrder(q)
  BY DEF OrderInv
<1>1. \A k, i, n : ~InFile(file, q, k, i, n)
  BY DEF Init, InFile, Disk
<1>2. \A i, n : ~InBuf(q, i, n)
  BY DEF Init, InBuf
<1> QED  BY <1>1, <1>2 DEF OneOrder, FilesOrdered, BufOrdered, NoneNewer

\* What is left of a program's lines is in the order in which they were logged,
\* whatever the programs that share the files rename, truncate or lose, and
\* wherever one of them is killed.  logger.cpp:9.
THEOREM SharedFilesInOrder == Spec => []NewerFilesHoldNewerLines
<1>1. Init => OrderInv
  BY InitOrder
<1>2. /\ LogTypeOK /\ LogSafe /\ FileInv
      /\ (LogTypeOK /\ LogSafe /\ FileInv)'
      /\ OrderInv /\ [Next]_sharedVars
      => OrderInv'
  BY StepOrder DEF OrderInv
<1>3. FileInv /\ OrderInv => NewerFilesHoldNewerLines
  <2> SUFFICES ASSUME FileInv, OrderInv, NEW p \in Procs
               PROVE  /\ \A k, m \in Names :
                           \A i \in OwnLines(OnDisk(k), p), j \in OwnLines(OnDisk(m), p) :
                             k > m \/ (k = m /\ i < j) => OnDisk(k)[i][2] < OnDisk(m)[j][2]
                      /\ \A j \in 1 .. Len(buf[p]) :
                           /\ \A i \in 1 .. j - 1 : buf[p][i][2] < buf[p][j][2]
                           /\ \A k \in Names : \A i \in OwnLines(OnDisk(k), p) :
                                OnDisk(k)[i][2] < buf[p][j][2]
    BY DEF NewerFilesHoldNewerLines
  <2>1. \A k : OnDisk(k) = Disk(file, k)
    BY DEF OnDisk, Disk
  <2>2. FilesOrdered(p) /\ BufOrdered(p)
    BY DEF OrderInv, OneOrder
  <2>3. /\ \A i \in 1 .. Len(buf[p]) :
             i \in Nat /\ buf[p][i][2] \in Nat /\ InBuf(p, i, buf[p][i][2])
        /\ \A k : \A i \in OwnLines(Disk(file, k), p) :
             i \in Nat /\ Disk(file, k)[i][2] \in Nat
             /\ InFile(file, p, k, i, Disk(file, k)[i][2])
    BY Placed
  <2>4. \A k, m \in Names : \A i \in OwnLines(OnDisk(k), p), j \in OwnLines(OnDisk(m), p) :
          k > m \/ (k = m /\ i < j) => OnDisk(k)[i][2] < OnDisk(m)[j][2]
    BY <2>1, <2>2, <2>3 DEF FilesOrdered
  <2>5. ASSUME NEW j \in 1 .. Len(buf[p])
        PROVE  /\ \A i \in 1 .. j - 1 : buf[p][i][2] < buf[p][j][2]
               /\ \A k \in Names : \A i \in OwnLines(OnDisk(k), p) :
                    OnDisk(k)[i][2] < buf[p][j][2]
    <3>1. \A i \in 1 .. j - 1 : i \in 1 .. Len(buf[p]) /\ i < j
      <4>1. Len(buf[p]) \in Nat
        BY DEF FileInv, SinksTyped
      <4> QED  BY <4>1
    <3> QED  BY <2>1, <2>2, <2>3, <3>1 DEF BufOrdered
  <2> QED  BY <2>4, <2>5
<1> QED  BY <1>1, <1>2, <1>3, SharesForever, PTL DEF Spec

-----------------------------------------------------------------------------
(* What the file sink has written.                                         *)

Filing(q) == out[q]["file"]

\* A process's lines are written in order, and what is in the stdio buffer are
\* the last ones.
WrittenInv(q) ==
  /\ \A i, j \in 1 .. Len(Filing(q)) : i < j => Filing(q)[i] < Filing(q)[j]
  /\ proc[q] # "dead" => \A i \in 1 .. Len(Filing(q)) : Filing(q)[i] <= LastLine(q)
  /\ Len(buf[q]) <= Len(Filing(q))
  /\ \A i \in 1 .. Len(buf[q]) : Filing(q)[Len(Filing(q)) - Len(buf[q]) + i] = buf[q][i][2]

LEMMA FilingType ==
  ASSUME LogTypeOK, FileInv, NEW q \in Procs
  PROVE  /\ Filing(q) \in Seq(Nat) /\ Len(Filing(q)) \in Nat
         /\ buf[q] \in Seq(Line) /\ Len(buf[q]) \in Nat
         /\ \A i \in 1 .. Len(Filing(q)) : Filing(q)[i] \in Nat
<1>1. Filing(q) \in Seq(Nat) /\ buf[q] \in Seq(Line)
  BY TypeOfOne DEF Filing, FileInv, SinksTyped
<1> QED  BY <1>1

\* What a step does to what q has written.
LEMMA FilingSteps ==
  ASSUME LogTypeOK, FileInv, [Next]_sharedVars, NEW q \in Procs
  PROVE  \/ WriteLine(q) \/ Killed(q)
         \/ Filing(q)' = Filing(q) /\ (buf'[q] = buf[q] \/ buf'[q] = << >>)
<1> DEFINE Same == Filing(q)' = Filing(q) /\ (buf'[q] = buf[q] \/ buf'[q] = << >>)
<1>0. /\ out \in [Procs -> [SinkNames -> Seq(Nat)]] /\ "file" \in SinkNames
      /\ buf \in [Procs -> Seq(Line)]
  BY DEF LogTypeOK, FileInv, SinksTyped, SinkNames
<1>1. ASSUME UNCHANGED out,
             buf' = buf \/ \E p \in Procs : buf' = [buf EXCEPT ![p] = << >>]
      PROVE  Same
  BY <1>0, <1>1 DEF Filing
<1>2. ASSUME NEW p \in Procs, Write(p, "console"), UNCHANGED fileVars
      PROVE  Same
  <2>1. out' = [out EXCEPT ![p]["console"] = Append(@, taken[p])] /\ buf' = buf
    BY <1>2 DEF Write, fileVars
  <2>2. out'[q] = out[q] \/ out'[q] = [out[q] EXCEPT !["console"] = Append(@, taken[p])]
    BY <1>0, <2>1
  <2> QED  BY <1>0, <2>1, <2>2 DEF Filing, SinkNames
<1>3. ASSUME NEW p \in Procs \ {q}, WriteLine(p)
      PROVE  Same
  <2>1. /\ out' = [out EXCEPT ![p]["file"] = Append(@, taken[p])]
        /\ \E t : buf' = [buf EXCEPT ![p] = t]
    BY <1>3 DEF WriteLine, Write
  <2> QED  BY <1>0, <2>1 DEF Filing
<1>4. ASSUME NEW p \in Procs \ {q}, Killed(p)
      PROVE  Same
  BY <1>0, <1>4 DEF Killed, Kill, Filing
<1>5. ASSUME NEW p \in Procs, Step(p), ~WriteLine(p)
      PROVE  Same
  <2>1. CASE \/ WriteFails(p) \/ StartRotation(p) \/ EndRotation(p)
             \/ CloseFile(p) \/ Ends(p)
    BY <1>1, <2>1 DEF WriteFails, WriteThrows, StartRotation, EndRotation, CloseFile, Ends, Terminate,
       logVars, fileVars
  <2>2. ASSUME NEW k \in 1 .. MaxFiles,
               \/ Check(p, k) \/ Remove(p, k) \/ Rename(p, k)
               \/ TryAgain(p, k) \/ RenameFails(p, k)
        PROVE  Same
    BY <1>1, <2>2 DEF Check, Remove, Rename, TryAgain, RenameFails, WriteThrows, logVars
  <2>3. CASE (Post(p) \/ PostTerminate(p) \/ Take(p)) /\ UNCHANGED fileVars
    BY <1>1, <2>3 DEF Post, PostTerminate, Take, fileVars
  <2> HIDE DEF Same
  <2> QED  BY <1>2, <1>5, <2>1, <2>2, <2>3 DEF Step
<1>6. ASSUME NEW p \in Procs, CallFiltered(p) \/ Call(p), Open(p)
      PROVE  Same
  BY <1>1, <1>6 DEF CallFiltered, Call, Open, fileVars
<1>7. ASSUME NEW p \in Procs, CallThrows(p) \/ Exits(p), UNCHANGED fileVars
      PROVE  Same
  BY <1>1, <1>7 DEF CallThrows, Exits, fileVars
<1>8. ASSUME UNCHANGED sharedVars
      PROVE  Same
  BY <1>1, <1>8 DEF sharedVars, logVars, fileVars
<1> HIDE DEF Same
<1>9. ASSUME NEW p \in Procs, Step(p)
      PROVE  WriteLine(q) \/ Same
  BY <1>3, <1>5, <1>9
<1>10. ASSUME NEW p \in Procs, Killed(p)
       PROVE  Killed(q) \/ Same
  BY <1>4, <1>10
<1>11. WriteLine(q) \/ Killed(q) \/ Same
  <2>1. CASE Next
    <3>1. PICK p \in Procs : \/ Step(p)
                             \/ (CallFiltered(p) \/ Call(p)) /\ Open(p)
                             \/ (CallThrows(p) \/ Exits(p)) /\ UNCHANGED fileVars
                             \/ Killed(p)
      BY <2>1 DEF Next
    <3> QED  BY <1>6, <1>7, <1>9, <1>10, <3>1
  <2> QED  BY <1>8, <2>1
<1> QED  BY <1>11 DEF Same

\* The file sink has written a line.
LEMMA FilingMore ==
  ASSUME LogTypeOK, LogSafe, FileInv, NEW q \in Procs, WriteLine(q)
  PROVE  /\ Len(Filing(q)') = Len(Filing(q)) + 1
         /\ \A i \in 1 .. Len(Filing(q)) : Filing(q)'[i] = Filing(q)[i]
         /\ Filing(q)'[Len(Filing(q)) + 1] = taken[q]
         /\ taken[q] \in Nat /\ taken[q] = LastLine(q) + 1 /\ LastLine(q)' = LastLine(q) + 1
         /\ LastLine(q) \in Nat /\ proc[q] # "dead" /\ proc' = proc
<1>1. /\ out' = [out EXCEPT ![q]["file"] = Append(@, taken[q])] /\ Works(q)
  BY DEF WriteLine, Write
<1>2. out \in [Procs -> [SinkNames -> Seq(Nat)]] /\ "file" \in SinkNames /\ taken[q] \in Nat
  BY DEF LogTypeOK, SinkNames
<1>3. Filing(q)' = Append(Filing(q), taken[q]) /\ Filing(q) \in Seq(Nat)
  BY <1>1, <1>2 DEF Filing
<1>4. /\ Len(Append(Filing(q), taken[q])) = Len(Filing(q)) + 1
      /\ \A i \in 1 .. Len(Filing(q)) : Append(Filing(q), taken[q])[i] = Filing(q)[i]
      /\ Append(Filing(q), taken[q])[Len(Filing(q)) + 1] = taken[q]
  BY <1>2, <1>3, AppendFacts
<1>5. taken[q] = LastLine(q) + 1 /\ LastLine(q)' = LastLine(q) + 1 /\ proc' = proc
  BY LastOfSinks
<1> QED  BY <1>1, <1>2, <1>3, <1>4, <1>5, LastType DEF Works

\* The process is killed, and the lines of its buffer are not in the file.
LEMMA FilingLess ==
  ASSUME LogTypeOK, FileInv, NEW q \in Procs, Killed(q), Len(buf[q]) <= Len(Filing(q))
  PROVE  /\ Len(Filing(q)') = Len(Filing(q)) - Len(buf[q])
         /\ \A i \in 1 .. Len(Filing(q)') : i \in 1 .. Len(Filing(q)) /\ Filing(q)'[i] = Filing(q)[i]
         /\ proc'[q] = "dead" /\ buf'[q] = << >> /\ file' = file
<1>1. /\ out' = [out EXCEPT ![q]["file"] = SubSeq(@, 1, Len(@) - Len(buf[q]))]
      /\ proc' = [proc EXCEPT ![q] = "dead"] /\ buf' = [buf EXCEPT ![q] = << >>] /\ file' = file
  BY DEF Killed, Kill
<1>2. /\ out \in [Procs -> [SinkNames -> Seq(Nat)]] /\ "file" \in SinkNames
      /\ buf \in [Procs -> Seq(Line)] /\ proc \in [Procs -> ProcState]
  BY DEF LogTypeOK, SinkNames, FileInv, SinksTyped
<1>3. Filing(q)' = SubSeq(Filing(q), 1, Len(Filing(q)) - Len(buf[q]))
  BY <1>1, <1>2 DEF Filing
<1>4. /\ Filing(q) \in Seq(Nat) /\ Len(buf[q]) \in Nat /\ Len(Filing(q)) \in Nat
      /\ Len(Filing(q)) - Len(buf[q]) \in 0 .. Len(Filing(q))
  BY FilingType
<1>5. \A s \in Seq(Nat) : \A n \in 0 .. Len(s) :
        Len(SubSeq(s, 1, n)) = n /\ \A i \in 1 .. n : SubSeq(s, 1, n)[i] = s[i]
  OBVIOUS
<1>6. /\ Len(Filing(q)') = Len(Filing(q)) - Len(buf[q])
      /\ \A i \in 1 .. Len(Filing(q)) - Len(buf[q]) : Filing(q)'[i] = Filing(q)[i]
  BY <1>3, <1>4, <1>5
<1> QED  BY <1>1, <1>2, <1>4, <1>6

LEMMA StepWritten ==
  ASSUME LogTypeOK, LogSafe, FileInv, LastGrows, [Next]_sharedVars, NEW q \in Procs,
         WrittenInv(q), LastLine(q)' \in Nat
  PROVE  WrittenInv(q)'
<1> DEFINE w  == Filing(q)
           n0 == Len(buf[q])
<1>0. /\ w \in Seq(Nat) /\ Len(w) \in Nat /\ n0 \in Nat /\ LastLine(q) \in Nat
      /\ \A i \in 1 .. Len(w) : w[i] \in Nat
  BY FilingType, LastType
<1>1. CASE Filing(q)' = Filing(q) /\ (buf'[q] = buf[q] \/ buf'[q] = << >>)
  <2>1. proc'[q] # "dead" => \A i \in 1 .. Len(w) : w[i] <= LastLine(q)'
    BY <1>0 DEF WrittenInv, LastGrows
  <2>2. Len(buf'[q]) <= Len(w)
    BY <1>0, <1>1 DEF WrittenInv
  <2>3. \A i \in 1 .. Len(buf'[q]) : w[Len(w) - Len(buf'[q]) + i] = buf'[q][i][2]
    <3>1. CASE buf'[q] = buf[q]
      BY <3>1 DEF WrittenInv
    <3>2. CASE buf'[q] = << >>
      BY <3>2
    <3> QED  BY <1>1, <3>1, <3>2
  <2>4. \A i, j \in 1 .. Len(w) : i < j => w[i] < w[j]
    BY DEF WrittenInv
  <2> HIDE DEF w
  <2>5. Filing(q)' = w
    BY <1>1 DEF w
  <2> QED  BY <2>1, <2>2, <2>3, <2>4, <2>5 DEF WrittenInv
<1>2. CASE WriteLine(q)
  <2> DEFINE v     == Filing(q)'
             lines == Append(buf[q], <<q, taken[q]>>)
  <2>1. /\ Len(v) = Len(w) + 1 /\ \A i \in 1 .. Len(w) : v[i] = w[i]
        /\ v[Len(w) + 1] = taken[q]
        /\ taken[q] \in Nat /\ taken[q] = LastLine(q) + 1 /\ LastLine(q)' = LastLine(q) + 1
        /\ proc[q] # "dead"
    BY <1>2, FilingMore
  <2>2. /\ \A i, j \in 1 .. Len(w) : i < j => w[i] < w[j]
        /\ \A i \in 1 .. Len(w) : w[i] <= LastLine(q)
        /\ n0 <= Len(w) /\ \A i \in 1 .. n0 : w[Len(w) - n0 + i] = buf[q][i][2]
    BY <2>1 DEF WrittenInv
  <2>3. buf'[q] = lines \/ buf'[q] = << >>
    BY <1>2 DEF WriteLine, FileInv, SinksTyped
  <2>4. /\ Len(lines) = n0 + 1 /\ \A i \in 1 .. n0 : lines[i] = buf[q][i]
        /\ lines[n0 + 1] = <<q, taken[q]>>
    BY <1>2, LineAppended DEF WriteLine, Write, FileInv
  <2> HIDE DEF v, w, lines, n0
  <2>5. \A i \in 1 .. Len(v) : i \in 1 .. Len(w) \/ i = Len(w) + 1
    <3>1. \A m \in Nat : \A i \in 1 .. m + 1 : i \in 1 .. m \/ i = m + 1
      OBVIOUS
    <3> QED  BY <1>0, <2>1, <3>1
  <2>6. \A i, j \in 1 .. Len(v) : i < j => v[i] < v[j]
    <3> SUFFICES ASSUME NEW i \in 1 .. Len(v), NEW j \in 1 .. Len(v), i < j
                 PROVE  v[i] < v[j]
      OBVIOUS
    <3>1. i \in 1 .. Len(w)
      <4>1. i # Len(w) + 1
        BY <1>0, <2>1
      <4> QED  BY <2>5, <4>1
    <3>2. CASE j \in 1 .. Len(w)
      BY <2>1, <2>2, <3>1, <3>2
    <3>3. CASE j = Len(w) + 1
      <4>1. v[j] = LastLine(q) + 1 /\ v[i] = w[i] /\ w[i] <= LastLine(q) /\ w[i] \in Nat
        BY <1>0, <2>1, <2>2, <3>1, <3>3
      <4> QED  BY <1>0, <4>1
    <3> QED  BY <2>5, <3>2, <3>3
  <2>7. ASSUME NEW i \in 1 .. Len(v)
        PROVE  v[i] <= LastLine(q)'
    <3>1. CASE i \in 1 .. Len(w)
      <4>1. v[i] = w[i] /\ w[i] <= LastLine(q) /\ w[i] \in Nat
        BY <1>0, <2>1, <2>2, <3>1
      <4> QED  BY <1>0, <2>1, <4>1
    <3>2. CASE i = Len(w) + 1
      BY <1>0, <2>1, <3>2
    <3> QED  BY <2>5, <3>1, <3>2
  <2>8. /\ Len(buf'[q]) <= Len(v)
        /\ \A i \in 1 .. Len(buf'[q]) : v[Len(v) - Len(buf'[q]) + i] = buf'[q][i][2]
    <3>1. CASE buf'[q] = << >>
      BY <1>0, <2>1, <3>1
    <3>2. CASE buf'[q] = lines
      <4>0. Len(buf'[q]) = n0 + 1 /\ Len(v) = Len(w) + 1 /\ n0 <= Len(w)
        BY <2>1, <2>2, <2>4, <3>2
      <4>1. Len(v) - Len(buf'[q]) = Len(w) - n0 /\ Len(buf'[q]) <= Len(v)
        BY <1>0, <4>0
      <4>2. ASSUME NEW i \in 1 .. n0 + 1
            PROVE  v[Len(w) - n0 + i] = lines[i][2]
        <5>1. CASE i \in 1 .. n0
          <6>1. Len(w) - n0 + i \in 1 .. Len(w)
            BY <1>0, <2>2, <5>1
          <6> QED  BY <2>1, <2>2, <2>4, <5>1, <6>1
        <5>2. CASE i = n0 + 1
          <6>1. Len(w) - n0 + i = Len(w) + 1 /\ lines[i][2] = taken[q]
            BY <1>0, <2>4, <5>2
          <6> QED  BY <2>1, <6>1
        <5> QED  BY <1>0, <5>1, <5>2
      <4> QED  BY <3>2, <4>0, <4>1, <4>2
    <3> QED  BY <2>3, <3>1, <3>2
  <2>9. v = Filing(q)'
    BY DEF v
  <2> HIDE DEF Filing
  <2> QED  BY <2>6, <2>7, <2>8, <2>9 DEF WrittenInv
<1>3. CASE Killed(q)
  <2> DEFINE v == Filing(q)'
  <2>1. /\ Len(v) = Len(w) - n0 /\ \A i \in 1 .. Len(v) : i \in 1 .. Len(w) /\ v[i] = w[i]
        /\ proc'[q] = "dead" /\ buf'[q] = << >>
    BY <1>3, FilingLess DEF WrittenInv
  <2>2. \A i, j \in 1 .. Len(w) : i < j => w[i] < w[j]
    BY DEF WrittenInv
  <2>3. Len(buf'[q]) = 0 /\ Len(v) \in Nat
    BY <1>0, <2>1 DEF WrittenInv
  <2> HIDE DEF v, w
  <2>4. \A i, j \in 1 .. Len(v) : i < j => v[i] < v[j]
    BY <2>1, <2>2
  <2>5. v = Filing(q)'
    BY DEF v
  <2> QED  BY <2>1, <2>3, <2>4, <2>5 DEF WrittenInv
<1> QED  BY <1>1, <1>2, <1>3, FilingSteps

-----------------------------------------------------------------------------
(* A process that has the log to itself.                                   *)

Lone(p) == \A q \in Procs \ {p} : ~made[q]

\* The name there is no file of while p rotates: 0 before and after.
Gap(p) == rotation[p][2]

OwnFiles(p) == \A k \in Names : AllFrom(Disk(file, k), p)

\* p's file is log_filename, and its size is known.
OpenFile(p) ==
  /\ handle[p] \in {0, Closed}
  /\ handle[p] = 0 =>
       /\ rotation[p] = NoRotation /\ 0 \in DOMAIN file
       /\ size[p] = Len(Disk(file, 0)) + Len(buf[p]) /\ size[p] <= MaxSize
  /\ handle[p] = Closed => buf[p] = << >>
  /\ Works(p) /\ rotation[p] = NoRotation => handle[p] = 0 \/ LetGo(p)
  /\ ~made[p] => DOMAIN file = {} /\ rotation[p] = NoRotation

\* The older files are full, and none is missing among them but for the gap.
Generations(p) ==
  /\ \A k \in DOMAIN file : k # 0 \/ rotation[p] # NoRotation => Len(file[k]) = MaxSize
  /\ \A k \in DOMAIN file : \A j \in Names : j < k => j \in DOMAIN file \/ j = Gap(p)
  /\ rotation[p] # NoRotation => Gap(p) = MaxFiles \/ Gap(p) \notin DOMAIN file
  /\ \A k \in 1 .. MaxFiles :
       /\ rotation[p] \in {<<"remove", k>>, <<"rename", k>>} => k - 1 \in DOMAIN file
       /\ rotation[p] \notin {<<"remove again", k>>, <<"rename again", k>>}

\* There is a file of the highest number, or it has just been removed to make
\* room for the next one.
Full(p) == MaxFiles \in DOMAIN file \/ rotation[p] = <<"rename", MaxFiles>>

\* The numbers of the lines that are left, and of those that were written.
Left(p) ==
  {n \in Nat : \/ \E k \in Names, i \in Nat : InFile(file, p, k, i, n)
               \/ \E i \in Nat : InBuf(p, i, n)}
Had(p)  == {Filing(p)[i] : i \in 1 .. Len(Filing(p))}

\* What is lost is older than what is left, and nothing is lost before there was
\* a file of the highest number.
Remains(p) ==
  /\ Left(p) \subseteq Had(p)
  /\ \A n \in Had(p) \ Left(p), m \in Left(p) : n < m
  /\ Left(p) = Had(p) \/ Full(p)

Alone(p) == OwnFiles(p) /\ OpenFile(p) /\ Generations(p) /\ Remains(p)
LoneInv  == \A p \in Procs : Lone(p) => Alone(p)

\* Nothing happens to p's sink, or it does what only an open sink does.
Untouched(p) ==
  /\ UNCHANGED <<file, handle[p], size[p], buf[p], rotation[p], Filing(p), made[p]>>
  /\ Works(p)' => Works(p) /\ (LetGo(p) => LetGo(p)')

LEMMA LoneOthers ==
  ASSUME LogTypeOK, LogSafe, FileInv, NEW p \in Procs, NEW q \in Procs \ {p},
         ~made[q], ~made'[q],
         \/ Step(q)
         \/ (CallFiltered(q) \/ Call(q)) /\ Open(q)
         \/ (CallThrows(q) \/ Exits(q)) /\ UNCHANGED fileVars
         \/ Killed(q)
  PROVE  Untouched(p)
<1>0. /\ SinksTyped /\ ~Works(q) /\ ~AtFile(q) /\ buf[q] = << >> /\ handle[q] = Closed
      /\ out \in [Procs -> [SinkNames -> Seq(Nat)]]
      /\ proc \in [Procs -> ProcState] /\ made \in [Procs -> BOOLEAN]
      /\ queue \in [Procs -> Seq(Nat)]
  BY DEF FileInv, OneShare, Works, AtFile, LogTypeOK
<1>1. ASSUME UNCHANGED <<file, handle[p], size[p], buf[p], rotation[p],
                         out[p], made[p], proc[p], todo[p], queue[p]>>
      PROVE  Untouched(p)
  BY <1>1 DEF Untouched, Filing, Works, LetGo
<1>2. CASE CallThrows(q) /\ UNCHANGED fileVars
  BY <1>0, <1>1, <1>2 DEF CallThrows, fileVars
<1>3. CASE Exits(q) /\ UNCHANGED fileVars
  BY <1>0, <1>1, <1>3 DEF Exits, fileVars
<1>4. CASE CallFiltered(q) \/ Call(q)
  BY <1>0, <1>4 DEF CallFiltered, Call
<1>5. CASE Killed(q)
  BY <1>0, <1>1, <1>5 DEF Killed, Kill, SinksTyped
<1>6. CASE Step(q)
  <2>1. CASE (Post(q) \/ PostTerminate(q)) /\ UNCHANGED fileVars
    BY <1>0, <1>1, <2>1 DEF Post, PostTerminate, Enqueue, fileVars
  <2>2. CASE Take(q) \/ Write(q, "console") \/ WriteLine(q) \/ WriteFails(q)
    BY <1>0, <2>2 DEF Take, Write, WriteLine, WriteFails, WriteThrows
  <2>3. CASE StartRotation(q) \/ EndRotation(q)
    BY <1>0, <2>3 DEF StartRotation, EndRotation
  <2>4. ASSUME NEW k \in 1 .. MaxFiles,
               \/ Check(q, k) \/ Remove(q, k) \/ Rename(q, k)
               \/ TryAgain(q, k) \/ RenameFails(q, k)
        PROVE  FALSE
    BY <1>0, <2>4 DEF Check, Remove, Rename, TryAgain, RenameFails, WriteThrows
  <2>5. CASE CloseFile(q) \/ Ends(q)
    BY <1>0, <1>1, <2>5 DEF CloseFile, Ends, Terminate, fileVars
  <2> QED  BY <1>6, <2>1, <2>2, <2>3, <2>4, <2>5 DEF Step
<1> QED  BY <1>2, <1>3, <1>4, <1>5, <1>6

LEMMA LoneSteps ==
  ASSUME LogTypeOK, LogSafe, FileInv, [Next]_sharedVars, NEW p \in Procs, Lone(p)'
  PROVE  /\ Lone(p)
         /\ \/ Untouched(p)
            \/ WriteLine(p) \/ StartRotation(p) \/ EndRotation(p) \/ CloseFile(p) \/ Killed(p)
            \/ ~made[p] /\ Open(p) /\ out' = out /\ made'[p]
            \/ \E k \in 1 .. MaxFiles : \/ Check(p, k) \/ Remove(p, k) \/ Rename(p, k)
                                        \/ TryAgain(p, k) \/ RenameFails(p, k)
<1>0. /\ Lone(p) /\ \A q \in Procs \ {p} : ~made[q] /\ ~made'[q]
      /\ out \in [Procs -> [SinkNames -> Seq(Nat)]]
      /\ proc \in [Procs -> ProcState] /\ made \in [Procs -> BOOLEAN]
      /\ queue \in [Procs -> Seq(Nat)]
  BY MadeStays DEF Lone, LogTypeOK
<1>1. ASSUME UNCHANGED fileVars, UNCHANGED <<Filing(p), made[p]>>,
             Works(p)' => Works(p) /\ (LetGo(p) => LetGo(p)')
      PROVE  Untouched(p)
  BY <1>1 DEF Untouched, fileVars
<1>2. CASE UNCHANGED sharedVars
  BY <1>0, <1>1, <1>2 DEF sharedVars, logVars, Filing, Works, LetGo
<1>3. CASE (Post(p) \/ PostTerminate(p) \/ Take(p)) /\ UNCHANGED fileVars
  <2>1. Append(<< >>, TerminateMsg) = <<TerminateMsg>> /\ Head(<<TerminateMsg>>) = TerminateMsg
    OBVIOUS
  <2>2. LetGo(p) => LetGo(p)'
    BY <1>0, <1>3, <2>1 DEF Post, PostTerminate, Take, Enqueue, LetGo
  <2> QED  BY <1>0, <1>1, <1>3, <2>2 DEF Post, PostTerminate, Take, Filing, Works
<1>4. CASE Write(p, "console") /\ UNCHANGED fileVars
  <2>1. out' = [out EXCEPT ![p]["console"] = Append(@, taken[p])]
    BY <1>4 DEF Write
  <2>2. out'[p] = [out[p] EXCEPT !["console"] = Append(@, taken[p])]
    BY <1>0, <2>1
  <2>3. Filing(p)' = Filing(p)
    BY <1>0, <2>2 DEF Filing, SinkNames
  <2>4. made' = made /\ Works(p) /\ ~LetGo(p)
    BY <1>4 DEF Write, LetGo
  <2> QED  BY <1>0, <1>1, <1>4, <2>3, <2>4
<1>5. CASE WriteFails(p)
  BY <1>0, <1>1, <1>5 DEF WriteFails, WriteThrows, Filing, Works, LetGo
<1>6. CASE (CallThrows(p) \/ Exits(p)) /\ UNCHANGED fileVars
  BY <1>0, <1>1, <1>6 DEF CallThrows, Exits, Filing, Works, LetGo
<1>7. CASE (CallFiltered(p) \/ Call(p)) /\ Open(p)
  <2>1. proc[p] = "running" /\ out' = out /\ made'[p] = TRUE
    BY <1>0, <1>7 DEF CallFiltered, Call
  <2>2. CASE made[p]
    <3>1. made'[p] = made[p]
      BY <1>0, <2>1, <2>2
    <3>2. Works(p) /\ ~LetGo(p) /\ UNCHANGED fileVars /\ Filing(p)' = Filing(p)
      BY <1>7, <2>1, <2>2 DEF Open, Filing, Works, LetGo
    <3> QED  BY <1>0, <1>1, <3>1, <3>2
  <2> QED  BY <1>0, <1>7, <2>1, <2>2
<1>8. CASE Step(p)
  <2>1. CASE Ends(p)
    BY <1>0, <1>1, <2>1 DEF Ends, Terminate, Filing, Works
  <2> QED  BY <1>0, <1>3, <1>4, <1>5, <1>8, <2>1 DEF Step
<1>9. CASE Next
  <2>1. PICK q \in Procs : \/ Step(q)
                           \/ (CallFiltered(q) \/ Call(q)) /\ Open(q)
                           \/ (CallThrows(q) \/ Exits(q)) /\ UNCHANGED fileVars
                           \/ Killed(q)
    BY <1>9 DEF Next
  <2>2. CASE q # p
    BY <1>0, <2>1, <2>2, LoneOthers
  <2>3. CASE q = p
    BY <1>0, <1>6, <1>7, <1>8, <2>1, <2>3
  <2> QED  BY <2>2, <2>3
<1> QED  BY <1>2, <1>9

\* The sink of p gets a line, or its buffer is written out into the file.
LEMMA AloneWrites ==
  ASSUME LogTypeOK, FileInv, NEW p \in Procs, OwnFiles(p), OpenFile(p), Generations(p),
         handle[p] = 0, NEW t \in Seq(Line), AllFrom(t, p), file' = Grown(p, t)
  PROVE  /\ OwnFiles(p)' /\ DOMAIN file' = DOMAIN file
         /\ \A k \in DOMAIN file : k # 0 => file'[k] = file[k]
         /\ Len(file'[0]) = Len(file[0]) + Len(t) /\ Len(Disk(file, 0)) = Len(file[0])
         /\ Len(Disk(file', 0)) = Len(file'[0])
         /\ Len(file[0]) \in Nat /\ Len(t) \in Nat
<1>1. /\ 0 \in DOMAIN file /\ 0 \in Names /\ Files(file)
      /\ file' = [file EXCEPT ![0] = file[0] \o t]
  BY NoNames DEF OpenFile, Grown, FileInv
<1>2. /\ DOMAIN file' = DOMAIN file /\ file'[0] = file[0] \o t
      /\ \A k \in DOMAIN file : k # 0 => file'[k] = file[k]
  BY <1>1
<1>3. file[0] \in Seq(Line) /\ AllFrom(file[0], p)
  BY <1>1 DEF Files, OwnFiles, Disk
<1>4. \A s \in Seq(Line) : AllFrom(s, p) =>
        AllFrom(s \o t, p) /\ Len(s \o t) = Len(s) + Len(t) /\ Len(s) \in Nat /\ Len(t) \in Nat
  <2> SUFFICES ASSUME NEW s \in Seq(Line), AllFrom(s, p)
               PROVE  /\ AllFrom(s \o t, p) /\ Len(s \o t) = Len(s) + Len(t)
                      /\ Len(s) \in Nat /\ Len(t) \in Nat
    OBVIOUS
  <2>1. /\ Len(s) \in Nat /\ Len(t) \in Nat /\ Len(s \o t) = Len(s) + Len(t)
        /\ \A i \in 1 .. Len(s) : (s \o t)[i] = s[i]
        /\ \A i \in 1 .. Len(t) : (s \o t)[Len(s) + i] = t[i]
    OBVIOUS
  <2>2. ASSUME NEW i \in 1 .. Len(s \o t)
        PROVE  (s \o t)[i][1] = p
    <3>1. CASE i \in 1 .. Len(s)
      BY <2>1, <3>1 DEF AllFrom
    <3>2. CASE i \notin 1 .. Len(s)
      <4>1. i - Len(s) \in 1 .. Len(t) /\ Len(s) + (i - Len(s)) = i
        BY <2>1, <3>2
      <4> QED  BY <2>1, <4>1 DEF AllFrom
    <3> QED  BY <3>1, <3>2
  <2> QED  BY <2>1, <2>2 DEF AllFrom
<1>5. OwnFiles(p)'
  <2> SUFFICES ASSUME NEW k \in Names
               PROVE  AllFrom(Disk(file', k), p)
    BY DEF OwnFiles
  <2>1. CASE k = 0
    BY <1>1, <1>2, <1>3, <1>4, <2>1 DEF Disk
  <2>2. CASE k # 0
    <3>1. Disk(file', k) = Disk(file, k)
      BY <1>2, <2>2 DEF Disk
    <3> QED  BY <3>1 DEF OwnFiles
  <2> QED  BY <2>1, <2>2
<1> QED  BY <1>1, <1>2, <1>3, <1>4, <1>5 DEF Disk

\* A file that keeps its place keeps the generations.
LEMMA SameGenerations ==
  ASSUME NEW p \in Procs, Generations(p), DOMAIN file' = DOMAIN file, rotation'[p] = rotation[p],
         \A k \in DOMAIN file : k # 0 \/ rotation[p] # NoRotation => Len(file'[k]) = Len(file[k])
  PROVE  Generations(p)'
<1>1. Gap(p)' = Gap(p)
  BY DEF Gap
<1> QED  BY <1>1 DEF Generations

LEMMA AloneUntouched ==
  ASSUME NEW p \in Procs, OwnFiles(p), OpenFile(p), Generations(p), Untouched(p)
  PROVE  OwnFiles(p)' /\ OpenFile(p)' /\ Generations(p)'
<1>1. UNCHANGED <<file, handle[p], size[p], buf[p], rotation[p], made[p]>> /\ (Works(p)' => Works(p))
  BY DEF Untouched
<1>2. OwnFiles(p)'
  BY <1>1 DEF OwnFiles
<1>3. OpenFile(p)'
  <2>1. Works(p)' /\ rotation[p] = NoRotation => handle[p] = 0 \/ LetGo(p)'
    BY DEF OpenFile, Untouched
  <2> QED  BY <1>1, <2>1 DEF OpenFile
<1> QED  BY <1>1, <1>2, <1>3, SameGenerations

LEMMA AloneWriteLine ==
  ASSUME LogTypeOK, LogSafe, FileInv, NEW p \in Procs, OwnFiles(p), OpenFile(p), Generations(p),
         WriteLine(p)
  PROVE  OwnFiles(p)' /\ OpenFile(p)' /\ Generations(p)'
<1> DEFINE lines == Append(buf[p], <<p, taken[p]>>)
<1>1. /\ Fits(p) \/ MayBeEmpty(p)
      /\ Works(p) /\ todo[p] # << >> /\ rotation[p] = NoRotation /\ SinksTyped
      /\ \/ buf' = [buf EXCEPT ![p] = lines] /\ file' = file
         \/ buf' = [buf EXCEPT ![p] = << >>] /\ file' = Grown(p, lines)
      /\ size' = [size EXCEPT ![p] = size[p] + 1]
      /\ handle' = handle /\ rotation' = rotation /\ made' = made
  BY DEF WriteLine, Write, FileInv
<1>2. /\ handle[p] = 0 /\ 0 \in DOMAIN file /\ made[p]
      /\ size[p] = Len(Disk(file, 0)) + Len(buf[p])
  BY <1>1 DEF OpenFile, Works, LetGo
<1>3. /\ lines \in Seq(Line) /\ Len(lines) = Len(buf[p]) + 1 /\ Len(buf[p]) \in Nat
      /\ \A i \in 1 .. Len(buf[p]) : lines[i] = buf[p][i]
      /\ lines[Len(buf[p]) + 1] = <<p, taken[p]>>
  BY <1>1, LineAppended
<1>4. Len(Disk(file, 0)) \in Nat /\ size[p] \in Nat /\ MaxSize \in Nat \ {0}
  <2>1. Disk(file, 0) \in Seq(Line)
    BY DiskType DEF FileInv
  <2> QED  BY <1>1, <2>1, SharedLogAssumption DEF SinksTyped
<1>5. size'[p] = size[p] + 1 /\ size[p] + 1 <= MaxSize
  <2>1. CASE Fits(p)
    BY <1>1, <2>1 DEF Fits, SinksTyped
  <2>2. CASE MayBeEmpty(p)
    <3>1. buf[p] = << >> /\ Disk(file, 0) = << >>
      BY <1>2, <2>2, SharedLogAssumption DEF MayBeEmpty, OnDisk, Disk, Unlinked
    <3>2. size[p] = 0 + 0
      BY <1>2, <3>1
    <3> QED  BY <1>1, <1>4, <3>2 DEF SinksTyped
  <2> QED  BY <1>1, <2>1, <2>2
<1>6. AllFrom(lines, p)
  <2>1. \A i \in 1 .. Len(lines) : i \in 1 .. Len(buf[p]) \/ i = Len(buf[p]) + 1
    BY <1>3
  <2>2. \A i \in 1 .. Len(buf[p]) : buf[p][i][1] = p
    BY DEF FileInv, OneShare, AllFrom
  <2> HIDE DEF lines
  <2> QED  BY <1>3, <2>1, <2>2 DEF AllFrom
<1> HIDE DEF lines
<1>7. CASE buf' = [buf EXCEPT ![p] = lines] /\ file' = file
  <2>1. buf'[p] = lines
    BY <1>1, <1>7 DEF SinksTyped
  <2>2. OwnFiles(p)'
    BY <1>7 DEF OwnFiles
  <2>3. size'[p] = Len(Disk(file', 0)) + Len(buf'[p])
    BY <1>2, <1>3, <1>4, <1>5, <1>7, <2>1
  <2>4. OpenFile(p)'
    BY <1>1, <1>2, <1>5, <1>7, <2>3, NoNames DEF OpenFile
  <2>5. Generations(p)'
    BY <1>1, <1>7, SameGenerations
  <2> QED  BY <2>2, <2>4, <2>5
<1>8. CASE buf' = [buf EXCEPT ![p] = << >>] /\ file' = Grown(p, lines)
  <2>1. /\ OwnFiles(p)' /\ DOMAIN file' = DOMAIN file
        /\ \A k \in DOMAIN file : k # 0 => file'[k] = file[k]
        /\ Len(Disk(file', 0)) = Len(Disk(file, 0)) + Len(lines)
    BY <1>2, <1>3, <1>6, <1>8, AloneWrites
  <2>2. buf'[p] = << >> /\ Len(buf'[p]) = 0
    BY <1>1, <1>8 DEF SinksTyped
  <2>3. size'[p] = Len(Disk(file', 0)) + Len(buf'[p])
    BY <1>2, <1>3, <1>4, <1>5, <2>1, <2>2
  <2>4. OpenFile(p)'
    BY <1>1, <1>2, <1>5, <2>1, <2>3, NoNames DEF OpenFile
  <2>5. Generations(p)'
    BY <1>1, <2>1, SameGenerations
  <2> QED  BY <2>1, <2>4, <2>5
<1> QED  BY <1>1, <1>7, <1>8

\* The file is closed when it is full or no line is left, or with its program.
LEMMA AloneCloses ==
  ASSUME LogTypeOK, FileInv, NEW p \in Procs, OwnFiles(p), OpenFile(p), Generations(p),
         StartRotation(p) \/ CloseFile(p) \/ Killed(p)
  PROVE  OwnFiles(p)' /\ OpenFile(p)' /\ Generations(p)'
<1>0. /\ SinksTyped /\ proc \in [Procs -> ProcState] /\ made \in [Procs -> BOOLEAN]
      /\ buf[p] \in Seq(Line) /\ AllFrom(buf[p], p)
  BY DEF FileInv, OneShare, SinksTyped, LogTypeOK
<1>1. /\ handle'[p] = Closed /\ buf'[p] = << >> /\ made' = made
      /\ ~StartRotation(p) => (~Works(p)' \/ LetGo(p)') /\ rotation' = rotation
      /\ StartRotation(p) => rotation'[p] = <<"check", MaxFiles>> /\ rotation[p] = NoRotation
      /\ Killed(p) \/ file' = Grown(p, buf[p])
      /\ Killed(p) => file' = file
  <2>1. CASE StartRotation(p)
    BY <1>0, <2>1 DEF StartRotation, SinksTyped, logVars, Killed, Kill
  <2>2. CASE CloseFile(p)
    BY <1>0, <2>2 DEF CloseFile, StartRotation, AtFile, LetGo, SinksTyped, logVars, Killed, Kill
  <2>3. CASE Killed(p)
    BY <1>0, <2>3 DEF StartRotation, Killed, Kill, SinksTyped, Works, logVars
  <2> QED  BY <2>1, <2>2, <2>3
<1>2. Closed # 0 /\ NoRotation # <<"check", MaxFiles>>
  BY NoNames DEF NoRotation
<1>3. CASE file' = file /\ ~StartRotation(p)
  <2>1. OwnFiles(p)'
    BY <1>3 DEF OwnFiles
  <2>2. OpenFile(p)'
    BY <1>1, <1>2, <1>3 DEF OpenFile
  <2>3. Generations(p)'
    BY <1>1, <1>3, SameGenerations
  <2> QED  BY <2>1, <2>2, <2>3
<1>4. CASE handle[p] = 0 /\ file' = Grown(p, buf[p])
  <2>1. /\ OwnFiles(p)' /\ DOMAIN file' = DOMAIN file
        /\ \A k \in DOMAIN file : k # 0 => file'[k] = file[k]
        /\ Len(file'[0]) = Len(file[0]) + Len(buf[p]) /\ Len(Disk(file, 0)) = Len(file[0])
        /\ Len(file[0]) \in Nat /\ Len(buf[p]) \in Nat
    BY <1>0, <1>4, AloneWrites
  <2>2. /\ rotation[p] = NoRotation /\ 0 \in DOMAIN file
        /\ size[p] = Len(file[0]) + Len(buf[p]) /\ size[p] <= MaxSize
        /\ made[p] /\ MaxSize \in Nat
    BY <1>4, <2>1, SharedLogAssumption DEF OpenFile
  <2>3. CASE ~StartRotation(p)
    <3>1. OpenFile(p)'
      BY <1>1, <1>2, <2>1, <2>2, <2>3 DEF OpenFile
    <3>2. Generations(p)'
      BY <1>1, <2>1, <2>2, <2>3, SameGenerations
    <3> QED  BY <2>1, <3>1, <3>2
  <2>4. CASE StartRotation(p)
    <3>1. Len(file'[0]) = MaxSize
      <4>1. ~(size[p] + 1 <= MaxSize)
        BY <2>4 DEF StartRotation, Fits
      <4> QED  BY <2>1, <2>2, <4>1
    <3>2. OpenFile(p)'
      BY <1>1, <1>2, <2>1, <2>2, <2>4 DEF OpenFile
    <3>3. Gap(p) = 0 /\ Gap(p)' = MaxFiles
      BY <1>1, <2>2, <2>4 DEF Gap, NoRotation
    <3>4. \A k \in DOMAIN file' : Len(file'[k]) = MaxSize
      BY <2>1, <3>1 DEF Generations
    <3>5. \A k \in DOMAIN file' : \A j \in Names : j < k => j \in DOMAIN file'
      BY <2>1, <2>2, <3>3 DEF Generations
    <3>6. \A k : rotation'[p] \notin Moving(k)
      <4>1. \A k : <<"check", MaxFiles>> \notin Moving(k)
        BY DEF Moving
      <4> QED  BY <1>1, <2>4, <4>1
    <3>7. Generations(p)'
      BY <3>3, <3>4, <3>5, <3>6 DEF Generations, Moving
    <3> QED  BY <2>1, <3>2, <3>7
  <2> QED  BY <2>3, <2>4
<1>5. CASE handle[p] = Closed /\ file' = Grown(p, buf[p])
  <2>1. file' = file
    BY <1>5, NoNames DEF Grown
  <2>2. ~StartRotation(p)
    BY <1>2, <1>5 DEF StartRotation, AtFile, OpenFile, LetGo
  <2> QED  BY <1>3, <2>1, <2>2
<1>6. CASE Killed(p) /\ ~StartRotation(p)
  BY <1>1, <1>3, <1>6
<1>7. Killed(p) => ~StartRotation(p)
  <2>1. Killed(p) => proc' # proc
    BY <1>0 DEF Killed, Kill
  <2>2. StartRotation(p) => proc' = proc
    BY DEF StartRotation, logVars
  <2> QED  BY <2>1, <2>2
<1> QED  BY <1>1, <1>4, <1>5, <1>6, <1>7 DEF OpenFile

\* The sink opens a log_filename of which there is none.
LEMMA AloneOpens ==
  ASSUME FileInv, NEW p \in Procs, OwnFiles(p), OpenFile(p), Generations(p),
         handle[p] = Closed, 0 \notin DOMAIN file, Gap(p) = 0,
         file' = WithNewest(<< >>), handle'[p] = 0, size'[p] = 0, buf'[p] = buf[p],
         rotation'[p] = NoRotation, made'[p]
  PROVE  /\ OwnFiles(p)' /\ OpenFile(p)' /\ Generations(p)'
         /\ \A k \in Names : Disk(file', k) = Disk(file, k)
         /\ DOMAIN file \subseteq DOMAIN file'
<1>1. /\ DOMAIN file' = DOMAIN file \union {0} /\ file'[0] = << >>
      /\ \A k \in DOMAIN file : k # 0 /\ file'[k] = file[k]
  BY DEF WithNewest
<1>2. \A k : Disk(file', k) = Disk(file, k)
  BY <1>1 DEF Disk
<1>3. OwnFiles(p)'
  BY <1>2 DEF OwnFiles
<1>4. OpenFile(p)'
  <2>1. buf'[p] = << >> /\ Disk(file', 0) = << >>
    BY <1>1 DEF OpenFile, Disk
  <2>2. size'[p] = Len(Disk(file', 0)) + Len(buf'[p]) /\ size'[p] <= MaxSize
    BY <2>1, SharedLogAssumption
  <2> QED  BY <1>1, <2>1, <2>2 DEF OpenFile
<1>5. Generations(p)'
  <2>1. Gap(p)' = 0
    BY DEF Gap, NoRotation
  <2>2. \A k \in DOMAIN file' : k # 0 => k \in DOMAIN file /\ Len(file'[k]) = MaxSize
    BY <1>1 DEF Generations
  <2>3. \A k \in DOMAIN file' : \A j \in Names : j < k => j \in DOMAIN file' \/ j = 0
    <3>1. \A j \in Names : ~(j < 0)
      BY DEF Names
    <3> QED  BY <1>1, <2>2, <3>1 DEF Generations
  <2>4. \A k : rotation'[p] \notin Moving(k)
    BY DEF NoRotation, Moving
  <2> QED  BY <2>1, <2>2, <2>3, <2>4 DEF Generations, Moving
<1> QED  BY <1>1, <1>2, <1>3, <1>4, <1>5

\* Behind the last rename, and when the program starts.
LEMMA AloneReopens ==
  ASSUME LogTypeOK, FileInv, NEW p \in Procs, OwnFiles(p), OpenFile(p), Generations(p),
         EndRotation(p) \/ (~made[p] /\ Open(p) /\ made'[p])
  PROVE  /\ OwnFiles(p)' /\ OpenFile(p)' /\ Generations(p)'
         /\ \A k \in Names : Disk(file', k) = Disk(file, k)
         /\ DOMAIN file \subseteq DOMAIN file'
         /\ buf'[p] = buf[p]
<1>0. SinksTyped /\ made \in [Procs -> BOOLEAN] /\ MaxFiles # 0
  BY SharedLogAssumption DEF FileInv, LogTypeOK
<1>1. CASE EndRotation(p)
  <2>1. /\ made[p] /\ made' = made /\ rotation[p] = <<"reopen", 0>> /\ buf' = buf
        /\ file' = WithNewest(<< >>) /\ handle'[p] = 0 /\ size'[p] = 0 /\ rotation'[p] = NoRotation
    BY <1>0, <1>1 DEF EndRotation, AtFile, Works, Reopen, logVars, SinksTyped
  <2>2. rotation[p] # NoRotation /\ Gap(p) = 0
    BY <2>1 DEF NoRotation, Gap
  <2>3. handle[p] = Closed /\ 0 \notin DOMAIN file
    BY <1>0, <2>2 DEF OpenFile, Generations
  <2> QED  BY <2>1, <2>2, <2>3, AloneOpens
<1>2. CASE ~made[p] /\ Open(p) /\ made'[p]
  <2>1. DOMAIN file = {} /\ rotation[p] = NoRotation /\ handle[p] = Closed
    BY <1>2 DEF OpenFile, FileInv, OneShare
  <2>2. OnDisk(0) = << >>
    BY <2>1 DEF OnDisk
  <2>3. /\ file' = WithNewest(<< >>) /\ handle'[p] = 0 /\ size'[p] = 0
        /\ buf' = buf /\ rotation' = rotation
    BY <1>0, <1>2, <2>2 DEF Open, SinksTyped
  <2>4. Gap(p) = 0
    BY <2>1 DEF Gap, NoRotation
  <2> QED  BY <1>2, <2>1, <2>3, <2>4, AloneOpens
<1> QED  BY <1>1, <1>2

\* Where a rotation goes on.
LEMMA AfterFacts ==
  ASSUME NEW k \in 1 .. MaxFiles
  PROVE  /\ After(k) # NoRotation /\ After(k)[2] = k - 1 /\ \A j : After(k) \notin Moving(j)
BY SharedLogAssumption DEF After, NoRotation, Moving

LEMMA AloneChecks ==
  ASSUME LogTypeOK, FileInv, NEW p \in Procs, OwnFiles(p), OpenFile(p), Generations(p),
         NEW k \in 1 .. MaxFiles, Check(p, k)
  PROVE  OwnFiles(p)' /\ OpenFile(p)' /\ Generations(p)'
<1>0. SinksTyped /\ MaxFiles \in Nat \ {0} /\ k \in Names /\ k - 1 \in Names /\ k \in Nat
  BY SharedLogAssumption, NoNames DEF FileInv
<1>1. /\ made[p] /\ UNCHANGED <<file, handle, size, buf, made, proc>>
      /\ rotation[p] = <<"check", k>>
      /\ rotation'[p] = IF k - 1 \in DOMAIN file THEN <<"remove", k>> ELSE After(k)
  BY <1>0 DEF Check, AtFile, Works, logVars, SinksTyped
<1>2. /\ rotation[p] # NoRotation /\ rotation'[p] # NoRotation /\ Gap(p) = k
      /\ k = MaxFiles \/ k \notin DOMAIN file
  BY <1>1, AfterFacts DEF NoRotation, Gap, Generations
<1>3. OwnFiles(p)'
  BY <1>1 DEF OwnFiles
<1>4. OpenFile(p)'
  BY <1>1, <1>2 DEF OpenFile
<1>5. \A j \in DOMAIN file : Len(file[j]) = MaxSize
  BY <1>2 DEF Generations
<1>6. \A m \in DOMAIN file : \A j \in Names : j < m => j \in DOMAIN file \/ j = k
  BY <1>2 DEF Generations
<1>7. CASE k - 1 \in DOMAIN file
  <2>1. rotation'[p] = <<"remove", k>> /\ Gap(p)' = k
    BY <1>1, <1>7 DEF Gap
  <2>2. \A j : /\ rotation'[p] \in {<<"remove", j>>, <<"rename", j>>} => j = k
              /\ rotation'[p] \notin {<<"remove again", j>>, <<"rename again", j>>}
    BY <2>1
  <2>3. Generations(p)'
    BY <1>1, <1>2, <1>5, <1>6, <1>7, <2>1, <2>2 DEF Generations
  <2> QED  BY <1>3, <1>4, <2>3
<1>8. CASE k - 1 \notin DOMAIN file
  <2>1. rotation'[p] = After(k) /\ Gap(p)' = k - 1
    BY <1>1, <1>8, AfterFacts DEF Gap
  <2>2. \A j : rotation'[p] \notin Moving(j)
    BY <2>1, AfterFacts
  <2>3. \A m \in DOMAIN file : m < k - 1 \/ m = k
    <3> SUFFICES ASSUME NEW m \in DOMAIN file, ~(m < k - 1)
                 PROVE  m = k
      OBVIOUS
    <3>1. m \in Names
      BY DEF FileInv, Files
    <3>2. k - 1 < m => k - 1 = k
      BY <1>0, <1>6, <1>8
    <3> QED  BY <1>0, <1>8, <3>1, <3>2 DEF Names
  <2>4. \A m \in DOMAIN file : \A j \in Names : j < m => j \in DOMAIN file \/ j = k - 1
    <3> SUFFICES ASSUME NEW m \in DOMAIN file, NEW j \in Names, j < m
                 PROVE  j \in DOMAIN file \/ j = k - 1
      OBVIOUS
    <3>1. j \in DOMAIN file \/ j = k
      BY <1>6
    <3>2. m \in Nat /\ j \in Nat
      BY DEF FileInv, Files, Names
    <3>3. m < k - 1 \/ m = k
      BY <2>3
    <3> QED  BY <1>0, <3>1, <3>2, <3>3
  <2>5. Generations(p)'
    BY <1>1, <1>5, <1>8, <2>1, <2>2, <2>4 DEF Generations, Moving
  <2> QED  BY <1>3, <1>4, <2>5
<1> QED  BY <1>7, <1>8

\* Only a file of the highest number is there to be removed.
LEMMA AloneRemoves ==
  ASSUME LogTypeOK, FileInv, NEW p \in Procs, OwnFiles(p), OpenFile(p), Generations(p),
         NEW k \in 1 .. MaxFiles, Remove(p, k)
  PROVE  OwnFiles(p)' /\ OpenFile(p)' /\ Generations(p)'
<1>0. SinksTyped /\ k \in Names /\ k - 1 \in Names /\ k # k - 1 /\ Closed # k
  BY NoNames DEF FileInv
<1>1. /\ made[p] /\ UNCHANGED <<size, buf, made, proc>>
      /\ rotation[p] = <<"remove", k>> /\ rotation'[p] = <<"rename", k>>
      /\ file' = Restrict(file, DOMAIN file \ {k})
      /\ handle' = [q \in Procs |-> IF handle[q] = k THEN Unlinked ELSE handle[q]]
  <2>1. rotation[p] = <<"remove", k>> /\ rotation'[p] = Renaming(rotation[p])
    BY <1>0 DEF Remove, Generations, SinksTyped
  <2> QED  BY <2>1, Tries DEF Remove, AtFile, Works, logVars
<1>2. /\ rotation[p] # NoRotation /\ rotation'[p] # NoRotation
      /\ Gap(p) = k /\ Gap(p)' = k
      /\ k - 1 \in DOMAIN file /\ (k = MaxFiles \/ k \notin DOMAIN file)
  BY <1>1 DEF NoRotation, Gap, Generations
<1>3. DOMAIN file' = DOMAIN file \ {k} /\ \A j \in DOMAIN file' : file'[j] = file[j]
  BY <1>1 DEF Restrict
<1>4. OwnFiles(p)'
  <2>1. \A j \in Names : Disk(file', j) = IF j = k THEN << >> ELSE Disk(file, j)
    BY <1>1, RemovedFiles DEF FileInv
  <2> QED  BY <2>1, OwnNone DEF OwnFiles
<1>5. OpenFile(p)'
  <2>1. handle[p] = Closed /\ handle'[p] = Closed /\ Closed # 0
    BY <1>0, <1>1, <1>2, NoNames DEF OpenFile
  <2> QED  BY <1>1, <1>2, <2>1 DEF OpenFile
<1>6. \A j \in DOMAIN file' : Len(file'[j]) = MaxSize
  BY <1>2, <1>3 DEF Generations
<1>7. \A m \in DOMAIN file' : \A j \in Names : j < m => j \in DOMAIN file' \/ j = k
  BY <1>2, <1>3 DEF Generations
<1>8. k \notin DOMAIN file' /\ k - 1 \in DOMAIN file'
  BY <1>0, <1>2, <1>3
<1>9. \A j : /\ rotation'[p] \in {<<"remove", j>>, <<"rename", j>>} => j = k
            /\ rotation'[p] \notin {<<"remove again", j>>, <<"rename again", j>>}
  BY <1>1
<1>10. Generations(p)'
  BY <1>2, <1>6, <1>7, <1>8, <1>9 DEF Generations
<1> QED  BY <1>4, <1>5, <1>10

LEMMA AloneRenames ==
  ASSUME LogTypeOK, FileInv, NEW p \in Procs, OwnFiles(p), OpenFile(p), Generations(p),
         NEW k \in 1 .. MaxFiles, Rename(p, k)
  PROVE  OwnFiles(p)' /\ OpenFile(p)' /\ Generations(p)'
<1>0. SinksTyped /\ MaxFiles \in Nat \ {0} /\ k \in Names /\ k - 1 \in Names /\ k \in Nat /\ k # k - 1
  BY SharedLogAssumption, NoNames DEF FileInv
<1>1. /\ made[p] /\ UNCHANGED <<size, buf, made, proc>> /\ k - 1 \in DOMAIN file
      /\ rotation[p] = <<"rename", k>> /\ rotation'[p] = After(k) /\ file' = Shifted(k)
      /\ handle' = [q \in Procs |-> CASE handle[q] = k     -> Unlinked
                                      [] handle[q] = k - 1 -> k
                                      [] OTHER             -> handle[q]]
  BY <1>0 DEF Rename, AtFile, Works, logVars, SinksTyped, Generations
<1>2. /\ rotation[p] # NoRotation /\ rotation'[p] # NoRotation /\ Gap(p) = k
      /\ k = MaxFiles \/ k \notin DOMAIN file
      /\ Gap(p)' = k - 1 /\ \A j : rotation'[p] \notin Moving(j)
  BY <1>1, AfterFacts DEF NoRotation, Gap, Generations
<1>3. /\ DOMAIN file' = (DOMAIN file \union {k}) \ {k - 1}
      /\ \A j \in DOMAIN file' : file'[j] = file[IF j = k THEN k - 1 ELSE j]
      /\ \A j \in DOMAIN file' : (IF j = k THEN k - 1 ELSE j) \in DOMAIN file
  BY <1>1 DEF Shifted
<1>4. OwnFiles(p)'
  <2>1. \A j \in Names : Disk(file', j) =
          IF j = k THEN Disk(file, k - 1) ELSE IF j = k - 1 THEN << >> ELSE Disk(file, j)
    BY <1>1, ShiftedFiles DEF FileInv
  <2> QED  BY <1>0, <2>1, OwnNone DEF OwnFiles
<1>5. OpenFile(p)'
  <2>1. handle[p] = Closed
    BY <1>2 DEF OpenFile
  <2>2. Closed # k /\ Closed # k - 1 /\ Closed # 0
    BY <1>0, NoNames
  <2>3. handle'[p] = Closed
    BY <1>1, <2>1, <2>2
  <2> QED  BY <1>1, <1>2, <2>1, <2>2, <2>3 DEF OpenFile
<1>6. \A j \in DOMAIN file : Len(file[j]) = MaxSize
  BY <1>2 DEF Generations
<1>7. \A j \in DOMAIN file' : Len(file'[j]) = MaxSize
  BY <1>3, <1>6
<1>8. \A m \in DOMAIN file' : \A j \in Names : j < m => j \in DOMAIN file' \/ j = k - 1
  <2> SUFFICES ASSUME NEW m \in DOMAIN file', NEW j \in Names, j < m, j # k - 1, j # k
               PROVE  j \in DOMAIN file
    BY <1>3
  <2>1. j \in Nat /\ (j < k => j < k - 1)
    BY <1>0 DEF Names
  <2>2. CASE m = k
    <3>1. j < k - 1
      BY <2>1, <2>2
    <3> QED  BY <1>1, <1>2, <3>1 DEF Generations
  <2>3. CASE m # k
    BY <1>2, <1>3, <2>3 DEF Generations
  <2> QED  BY <2>2, <2>3
<1>9. k - 1 \notin DOMAIN file'
  BY <1>3
<1>10. Generations(p)'
  BY <1>2, <1>7, <1>8, <1>9 DEF Generations, Moving
<1> QED  BY <1>4, <1>5, <1>10

-----------------------------------------------------------------------------
(* What is left of its lines.                                              *)

Saved(p, n)   == \E k \in Names, i \in Nat : InFile(file, p, k, i, n)
Pending(p, n) == \E i \in Nat : InBuf(p, i, n)

LEMMA LeftParts ==
  ASSUME NEW p \in Procs
  PROVE  Left(p) = {n \in Nat : Saved(p, n) \/ Pending(p, n)}
BY DEF Left, Saved, Pending

\* The same with the primed variables.
LEMMA LeftPartsNext ==
  ASSUME NEW p \in Procs
  PROVE  Left(p)' = {n \in Nat : Saved(p, n)' \/ Pending(p, n)'}
BY DEF Left, Saved, Pending

LEMMA HadParts ==
  ASSUME NEW p \in Procs
  PROVE  /\ \A n : n \in Had(p) <=> \E i \in 1 .. Len(Filing(p)) : n = Filing(p)[i]
         /\ \A n : n \in Had(p)' <=> \E i \in 1 .. Len(Filing(p)') : n = Filing(p)'[i]
BY DEF Had

\* Nothing is lost, and nothing is written.
LEMMA NoneLost ==
  ASSUME NEW p \in Procs, Remains(p), Had(p)' = Had(p), Left(p)' = Left(p),
         Full(p) => Full(p)'
  PROVE  Remains(p)'
BY DEF Remains

\* What goes to the end of the open file is there, and nothing gets lost by it.
LEMMA GrownSaved ==
  ASSUME FileInv, NEW p \in Procs, OpenFile(p), handle[p] = 0,
         NEW t \in Seq(Line), AllFrom(t, p), file' = Grown(p, t)
  PROVE  \A n \in Nat : Saved(p, n)' <=> Saved(p, n) \/ \E i \in 1 .. Len(t) : t[i] = <<p, n>>
<1>0. 0 \in DOMAIN file /\ 0 \in Names /\ Len(t) \in Nat /\ Disk(file, 0) \in Seq(Line)
  BY NoNames, DiskType DEF OpenFile, FileInv
<1>1. \A k \in Names : Disk(file', k) = IF k = 0 THEN Disk(file, 0) \o t ELSE Disk(file, k)
  BY <1>0, GrownFiles DEF FileInv
<1>2. /\ Len(Disk(file, 0)) \in Nat /\ Len(Disk(file, 0) \o t) = Len(Disk(file, 0)) + Len(t)
      /\ \A i \in 1 .. Len(Disk(file, 0)) : (Disk(file, 0) \o t)[i] = Disk(file, 0)[i]
      /\ \A i \in 1 .. Len(t) : (Disk(file, 0) \o t)[Len(Disk(file, 0)) + i] = t[i]
  BY <1>0
<1>3. ASSUME NEW n \in Nat, NEW k \in Names, NEW i \in Nat, InFile(file', p, k, i, n)
      PROVE  Saved(p, n) \/ \E j \in 1 .. Len(t) : t[j] = <<p, n>>
  <2>1. CASE k # 0
    BY <1>1, <1>3, <2>1 DEF Saved, InFile
  <2>2. CASE k = 0
    <3> DEFINE m == Len(Disk(file, 0))
               j == i - m
    <3>1. /\ i \in 1 .. m + Len(t)
          /\ (Disk(file, 0) \o t)[i] = <<p, n>>
      BY <1>0, <1>1, <1>2, <1>3, <2>2 DEF InFile
    <3>2. m \in Nat
      BY <1>2
    <3>3. CASE i <= m
      <4>1. i \in 1 .. m
        BY <3>1, <3>2, <3>3
      <4>2. Disk(file, 0)[i] = <<p, n>>
        BY <1>2, <3>1, <4>1
      <4> QED  BY <1>0, <4>1, <4>2 DEF Saved, InFile
    <3>4. CASE ~(i <= m)
      <4>1. j \in 1 .. Len(t) /\ m + j = i
        BY <1>0, <3>1, <3>2, <3>4
      <4>2. t[j] = <<p, n>>
        BY <1>2, <3>1, <4>1
      <4> QED  BY <4>1, <4>2
    <3> QED  BY <3>3, <3>4
  <2> QED  BY <2>1, <2>2
<1>4. ASSUME NEW n \in Nat, NEW k \in Names, NEW i \in Nat, InFile(file, p, k, i, n)
      PROVE  Saved(p, n)'
  <2>1. CASE k = 0
    <3>1. i \in 1 .. Len(Disk(file, 0)) /\ Disk(file, 0)[i] = <<p, n>>
      BY <1>4, <2>1 DEF InFile
    <3>2. i \in 1 .. Len(Disk(file', 0)) /\ Disk(file', 0)[i] = <<p, n>>
      BY <1>0, <1>1, <1>2, <3>1
    <3> QED  BY <1>0, <3>2 DEF Saved, InFile
  <2>2. CASE k # 0
    BY <1>1, <1>4, <2>2 DEF Saved, InFile
  <2> QED  BY <2>1, <2>2
<1>5. ASSUME NEW n \in Nat, NEW j \in 1 .. Len(t), t[j] = <<p, n>>
      PROVE  Saved(p, n)'
  <2> DEFINE i == Len(Disk(file, 0)) + j
  <2>1. i \in Nat /\ i \in 1 .. Len(Disk(file', 0)) /\ Disk(file', 0)[i] = <<p, n>>
    BY <1>0, <1>1, <1>2, <1>5
  <2> HIDE DEF i
  <2>2. InFile(file', p, 0, i, n)
    BY <2>1 DEF InFile
  <2> QED  BY <1>0, <2>1, <2>2 DEF Saved
<1> QED  BY <1>3, <1>4, <1>5 DEF Saved

\* A buffer's line is pending, and nothing else is.
LEMMA PendingParts ==
  ASSUME FileInv, NEW p \in Procs
  PROVE  \A n : Pending(p, n) <=> \E i \in 1 .. Len(buf[p]) : buf[p][i] = <<p, n>>
<1>1. \A i \in 1 .. Len(buf[p]) : i \in Nat
  BY DEF FileInv, SinksTyped
<1> QED  BY <1>1 DEF Pending, InBuf

\* The file is closed, and the buffer is on disk.
LEMMA RemainsClosed ==
  ASSUME LogTypeOK, FileInv, NEW p \in Procs, OpenFile(p), Remains(p),
         StartRotation(p) \/ CloseFile(p)
  PROVE  Remains(p)'
<1>1. /\ file' = Grown(p, buf[p]) /\ buf'[p] = << >> /\ out' = out
      /\ buf[p] \in Seq(Line) /\ AllFrom(buf[p], p)
      /\ rotation[p] = NoRotation \/ rotation' = rotation
  BY DEF StartRotation, CloseFile, logVars, FileInv, SinksTyped, OneShare
<1>2. Had(p)' = Had(p)
  BY <1>1 DEF Had, Filing
<1>3. \A n : ~Pending(p, n)'
  BY <1>1 DEF Pending, InBuf
<1>6. Full(p) => Full(p)'
  BY <1>1 DEF Full, Grown, NoRotation
<1>4. CASE handle[p] = 0
  <2>1. \A n \in Nat : Saved(p, n)' <=> Saved(p, n) \/ Pending(p, n)
    BY <1>1, <1>4, GrownSaved, PendingParts
  <2>2. Left(p)' = Left(p)
    BY <1>3, <2>1, LeftParts, LeftPartsNext
  <2> QED  BY <1>2, <1>6, <2>2, NoneLost
<1>5. CASE handle[p] = Closed
  <2>1. file' = file /\ buf[p] = << >>
    BY <1>1, <1>5, NoNames DEF Grown, OpenFile
  <2>2. Left(p)' = Left(p)
    BY <1>1, <2>1 DEF Left, InBuf
  <2> QED  BY <1>2, <1>6, <2>2, NoneLost
<1> QED  BY <1>4, <1>5 DEF OpenFile

\* The sink has written a line.
LEMMA RemainsWritten ==
  ASSUME LogTypeOK, LogSafe, FileInv, NEW p \in Procs, OpenFile(p), Remains(p), WrittenInv(p),
         WriteLine(p)
  PROVE  Remains(p)'
<1> DEFINE lines == Append(buf[p], <<p, taken[p]>>)
<1>1. /\ Works(p) /\ todo[p] # << >> /\ rotation[p] = NoRotation /\ SinksTyped
      /\ \/ buf'[p] = lines /\ file' = file
         \/ buf'[p] = << >> /\ file' = Grown(p, lines)
      /\ rotation' = rotation
  BY DEF WriteLine, Write, FileInv, SinksTyped
<1>2. handle[p] = 0
  BY <1>1 DEF OpenFile, LetGo
<1>3. /\ lines \in Seq(Line) /\ Len(lines) = Len(buf[p]) + 1 /\ Len(buf[p]) \in Nat
      /\ \A i \in 1 .. Len(buf[p]) : lines[i] = buf[p][i]
      /\ lines[Len(buf[p]) + 1] = <<p, taken[p]>>
  BY <1>1, LineAppended
<1>4. \A i \in 1 .. Len(lines) : i \in 1 .. Len(buf[p]) \/ i = Len(buf[p]) + 1
  BY <1>3
<1>5. /\ Len(Filing(p)') = Len(Filing(p)) + 1
      /\ \A i \in 1 .. Len(Filing(p)) : Filing(p)'[i] = Filing(p)[i]
      /\ Filing(p)'[Len(Filing(p)) + 1] = taken[p]
      /\ taken[p] \in Nat /\ taken[p] = LastLine(p) + 1 /\ LastLine(p) \in Nat
      /\ proc[p] # "dead"
  BY FilingMore
<1>6. \A n : n \in Had(p)' <=> n \in Had(p) \/ n = taken[p]
  <2> DEFINE m == Len(Filing(p))
  <2>1. m \in Nat /\ Len(Filing(p)') = m + 1
    BY <1>5, FilingType
  <2> HIDE DEF m
  <2>2. /\ \A i \in 1 .. m + 1 : i \in 1 .. m \/ i = m + 1
        /\ \A i \in 1 .. m : i \in 1 .. m + 1
        /\ m + 1 \in 1 .. m + 1
    BY <2>1
  <2>3. \A i : i \in 1 .. Len(Filing(p)') <=> i \in 1 .. Len(Filing(p)) \/ i = Len(Filing(p)) + 1
    BY <2>1, <2>2 DEF m
  <2>4. ASSUME NEW n \in Had(p)'
        PROVE  n \in Had(p) \/ n = taken[p]
    <3>1. PICK i \in 1 .. Len(Filing(p)') : n = Filing(p)'[i]
      BY <2>4, HadParts
    <3> QED  BY <1>5, <2>3, <3>1, HadParts
  <2>5. ASSUME NEW n \in Had(p)
        PROVE  n \in Had(p)'
    <3>1. PICK i \in 1 .. Len(Filing(p)) : n = Filing(p)[i]
      BY <2>5, HadParts
    <3>2. i \in 1 .. Len(Filing(p)') /\ n = Filing(p)'[i]
      BY <1>5, <2>3, <3>1
    <3> QED  BY <3>2, HadParts
  <2>6. taken[p] \in Had(p)'
    <3>1. Len(Filing(p)) + 1 \in 1 .. Len(Filing(p)')
      BY <2>3
    <3> QED  BY <1>5, <3>1, HadParts
  <2> QED  BY <2>4, <2>5, <2>6
<1>7. ASSUME NEW n \in Had(p)
      PROVE  n \in Nat /\ n < taken[p]
  <2>1. PICK i \in 1 .. Len(Filing(p)) : n = Filing(p)[i]
    BY HadParts
  <2>2. n \in Nat /\ n <= LastLine(p)
    BY <1>5, <2>1, FilingType DEF WrittenInv
  <2> QED  BY <1>5, <2>2
<1>8. \A n : (\E i \in 1 .. Len(lines) : lines[i] = <<p, n>>) <=> Pending(p, n) \/ n = taken[p]
  <2>1. \A n : Pending(p, n) <=> \E i \in 1 .. Len(buf[p]) : buf[p][i] = <<p, n>>
    BY PendingParts
  <2>2. \A i \in 1 .. Len(buf[p]) : i \in 1 .. Len(lines)
    BY <1>3
  <2>3. Len(buf[p]) + 1 \in 1 .. Len(lines)
    BY <1>3
  <2> HIDE DEF lines
  <2>4. ASSUME NEW n
        PROVE  (\E i \in 1 .. Len(lines) : lines[i] = <<p, n>>)
                 <=> ((\E i \in 1 .. Len(buf[p]) : buf[p][i] = <<p, n>>) \/ n = taken[p])
    <3>1. ASSUME NEW i \in 1 .. Len(lines), lines[i] = <<p, n>>
          PROVE  (\E j \in 1 .. Len(buf[p]) : buf[p][j] = <<p, n>>) \/ n = taken[p]
      <4>1. CASE i \in 1 .. Len(buf[p])
        BY <1>3, <3>1, <4>1
      <4>2. CASE i = Len(buf[p]) + 1
        BY <1>3, <3>1, <4>2
      <4> QED  BY <1>4, <4>1, <4>2
    <3>2. ASSUME NEW i \in 1 .. Len(buf[p]), buf[p][i] = <<p, n>>
          PROVE  \E j \in 1 .. Len(lines) : lines[j] = <<p, n>>
      BY <1>3, <2>2, <3>2
    <3>3. ASSUME n = taken[p]
          PROVE  \E j \in 1 .. Len(lines) : lines[j] = <<p, n>>
      BY <1>3, <2>3, <3>3
    <3> QED  BY <3>1, <3>2, <3>3
  <2> QED  BY <2>1, <2>4
<1> HIDE DEF lines
<1>9. \A n \in Nat : Saved(p, n)' \/ Pending(p, n)' <=> Saved(p, n) \/ Pending(p, n) \/ n = taken[p]
  <2>1. CASE buf'[p] = lines /\ file' = file
    <3>1. \A n : Pending(p, n)' <=> \E i \in 1 .. Len(lines) : lines[i] = <<p, n>>
      <4>1. \A i \in 1 .. Len(lines) : i \in Nat
        BY <1>3
      <4> QED  BY <2>1, <4>1 DEF Pending, InBuf
    <3>2. \A n : Saved(p, n)' <=> Saved(p, n)
      BY <2>1 DEF Saved, InFile
    <3> QED  BY <1>8, <3>1, <3>2
  <2>2. CASE buf'[p] = << >> /\ file' = Grown(p, lines)
    <3>1. AllFrom(lines, p)
      <4>1. \A i \in 1 .. Len(buf[p]) : buf[p][i][1] = p
        BY DEF FileInv, OneShare, AllFrom
      <4> QED  BY <1>3, <1>4, <4>1 DEF AllFrom
    <3>2. \A n \in Nat : Saved(p, n)' <=> Saved(p, n) \/ \E i \in 1 .. Len(lines) : lines[i] = <<p, n>>
      BY <1>2, <1>3, <2>2, <3>1, GrownSaved
    <3>3. \A n : ~Pending(p, n)'
      BY <2>2 DEF Pending, InBuf
    <3> QED  BY <1>8, <3>2, <3>3
  <2> QED  BY <1>1, <2>1, <2>2
<1>10. \A n : n \in Left(p)' <=> n \in Left(p) \/ n = taken[p]
  BY <1>5, <1>9, LeftParts, LeftPartsNext
<1>11. Full(p)' = Full(p)
  BY <1>1 DEF Full, Grown
<1>12. /\ Left(p) \subseteq Had(p)
       /\ \A n \in Had(p) \ Left(p), m \in Left(p) : n < m
       /\ Left(p) = Had(p) \/ Full(p)
  BY DEF Remains
<1> HIDE DEF Left, Had
<1>13. Left(p)' \subseteq Had(p)'
  BY <1>6, <1>10, <1>12
<1>14. \A n \in Had(p)' \ Left(p)', m \in Left(p)' : n < m
  BY <1>6, <1>7, <1>10, <1>12
<1>15. Left(p)' = Had(p)' \/ Full(p)'
  <2>1. Left(p) = Had(p) => \A n : n \in Left(p)' <=> n \in Had(p)'
    BY <1>6, <1>10
  <2> QED  BY <1>11, <1>12, <2>1, <1>13
<1> QED  BY <1>13, <1>14, <1>15 DEF Remains

\* The process has been killed: the last lines it wrote, those of its buffer,
\* were not written after all.
LEMMA RemainsKilled ==
  ASSUME LogTypeOK, FileInv, NEW p \in Procs, OneOrder(p), Remains(p), WrittenInv(p), Killed(p)
  PROVE  Remains(p)'
<1> DEFINE w  == Filing(p)
           n0 == Len(buf[p])
<1>0. /\ Len(w) \in Nat /\ n0 \in Nat /\ n0 <= Len(w)
      /\ \A i \in 1 .. Len(w) : w[i] \in Nat
      /\ \A i, j \in 1 .. Len(w) : i < j => w[i] < w[j]
      /\ \A i \in 1 .. n0 : w[Len(w) - n0 + i] = buf[p][i][2] /\ buf[p][i] = <<p, buf[p][i][2]>>
  <2>1. \A i \in 1 .. n0 : InBuf(p, i, buf[p][i][2])
    BY Placed
  <2> QED  BY <2>1, FilingType DEF WrittenInv, InBuf
<1>1. /\ Len(Filing(p)') = Len(w) - n0
      /\ \A i \in 1 .. Len(Filing(p)') : i \in 1 .. Len(w) /\ Filing(p)'[i] = w[i]
      /\ buf'[p] = << >> /\ file' = file
      /\ Full(p)' = Full(p)
  BY FilingLess DEF WrittenInv, Killed, Full
<1>2. \A n : Pending(p, n) <=> \E i \in 1 .. n0 : buf[p][i] = <<p, n>>
  BY PendingParts
<1> HIDE DEF w, n0
<1>3. /\ \A n : n \in Had(p) <=> \E i \in 1 .. Len(w) : n = w[i]
      /\ \A n : n \in Had(p)' <=> \E i \in 1 .. Len(Filing(p)') : n = Filing(p)'[i]
  BY HadParts DEF w
<1>4. \A n : n \in Had(p)' => n \in Had(p)
  BY <1>1, <1>3
<1>5. \A j \in 1 .. n0 : Len(w) - n0 + j \in 1 .. Len(w)
  BY <1>0
<1>6. ASSUME NEW n \in Had(p)', Pending(p, n)
      PROVE  FALSE
  <2>1. PICK i \in 1 .. Len(Filing(p)') : n = Filing(p)'[i]
    BY <1>3
  <2>2. PICK j \in 1 .. n0 : buf[p][j] = <<p, n>>
    BY <1>2, <1>6
  <2>3. i \in 1 .. Len(w) /\ n = w[i]
    BY <1>1, <2>1
  <2>4. n = w[Len(w) - n0 + j] /\ Len(w) - n0 + j \in 1 .. Len(w)
    BY <1>0, <1>5, <2>2
  <2>5. i < Len(w) - n0 + j
    BY <1>0, <1>1, <2>1
  <2>6. n < n /\ n \in Nat
    BY <1>0, <2>3, <2>4, <2>5
  <2> QED  BY <2>6
<1>7. ASSUME NEW n \in Had(p), ~Pending(p, n)
      PROVE  n \in Had(p)'
  <2>1. PICK i \in 1 .. Len(w) : n = w[i]
    BY <1>3
  <2>2. CASE i \in 1 .. Len(w) - n0
    BY <1>1, <1>3, <2>1, <2>2
  <2>3. CASE i \notin 1 .. Len(w) - n0
    <3> DEFINE j == i - (Len(w) - n0)
    <3>1. j \in 1 .. n0 /\ Len(w) - n0 + j = i
      BY <1>0, <2>3
    <3> HIDE DEF j
    <3>2. buf[p][j] = <<p, n>>
      BY <1>0, <2>1, <3>1
    <3> QED  BY <1>2, <1>7, <3>1, <3>2
  <2> QED  BY <2>2, <2>3
<1>8. \A n : n \in Left(p) <=> n \in Nat /\ (Saved(p, n) \/ Pending(p, n))
  BY LeftParts
<1>9. \A n : n \in Left(p)' <=> n \in Nat /\ Saved(p, n)
  <2>1. \A n : ~Pending(p, n)' /\ (Saved(p, n)' <=> Saved(p, n))
    BY <1>1 DEF Pending, InBuf, Saved
  <2> QED  BY <2>1, LeftPartsNext
<1>10. \A n \in Nat : ~(Saved(p, n) /\ Pending(p, n))
  <2> SUFFICES ASSUME NEW n \in Nat, Saved(p, n), Pending(p, n)
               PROVE  FALSE
    OBVIOUS
  <2>1. n < n
    BY DEF Saved, Pending, OneOrder, BufOrdered
  <2> QED  BY <2>1
<1>11. /\ \A n : n \in Left(p) => n \in Had(p)
       /\ \A n \in Had(p), m \in Left(p) : n \notin Left(p) => n < m
       /\ Left(p) = Had(p) \/ Full(p)
  BY DEF Remains
<1> HIDE DEF Left, Had, Saved, Pending
<1>12. Left(p)' \subseteq Had(p)'
  BY <1>7, <1>8, <1>9, <1>10, <1>11
<1>13. \A n \in Had(p)' \ Left(p)', m \in Left(p)' : n < m
  <2> SUFFICES ASSUME NEW n \in Had(p)', n \notin Left(p)', NEW m \in Left(p)'
               PROVE  n < m
    OBVIOUS
  <2>1. n \in Had(p) /\ ~Pending(p, n)
    BY <1>4, <1>6
  <2>2. n \notin Left(p) /\ m \in Left(p)
    BY <1>8, <1>9, <2>1
  <2> QED  BY <1>11, <2>1, <2>2
<1>14. Left(p)' = Had(p)' \/ Full(p)'
  <2>1. Left(p) = Had(p) => \A n \in Had(p)' : n \in Left(p)'
    BY <1>4, <1>6, <1>8, <1>9
  <2> QED  BY <1>1, <1>11, <1>12, <2>1
<1> QED  BY <1>12, <1>13, <1>14 DEF Remains

\* Files that stay where they are.
LEMMA RemainsUnmoved ==
  ASSUME NEW p \in Procs, Remains(p), Filing(p)' = Filing(p), buf'[p] = buf[p],
         \A k \in Names : Disk(file', k) = Disk(file, k), DOMAIN file \subseteq DOMAIN file',
         rotation[p] = <<"rename", MaxFiles>> => rotation'[p] = rotation[p]
  PROVE  Remains(p)'
<1>1. Had(p)' = Had(p)
  BY DEF Had
<1>2. \A n : (Saved(p, n)' <=> Saved(p, n)) /\ (Pending(p, n)' <=> Pending(p, n))
  BY DEF Saved, InFile, Pending, InBuf
<1>3. Left(p)' = Left(p)
  BY <1>2, LeftParts, LeftPartsNext
<1>4. Full(p) => Full(p)'
  BY DEF Full
<1> QED  BY <1>1, <1>3, <1>4, NoneLost

\* The oldest lines are lost with the file of the highest number.
LEMMA RemainsOldest ==
  ASSUME NEW p \in Procs, OneOrder(p), Remains(p), Full(p)', Had(p)' = Had(p),
         \A n \in Nat : Pending(p, n)' <=> Pending(p, n),
         \A n \in Nat : Saved(p, n)' =>
           \E j \in Names \ {MaxFiles}, i \in Nat : InFile(file, p, j, i, n),
         \A n \in Nat : \A j \in Names, i \in Nat :
           InFile(file, p, j, i, n) /\ j # MaxFiles => Saved(p, n)'
  PROVE  Remains(p)'
<1>1. /\ Left(p) \subseteq Had(p)
      /\ \A n \in Had(p) \ Left(p), m \in Left(p) : n < m
  BY DEF Remains
<1>2. Left(p)' \subseteq Left(p)
  BY LeftParts, LeftPartsNext DEF Saved
<1>3. ASSUME NEW n \in Left(p) \ Left(p)', NEW m \in Left(p)'
      PROVE  n < m
  <2>1. /\ n \in Nat /\ m \in Nat /\ ~Saved(p, n)' /\ ~Pending(p, n)
        /\ Saved(p, m)' \/ Pending(p, m)
    BY LeftParts, LeftPartsNext
  <2>2. Saved(p, n) /\ MaxFiles \in Names
    BY <2>1, LeftParts, NoNames
  <2>3. PICK i \in Nat : InFile(file, p, MaxFiles, i, n)
    BY <2>1, <2>2 DEF Saved
  <2>4. CASE Saved(p, m)'
    <3>1. PICK j \in Names \ {MaxFiles}, l \in Nat : InFile(file, p, j, l, m)
      BY <2>1, <2>4
    <3>2. MaxFiles > j
      BY SharedLogAssumption DEF Names
    <3> QED  BY <2>1, <2>2, <2>3, <3>1, <3>2 DEF OneOrder, FilesOrdered
  <2>5. CASE Pending(p, m)
    BY <2>1, <2>2, <2>3, <2>5 DEF OneOrder, BufOrdered, Pending
  <2> QED  BY <2>1, <2>4, <2>5
<1> HIDE DEF Left, Had
<1>4. \A n \in Had(p)' \ Left(p)', m \in Left(p)' : n < m
  BY <1>1, <1>2, <1>3
<1> QED  BY <1>1, <1>2, <1>4 DEF Remains

LEMMA RemainsRemoved ==
  ASSUME LogTypeOK, FileInv, NEW p \in Procs, OneOrder(p), Generations(p), Remains(p),
         NEW k \in 1 .. MaxFiles, Remove(p, k)
  PROVE  Remains(p)'
<1>1. /\ buf' = buf /\ out' = out /\ rotation[p] = <<"remove", k>> /\ rotation'[p] = <<"rename", k>>
      /\ file' = Restrict(file, DOMAIN file \ {k})
  <2>1. rotation[p] = <<"remove", k>> /\ rotation'[p] = Renaming(rotation[p])
    BY DEF Remove, Generations, FileInv, SinksTyped
  <2> QED  BY <2>1, Tries DEF Remove, logVars
<1>2. k = MaxFiles \/ k \notin DOMAIN file
  <2>1. rotation[p] # NoRotation /\ Gap(p) = k
    BY <1>1 DEF NoRotation, Gap
  <2> QED  BY <2>1 DEF Generations
<1>3. \A j \in Names : Disk(file', j) = IF j = k THEN << >> ELSE Disk(file, j)
  BY <1>1, RemovedFiles DEF FileInv
<1>4. Filing(p)' = Filing(p) /\ Had(p)' = Had(p) /\ \A n : Pending(p, n)' <=> Pending(p, n)
  BY <1>1 DEF Had, Filing, Pending, InBuf
<1>5. CASE k \notin DOMAIN file
  <2>1. \A j \in Names : Disk(file', j) = Disk(file, j)
    BY <1>3, <1>5 DEF Disk
  <2>2. DOMAIN file \subseteq DOMAIN file'
    BY <1>1, <1>5 DEF Restrict
  <2> QED  BY <1>1, <1>4, <2>1, <2>2, RemainsUnmoved
<1>6. CASE k = MaxFiles
  <2>1. Full(p)'
    BY <1>1, <1>6 DEF Full
  <2>2. \A n, i : \A j \in Names : InFile(file', p, j, i, n) <=> InFile(file, p, j, i, n) /\ j # k
    BY <1>3 DEF InFile
  <2>3. \A n \in Nat : Saved(p, n)' =>
          \E j \in Names \ {MaxFiles}, i \in Nat : InFile(file, p, j, i, n)
    BY <1>6, <2>2 DEF Saved
  <2>4. \A n \in Nat : \A j \in Names, i \in Nat :
          InFile(file, p, j, i, n) /\ j # MaxFiles => Saved(p, n)'
    BY <1>6, <2>2 DEF Saved
  <2> QED  BY <1>4, <2>1, <2>3, <2>4, RemainsOldest
<1> QED  BY <1>2, <1>5, <1>6

\* A file has been renamed, and if there was one of that name it had the
\* highest number and the oldest lines.
LEMMA RemainsRenamed ==
  ASSUME LogTypeOK, FileInv, NEW p \in Procs, OneOrder(p), Generations(p), Remains(p),
         NEW k \in 1 .. MaxFiles, Rename(p, k)
  PROVE  Remains(p)'
<1>0. /\ Files(file) /\ k \in Names /\ k - 1 \in Names /\ k # k - 1 /\ MaxFiles \in Nat
      /\ \A j : j < k => j # k
  BY NoNames, SharedLogAssumption DEF FileInv
<1>1. /\ buf' = buf /\ out' = out /\ k - 1 \in DOMAIN file /\ rotation[p] = <<"rename", k>>
      /\ file' = Shifted(k)
  BY DEF Rename, logVars, Generations
<1>2. k = MaxFiles \/ k \notin DOMAIN file
  <2>1. rotation[p] # NoRotation /\ Gap(p) = k
    BY <1>1 DEF NoRotation, Gap
  <2> QED  BY <2>1 DEF Generations
<1>3. \A j \in Names : Disk(file', j) =
        IF j = k THEN Disk(file, k - 1) ELSE IF j = k - 1 THEN << >> ELSE Disk(file, j)
  BY <1>0, <1>1, ShiftedFiles
<1>4. Had(p)' = Had(p) /\ \A n : Pending(p, n)' <=> Pending(p, n)
  BY <1>1 DEF Had, Filing, Pending, InBuf
<1>5. ASSUME NEW n \in Nat, Saved(p, n)'
      PROVE  Saved(p, n) /\ \E j \in Names \ {k}, i \in Nat : InFile(file, p, j, i, n)
  <2>1. PICK j \in Names, i \in Nat : InFile(file', p, j, i, n)
    BY <1>5 DEF Saved
  <2>2. CASE j = k
    BY <1>0, <1>3, <2>1, <2>2 DEF Saved, InFile
  <2>3. CASE j = k - 1
    BY <1>0, <1>3, <2>1, <2>3 DEF InFile
  <2>4. CASE j # k /\ j # k - 1
    BY <1>3, <2>1, <2>4 DEF Saved, InFile
  <2> QED  BY <2>2, <2>3, <2>4
<1>6. ASSUME NEW n \in Nat, NEW j \in Names, NEW i \in Nat, InFile(file, p, j, i, n), j # k
      PROVE  Saved(p, n)'
  <2>1. CASE j = k - 1
    BY <1>0, <1>3, <1>6, <2>1 DEF Saved, InFile
  <2>2. CASE j # k - 1
    BY <1>3, <1>6, <2>2 DEF Saved, InFile
  <2> QED  BY <2>1, <2>2
<1>7. CASE k # MaxFiles
  <2>1. \A n \in Nat : Saved(p, n)' <=> Saved(p, n)
    <3>1. \A i, n : ~InFile(file, p, k, i, n)
      BY <1>2, <1>7 DEF InFile, Disk
    <3> QED  BY <1>5, <1>6, <3>1 DEF Saved
  <2>2. Left(p)' = Left(p)
    BY <1>4, <2>1, LeftParts, LeftPartsNext
  <2>3. Full(p) => Full(p)'
    <3>1. k - 1 # MaxFiles /\ rotation[p] # <<"rename", MaxFiles>>
      BY <1>0, <1>1, <1>7
    <3> QED  BY <1>1, <3>1 DEF Full, Shifted
  <2> QED  BY <1>4, <2>2, <2>3, NoneLost
<1>8. CASE k = MaxFiles
  <2>1. Full(p)'
    BY <1>0, <1>1, <1>8 DEF Full, Shifted
  <2> QED  BY <1>4, <1>5, <1>6, <1>8, <2>1, RemainsOldest
<1> QED  BY <1>7, <1>8

-----------------------------------------------------------------------------
(* How much is left.                                                       *)

\* What a process has written is finite.
LEMMA HadFinite ==
  ASSUME LogTypeOK, FileInv, NEW p \in Procs
  PROVE  IsFiniteSet(Had(p))
<1> DEFINE w == Filing(p)
           g == [i \in 1 .. Len(w) |-> w[i]]
<1>1. Len(w) \in Nat
  BY FilingType
<1>2. Had(p) = {w[i] : i \in 1 .. Len(w)}
  BY DEF Had
<1> HIDE DEF w
<1>3. g \in Surjection(1 .. Len(w), Had(p))
  BY <1>2 DEF Surjection
<1>4. IsFiniteSet(1 .. Len(w))
  BY <1>1, Count
<1> HIDE DEF g
<1> QED  BY <1>3, <1>4, FS_Surjection

\* All names but one.
LEMMA OtherNames ==
  ASSUME NEW h \in Names
  PROVE  IsFiniteSet(Names \ {h}) /\ Cardinality(Names \ {h}) = MaxFiles
<1> DEFINE a == 0
           b == MaxFiles
<1>1. a \in Int /\ b \in Int /\ b \in Nat
  BY SharedLogAssumption
<1>2. Names = a .. b
  BY DEF Names
<1> HIDE DEF a, b
<1>3. IsFiniteSet(Names) /\ Cardinality(Names) = IF a > b THEN 0 ELSE b - a + 1
  BY <1>1, <1>2, FS_Interval
<1>4. Cardinality(Names) = MaxFiles + 1 /\ MaxFiles \in Nat
  BY <1>1, <1>3 DEF a, b
<1> QED  BY <1>3, <1>4, FS_RemoveElement

\* Once there was a file of the highest number, all are there and full, but for
\* the newest or the one that is being renamed.
LEMMA FullFiles ==
  ASSUME FileInv, NEW p \in Procs, Generations(p), Full(p)
  PROVE  Gap(p) \in Names /\ \A k \in Names \ {Gap(p)} : k \in DOMAIN file /\ Len(file[k]) = MaxSize
<1>1. rotation[p] \in Rotations
  BY DEF FileInv, SinksTyped
<1>2. Gap(p) \in Names
  BY <1>1 DEF Rotations, Gap
<1>3. ASSUME NEW k \in Names \ {Gap(p)}
      PROVE  k \in DOMAIN file /\ Len(file[k]) = MaxSize
  <2>1. k \in Nat /\ MaxFiles \in Nat \ {0} /\ k <= MaxFiles
    BY SharedLogAssumption DEF Names
  <2>2. k \in DOMAIN file
    <3>1. CASE MaxFiles \in DOMAIN file
      <4>1. k = MaxFiles \/ k < MaxFiles
        BY <2>1
      <4> QED  BY <3>1, <4>1 DEF Generations
    <3>2. CASE rotation[p] = <<"rename", MaxFiles>>
      <4>1. MaxFiles \in 1 .. MaxFiles /\ Gap(p) = MaxFiles
        BY <2>1, <3>2 DEF Gap
      <4>2. MaxFiles - 1 \in DOMAIN file
        BY <3>2, <4>1 DEF Generations
      <4>3. k = MaxFiles - 1 \/ k < MaxFiles - 1
        BY <2>1, <4>1
      <4> QED  BY <4>2, <4>3 DEF Generations
    <3> QED  BY <3>1, <3>2 DEF Full
  <2>3. rotation[p] = NoRotation => k # 0
    BY DEF Gap, NoRotation
  <2> QED  BY <2>2, <2>3 DEF Generations
<1> QED  BY <1>2, <1>3

\* So much is left then.
LEMMA EnoughLeft ==
  ASSUME LogTypeOK, FileInv, NEW p \in Procs, OneOrder(p), Alone(p), Full(p)
  PROVE  Cardinality(Left(p)) >= MaxFiles * MaxSize
<1> DEFINE K == Names \ {Gap(p)}
           D == K \X (1 .. MaxSize)
           f == [x \in D |-> file[x[1]][x[2]][2]]
<1>1. /\ OwnFiles(p) /\ Generations(p) /\ Left(p) \subseteq Had(p) /\ FilesOrdered(p)
      /\ Gap(p) \in Names /\ MaxSize \in Nat
  BY FullFiles, SharedLogAssumption DEF Alone, Remains, OneOrder
<1>2. IsFiniteSet(Left(p))
  BY <1>1, HadFinite, FS_Subset
<1>3. /\ IsFiniteSet(K) /\ Cardinality(K) = MaxFiles
      /\ IsFiniteSet(1 .. MaxSize) /\ Cardinality(1 .. MaxSize) = MaxSize
  BY <1>1, OtherNames, Count
<1>4. IsFiniteSet(D) /\ Cardinality(D) = MaxFiles * MaxSize
  BY <1>3, FS_Product
<1>5. ASSUME NEW k \in K, NEW i \in 1 .. MaxSize
      PROVE  /\ k \in Names /\ i \in Nat /\ file[k][i][2] \in Nat
             /\ InFile(file, p, k, i, file[k][i][2])
  <2>1. k \in Names /\ k \in DOMAIN file /\ Len(file[k]) = MaxSize /\ Disk(file, k) = file[k]
    BY <1>1, FullFiles DEF Disk
  <2>2. i \in OwnLines(Disk(file, k), p)
    BY <1>1, <2>1 DEF OwnLines, OwnFiles, AllFrom
  <2> QED  BY <2>1, <2>2, Placed
<1>6. \A x \in D : x[1] \in K /\ x[2] \in 1 .. MaxSize /\ x = <<x[1], x[2]>>
  OBVIOUS
<1> HIDE DEF K, D
<1>7. f \in [D -> Left(p)]
  <2>1. \A k \in K, i \in 1 .. MaxSize : file[k][i][2] \in Left(p)
    BY <1>5 DEF Left
  <2> QED  BY <1>6, <2>1
<1>8. ASSUME NEW x \in D, NEW y \in D, f[x] = f[y]
      PROVE  x = y
  <2> DEFINE n == file[x[1]][x[2]][2]
             l == file[y[1]][y[2]][2]
  <2>1. /\ x[1] \in Names /\ x[2] \in Nat /\ n \in Nat /\ InFile(file, p, x[1], x[2], n)
        /\ y[1] \in Names /\ y[2] \in Nat /\ l \in Nat /\ InFile(file, p, y[1], y[2], l)
    BY <1>5, <1>6
  <2>2. n = l
    BY <1>8
  <2> HIDE DEF n, l
  <2>3. ~(x[1] > y[1]) /\ ~(y[1] > x[1])
    <3>1. ~(n < l) /\ ~(l < n)
      BY <2>1, <2>2
    <3> QED  BY <1>1, <2>1, <3>1 DEF FilesOrdered
  <2>4. x[1] = y[1]
    BY <2>1, <2>3 DEF Names
  <2>5. ~(x[2] < y[2]) /\ ~(y[2] < x[2])
    <3>1. ~(n < l) /\ ~(l < n)
      BY <2>1, <2>2
    <3> QED  BY <1>1, <2>1, <2>4, <3>1 DEF FilesOrdered
  <2>6. x[2] = y[2]
    BY <2>1, <2>5
  <2> QED  BY <1>6, <2>4, <2>6
<1> HIDE DEF f
<1>9. f \in Injection(D, Left(p))
  BY <1>7, <1>8 DEF Injection, IsInjective
<1>10. Cardinality(D) <= Cardinality(Left(p))
  BY <1>2, <1>9, FS_Injection
<1>11. Cardinality(Left(p)) \in Nat /\ MaxFiles * MaxSize \in Nat
  BY <1>2, FS_CardinalityType, SharedLogAssumption
<1> QED  BY <1>4, <1>10, <1>11

-----------------------------------------------------------------------------
(* A process that has the log to itself, for ever.                         *)

\* Every step keeps what is true of a process that is alone.
LEMMA AloneSteps ==
  ASSUME LogTypeOK, LogSafe, FileInv, [Next]_sharedVars, NEW p \in Procs,
         OneOrder(p), WrittenInv(p), Lone(p)', Lone(p) => Alone(p)
  PROVE  Alone(p)'
<1>0. Alone(p)
  BY LoneSteps
<1>1. OwnFiles(p) /\ OpenFile(p) /\ Generations(p) /\ Remains(p)
  BY <1>0 DEF Alone
<1>2. CASE Untouched(p)
  <2>1. \A k : Disk(file', k) = Disk(file, k)
    BY <1>2 DEF Untouched, Disk
  <2>2. Remains(p)'
    BY <1>1, <1>2, <2>1, RemainsUnmoved DEF Untouched
  <2> QED  BY <1>1, <1>2, <2>2, AloneUntouched DEF Alone
<1>3. CASE WriteLine(p)
  BY <1>1, <1>3, AloneWriteLine, RemainsWritten DEF Alone
<1>4. CASE StartRotation(p) \/ CloseFile(p)
  BY <1>1, <1>4, AloneCloses, RemainsClosed DEF Alone
<1>5. CASE Killed(p)
  BY <1>1, <1>5, AloneCloses, RemainsKilled DEF Alone
<1>6. CASE EndRotation(p) \/ (~made[p] /\ Open(p) /\ out' = out /\ made'[p])
  <2>1. out' = out /\ rotation[p] # <<"rename", MaxFiles>>
    BY <1>1, <1>6 DEF EndRotation, logVars, OpenFile, NoRotation
  <2>2. Filing(p)' = Filing(p)
    BY <2>1 DEF Filing
  <2>3. /\ OwnFiles(p)' /\ OpenFile(p)' /\ Generations(p)'
        /\ \A k \in Names : Disk(file', k) = Disk(file, k)
        /\ DOMAIN file \subseteq DOMAIN file'
        /\ buf'[p] = buf[p]
    BY <1>1, <1>6, AloneReopens
  <2>4. Remains(p)'
    BY <1>1, <2>1, <2>2, <2>3, RemainsUnmoved
  <2> QED  BY <2>3, <2>4 DEF Alone
<1>7. ASSUME NEW k \in 1 .. MaxFiles,
             \/ Check(p, k) \/ Remove(p, k) \/ Rename(p, k)
             \/ TryAgain(p, k) \/ RenameFails(p, k)
      PROVE  Alone(p)'
  <2>1. CASE Check(p, k)
    <3>1. UNCHANGED <<file, buf, out>> /\ rotation[p] # <<"rename", MaxFiles>>
      BY <2>1 DEF Check, logVars
    <3>2. \A j : Disk(file', j) = Disk(file, j)
      BY <3>1 DEF Disk
    <3>3. Filing(p)' = Filing(p)
      BY <3>1 DEF Filing
    <3>4. Remains(p)'
      BY <1>1, <3>1, <3>2, <3>3, RemainsUnmoved
    <3> QED  BY <1>1, <2>1, <3>4, AloneChecks DEF Alone
  <2>2. CASE Remove(p, k)
    BY <1>1, <2>2, AloneRemoves, RemainsRemoved DEF Alone
  <2>3. CASE Rename(p, k)
    BY <1>1, <2>3, AloneRenames, RemainsRenamed DEF Alone
  <2>4. ~TryAgain(p, k) /\ ~RenameFails(p, k)
    BY <1>1 DEF TryAgain, RenameFails, Generations
  <2> QED  BY <1>7, <2>1, <2>2, <2>3, <2>4
<1> QED  BY <1>2, <1>3, <1>4, <1>5, <1>6, <1>7, LoneSteps

LEMMA InitAlone ==
  ASSUME Init, NEW p \in Procs
  PROVE  WrittenInv(p) /\ Alone(p)
<1>1. /\ file = << >> /\ handle[p] = Closed /\ size[p] = 0 /\ buf[p] = << >>
      /\ rotation[p] = NoRotation /\ made[p] = FALSE /\ Filing(p) = << >>
  BY DEF Init, LogInit, Filing, SinkNames
<1>2. DOMAIN file = {} /\ \A k : Disk(file, k) = << >>
  BY <1>1 DEF Disk
<1>3. WrittenInv(p)
  BY <1>1 DEF WrittenInv
<1>4. OwnFiles(p)
  BY <1>2, OwnNone DEF OwnFiles
<1>5. OpenFile(p)
  BY <1>1, <1>2, NoNames DEF OpenFile, Works
<1>6. Generations(p)
  BY <1>1, <1>2 DEF Generations, NoRotation
<1>7. Left(p) = {} /\ Had(p) = {}
  BY <1>1, <1>2 DEF Left, Had, InFile, InBuf
<1>8. Remains(p)
  BY <1>7 DEF Remains
<1> QED  BY <1>3, <1>4, <1>5, <1>6, <1>8 DEF Alone

\* What is left, as the property says it.
LEMMA KeptIsLeft ==
  ASSUME FileInv, NEW p \in Procs
  PROVE  Kept(p) = Left(p)
<1> DEFINE onDisk(k) == {OnDisk(k)[i][2] : i \in OwnLines(OnDisk(k), p)}
           inBuf     == {buf[p][i][2] : i \in 1 .. Len(buf[p])}
<1>1. \A k : OnDisk(k) = Disk(file, k)
  BY DEF OnDisk, Disk
<1>2. \A k \in Names : \A n \in onDisk(k) : n \in Left(p)
  BY <1>1, Placed DEF Left
<1>3. \A n \in inBuf : n \in Left(p)
  BY Placed DEF Left
<1>4. ASSUME NEW n \in Left(p)
      PROVE  (\E k \in Names : n \in onDisk(k)) \/ n \in inBuf
  <2>1. CASE \E k \in Names, i \in Nat : InFile(file, p, k, i, n)
    <3>1. PICK k \in Names, i \in Nat : InFile(file, p, k, i, n)
      BY <2>1
    <3>2. i \in OwnLines(OnDisk(k), p) /\ OnDisk(k)[i][2] = n
      BY <1>1, <3>1 DEF InFile, OwnLines
    <3> QED  BY <3>2
  <2>2. CASE \E i \in Nat : InBuf(p, i, n)
    BY <2>2 DEF InBuf
  <2> QED  BY <2>1, <2>2 DEF Left
<1>5. \A n : n \in Kept(p) <=> (\E k \in Names : n \in onDisk(k)) \/ n \in inBuf
  BY DEF Kept
<1> HIDE DEF onDisk, inBuf
<1>6. \A n : n \in Kept(p) <=> n \in Left(p)
  BY <1>2, <1>3, <1>4, <1>5
<1> HIDE DEF Kept, Left
<1>7. Kept(p) \subseteq Left(p) /\ Left(p) \subseteq Kept(p)
  BY <1>6
<1> QED  BY <1>7

\* The invariant of what the file sinks have written.
LEMMA AloneForever == Spec => [](OrderInv /\ LoneInv /\ \A p \in Procs : WrittenInv(p))
<1>1. Init => OrderInv /\ LoneInv /\ \A p \in Procs : WrittenInv(p)
  BY InitOrder, InitAlone DEF LoneInv
<1>2. /\ LogTypeOK /\ LogSafe /\ FileInv
      /\ (LogTypeOK /\ LogSafe /\ FileInv)'
      /\ OrderInv /\ LoneInv /\ (\A p \in Procs : WrittenInv(p))
      /\ [Next]_sharedVars
      => (OrderInv /\ LoneInv /\ \A p \in Procs : WrittenInv(p))'
  <2> SUFFICES ASSUME LogTypeOK, LogSafe, FileInv, LogTypeOK', OrderInv, LoneInv,
                      \A p \in Procs : WrittenInv(p), [Next]_sharedVars
               PROVE  (OrderInv /\ LoneInv /\ \A p \in Procs : WrittenInv(p))'
    OBVIOUS
  <2>1. OrderInv'
    BY StepOrder DEF OrderInv
  <2>2. ASSUME NEW p \in Procs
        PROVE  WrittenInv(p)'
    BY LastStays, LastTypeNext, StepWritten
  <2>3. ASSUME NEW p \in Procs, Lone(p)'
        PROVE  Alone(p)'
    BY <2>3, AloneSteps DEF OrderInv, LoneInv
  <2> QED  BY <2>1, <2>2, <2>3 DEF LoneInv
<1> QED  BY <1>1, <1>2, SharesForever, PTL DEF Spec

\* A process that has the log to itself loses none but the oldest lines, and
\* none before the older files are full, for any size and number of files: no
\* rotation overwrites what it should keep, and no buffer is dropped unless the
\* process is killed.  logger.cpp:9.
THEOREM SharedLoneLogIsKept == Spec => []LoneLogIsKept
<1>1. /\ LogTypeOK /\ LogSafe /\ FileInv
      /\ OrderInv /\ LoneInv /\ \A p \in Procs : WrittenInv(p)
      => LoneLogIsKept
  <2> SUFFICES ASSUME LogTypeOK, FileInv, OrderInv, LoneInv, NEW p \in Procs,
                      \A q \in Procs \ {p} : ~made[q]
               PROVE  LET written == {out[p]["file"][i] : i \in 1 .. Len(out[p]["file"])}
                      IN  /\ Kept(p) \subseteq written
                          /\ \A n \in written \ Kept(p), m \in Kept(p) : n < m
                          /\ Kept(p) = written \/ Cardinality(Kept(p)) >= MaxFiles * MaxSize
    BY DEF LoneLogIsKept
  <2>1. Alone(p) /\ OneOrder(p)
    BY DEF LoneInv, Lone, OrderInv
  <2>2. Had(p) = {out[p]["file"][i] : i \in 1 .. Len(out[p]["file"])}
    BY DEF Had, Filing
  <2>3. Full(p) => Cardinality(Left(p)) >= MaxFiles * MaxSize
    BY <2>1, EnoughLeft
  <2> HIDE DEF Left
  <2>4. /\ Left(p) \subseteq Had(p)
        /\ \A n \in Had(p) \ Left(p), m \in Left(p) : n < m
        /\ Left(p) = Had(p) \/ Cardinality(Left(p)) >= MaxFiles * MaxSize
    BY <2>1, <2>3 DEF Alone, Remains
  <2> QED  BY <2>2, <2>4, KeptIsLeft
<1> QED  BY <1>1, AloneForever, SharesForever, PTL
=============================================================================
