------------------------------ MODULE SharedLog ------------------------------
(***************************************************************************)
(* The file sink of sinksVector (utils/logger.cpp:8-11) in all programs    *)
(* that run in one directory.  Backend and client give their               *)
(* rotating_file_sink the same name, log_filename, 1 MB per file, five     *)
(* older files log_filename.1 ... .5, and rotate_on_open = false.  Each    *)
(* process counts the file's size for itself and rotates on its own.       *)
(*                                                                         *)
(* The sink is spdlog's, external, on a POSIX file system: a file that is  *)
(* renamed or removed stays with whoever has it open, and everybody        *)
(* appends.  A line has size 1 and is written whole.  Each look whether    *)
(* there is a file to rename, each removal and each rename of a rotation   *)
(* is a step of its own; a rename fails only if there is no such file.     *)
(***************************************************************************)
EXTENDS AsyncLogger, FiniteSets, Functions

CONSTANTS
  MaxSize,    \* lines that fit a file: 1024 * 1024 bytes
  MaxFiles    \* older files that are kept: 5

ASSUME SharedLogAssumption ==
  /\ MaxSize \in Nat \ {0}
  /\ MaxFiles \in Nat \ {0}
  /\ IsFiniteSet(Procs)

VARIABLES
  file,       \* [the names there is a file of -> its lines on disk]
  handle,     \* [Procs -> the name the process's open file has by now]
  size,       \* [Procs -> current_size_, the sink's own count]
  buf,        \* [Procs -> lines in the stdio buffer of the open file]
  rotation    \* [Procs -> where the sink is in its rotation]

fileVars   == <<file, handle, size, buf, rotation>>
sharedVars == <<logVars, fileVars>>

Names      == 0 .. MaxFiles
Closed     == MaxFiles + 1       \* the file is not open
Unlinked   == MaxFiles + 2       \* the file has no name any more
Line       == Procs \X (Nat \ {0})
NoRotation == <<"none", 0>>

\* Where a rotation can be with file k.
Phase == {"none", "check", "remove", "rename", "remove again", "rename again", "reopen"}

\* Every variable has its type; a process without a logger has no file open.
TypeOK ==
  /\ LogTypeOK
  /\ DOMAIN file \subseteq Names
  /\ \A k \in DOMAIN file : file[k] \in Seq(Line)
  /\ handle   \in [Procs -> Names \union {Closed, Unlinked}]
  /\ size     \in [Procs -> Nat]
  /\ buf      \in [Procs -> Seq(Line)]
  /\ rotation \in [Procs -> Phase \X Names]
  /\ \A p \in Procs : ~made[p] => handle[p] = Closed

Init ==
  /\ LogInit
  /\ file     = << >>
  /\ handle   = [p \in Procs |-> Closed]
  /\ size     = [p \in Procs |-> 0]
  /\ buf      = [p \in Procs |-> << >>]
  /\ rotation = [p \in Procs |-> NoRotation]

-----------------------------------------------------------------------------
(* The disk.                                                               *)

OnDisk(k) == IF k \in DOMAIN file THEN file[k] ELSE << >>

\* The file system after p's open file has grown by lines.
Grown(p, lines) ==
  IF handle[p] \in Names THEN [file EXCEPT ![handle[p]] = @ \o lines] ELSE file

\* The file system when log_filename holds these lines.
WithNewest(lines) ==
  [k \in DOMAIN file \union {0} |-> IF k = 0 THEN lines ELSE file[k]]

\* rotating_file_sink's constructor opens the file to append to it and starts
\* counting at the size it has.
Open(p) ==
  IF made[p]
    THEN UNCHANGED fileVars
    ELSE /\ file'   = WithNewest(OnDisk(0))
         /\ handle' = [handle EXCEPT ![p] = 0]
         /\ size'   = [size EXCEPT ![p] = Len(OnDisk(0))]
         /\ UNCHANGED <<buf, rotation>>

\* file_helper::reopen(true): whatever has the name now is truncated, be it a
\* file the other process has just made.
Reopen(p) ==
  /\ file'     = WithNewest(<< >>)
  /\ handle'   = [handle EXCEPT ![p] = 0]
  /\ size'     = [size EXCEPT ![p] = 0]
  /\ rotation' = [rotation EXCEPT ![p] = NoRotation]

\* file_helper::size(), asked behind a flush, may be zero or more.  What is in
\* a file without a name is not modelled.
MayBeEmpty(p) ==
  buf[p] = << >> /\ (handle[p] = Unlinked \/ OnDisk(handle[p]) = << >>)

MayBeFilled(p) ==
  buf[p] # << >> \/ handle[p] = Unlinked \/ OnDisk(handle[p]) # << >>

\* Mutant: the size is compared before the line is added to it.
MutFits(p) == size[p] <= MaxSize

Fits(p) == size[p] + 1 <= MaxSize

-----------------------------------------------------------------------------
(* The file sink of p.                                                     *)

AtFile(p) == Works(p) /\ todo[p] # << >> /\ Head(todo[p]) = "file"

\* The line fits, or the file is empty: it goes into the stdio buffer, which
\* may or may not be written out.
WriteLine(p) ==
  /\ rotation[p] = NoRotation
  /\ Fits(p) \/ MayBeEmpty(p)
  /\ Write(p, "file")
  /\ LET lines == Append(buf[p], <<p, taken[p]>>)
     IN  \/ buf' = [buf EXCEPT ![p] = lines] /\ UNCHANGED file
         \/ buf' = [buf EXCEPT ![p] = << >>] /\ file' = Grown(p, lines)
  /\ size' = [size EXCEPT ![p] = @ + 1]
  /\ UNCHANGED <<handle, rotation>>

\* The disk is full: the line is given up.
WriteFails(p) ==
  /\ rotation[p] = NoRotation
  /\ Fits(p) \/ MayBeEmpty(p)
  /\ WriteThrows(p)
  /\ UNCHANGED fileVars

\* The file is full: it is closed, which writes the buffer out.
StartRotation(p) ==
  /\ AtFile(p)
  /\ rotation[p] = NoRotation
  /\ ~Fits(p) /\ MayBeFilled(p)
  /\ file'     = Grown(p, buf[p])
  /\ buf'      = [buf EXCEPT ![p] = << >>]
  /\ handle'   = [handle EXCEPT ![p] = Closed]
  /\ rotation' = [rotation EXCEPT ![p] = <<"check", MaxFiles>>]
  /\ UNCHANGED <<logVars, size>>

\* Mutant: the loop ends one step early, the newest file is never renamed.
MutAfter(k) == IF k <= 2 THEN <<"reopen", 0>> ELSE <<"check", k - 1>>

After(k) == IF k = 1 THEN <<"reopen", 0>> ELSE <<"check", k - 1>>

\* Is there a file k - 1 that could become file k?
Check(p, k) ==
  /\ AtFile(p)
  /\ rotation[p] = <<"check", k>>
  /\ rotation' = [rotation EXCEPT ![p] =
                    IF k - 1 \in DOMAIN file THEN <<"remove", k>> ELSE After(k)]
  /\ UNCHANGED <<logVars, file, handle, size, buf>>

\* Behind a removal of file k comes the rename, in the same try.
Renaming(r) == <<IF r[1] = "remove" THEN "rename" ELSE "rename again", r[2]>>

\* File k, if there is one, is removed, under whoever has it open.
Remove(p, k) ==
  /\ AtFile(p)
  /\ rotation[p] \in {<<"remove", k>>, <<"remove again", k>>}
  /\ file'     = Restrict(file, DOMAIN file \ {k})
  /\ handle'   = [q \in Procs |-> IF handle[q] = k THEN Unlinked ELSE handle[q]]
  /\ rotation' = [rotation EXCEPT ![p] = Renaming(@)]
  /\ UNCHANGED <<logVars, size, buf>>

\* Mutant: the file is copied and the older name stays until it is written over.
MutShiftedCopy(k) ==
  [j \in DOMAIN file \union {k} |-> file[IF j = k THEN k - 1 ELSE j]]

\* The file system when file k - 1 has become file k, in the place of one that
\* the other process may have made since the removal.
Shifted(k) ==
  [j \in (DOMAIN file \union {k}) \ {k - 1} |-> file[IF j = k THEN k - 1 ELSE j]]

\* File k - 1 is renamed, under whoever has it open.
Rename(p, k) ==
  /\ AtFile(p)
  /\ rotation[p] \in {<<"rename", k>>, <<"rename again", k>>}
  /\ k - 1 \in DOMAIN file
  /\ file'     = Shifted(k)
  /\ handle'   = [q \in Procs |-> CASE handle[q] = k     -> Unlinked
                                    [] handle[q] = k - 1 -> k
                                    [] OTHER             -> handle[q]]
  /\ rotation' = [rotation EXCEPT ![p] = After(k)]
  /\ UNCHANGED <<logVars, size, buf>>

\* Another process has taken the file away: the sink tries again 100 ms later.
TryAgain(p, k) ==
  /\ AtFile(p)
  /\ rotation[p] = <<"rename", k>>
  /\ k - 1 \notin DOMAIN file
  /\ rotation' = [rotation EXCEPT ![p] = <<"remove again", k>>]
  /\ UNCHANGED <<logVars, file, handle, size, buf>>

\* Mutant: the exception leaves the loop over the sinks, and the console does
\* not get the line either.
MutRenameFails(p, k) ==
  /\ AtFile(p)
  /\ rotation[p] = <<"rename again", k>>
  /\ k - 1 \notin DOMAIN file
  /\ missed' = [missed EXCEPT ![p] = @ \union {taken[p]}]
  /\ todo'   = [todo EXCEPT ![p] = << >>]
  /\ taken'  = [taken EXCEPT ![p] = 0]
  /\ Reopen(p)
  /\ UNCHANGED <<proc, made, posted, queue, out, buf>>

\* The second try finds none either: file k is gone, the sink truncates the
\* newest file and throws, without the line.
RenameFails(p, k) ==
  /\ rotation[p] = <<"rename again", k>>
  /\ k - 1 \notin DOMAIN file
  /\ WriteThrows(p)
  /\ Reopen(p)
  /\ UNCHANGED buf

\* All renamed: a new file, into which the waiting line fits.
EndRotation(p) ==
  /\ AtFile(p)
  /\ rotation[p] = <<"reopen", 0>>
  /\ Reopen(p)
  /\ UNCHANGED <<logVars, buf>>

\* The static objects are gone, and there is no line left that holds the sinks.
LetGo(p) ==
  /\ todo[p] = << >>
  /\ \/ proc[p] = "exiting" /\ queue[p] = << >>
     \/ proc[p] = "joining" /\ queue[p] = <<TerminateMsg>>

\* The sinks are destroyed by whoever let go of them last, the file is closed.
CloseFile(p) ==
  /\ LetGo(p)
  /\ handle[p] # Closed
  /\ file'   = Grown(p, buf[p])
  /\ buf'    = [buf EXCEPT ![p] = << >>]
  /\ handle' = [handle EXCEPT ![p] = Closed]
  /\ UNCHANGED <<logVars, size, rotation>>

\* The worker meets the terminate message: the file has been closed by then.
Ends(p) ==
  /\ handle[p] = Closed
  /\ Terminate(p)
  /\ UNCHANGED fileVars

\* A killed process leaves its stdio buffer unwritten and a rotation undone.
Killed(p) ==
  /\ Kill(p, Len(buf[p]))
  /\ buf'    = [buf EXCEPT ![p] = << >>]
  /\ handle' = [handle EXCEPT ![p] = Closed]
  /\ UNCHANGED <<file, size, rotation>>

-----------------------------------------------------------------------------
Step(p) ==
  \/ /\ Post(p) \/ PostTerminate(p) \/ Take(p) \/ Write(p, "console")
     /\ UNCHANGED fileVars
  \/ WriteLine(p) \/ WriteFails(p) \/ StartRotation(p) \/ EndRotation(p)
  \/ \E k \in 1 .. MaxFiles :
       Check(p, k) \/ Remove(p, k) \/ Rename(p, k) \/ TryAgain(p, k) \/ RenameFails(p, k)
  \/ CloseFile(p) \/ Ends(p)

Next ==
  \E p \in Procs :
    \/ Step(p)
    \/ (CallFiltered(p) \/ Call(p)) /\ Open(p)
    \/ (CallThrows(p) \/ Exits(p)) /\ UNCHANGED fileVars
    \/ Killed(p)

Spec == Init /\ [][Next]_sharedVars

-----------------------------------------------------------------------------
(* Properties.                                                             *)

\* The lines of p among these, by their places.
OwnLines(lines, p) == {i \in 1 .. Len(lines) : lines[i][1] = p}

\* Two processes rotate the same files, each in its own time and renaming files
\* the other is writing to.  Lines get lost in that, but those of one process
\* that are left can be read in order, from the highest number down to the
\* file without one, and then in its buffer.  logger.cpp:9.
NewerFilesHoldNewerLines ==
  \A p \in Procs :
    /\ \A k, m \in Names :
         \A i \in OwnLines(OnDisk(k), p), j \in OwnLines(OnDisk(m), p) :
           k > m \/ (k = m /\ i < j) => OnDisk(k)[i][2] < OnDisk(m)[j][2]
    /\ \A j \in 1 .. Len(buf[p]) :
         /\ \A i \in 1 .. j - 1 : buf[p][i][2] < buf[p][j][2]
         /\ \A k \in Names : \A i \in OwnLines(OnDisk(k), p) :
              OnDisk(k)[i][2] < buf[p][j][2]

\* Nobody counts what the other writes into the shared file, but every process
\* adds at most one file's worth.  logger.cpp:9 (1024 * 1024).
FilesStaySmall ==
  \A k \in Names : Len(OnDisk(k)) <= Cardinality(Procs) * MaxSize

\* Whatever happens to the files, to the program and to its console the logger
\* is the one of AsyncLogger: rotating, failing to, and being truncated by the
\* other process are no more than lines written or missed.
ImplementsLogger == LogSpec

\* The lines of p that are left, on disk or in its buffer.
Kept(p) ==
  LET onDisk(k) == {OnDisk(k)[i][2] : i \in OwnLines(OnDisk(k), p)}
  IN  {buf[p][i][2] : i \in 1 .. Len(buf[p])} \union UNION {onDisk(k) : k \in Names}

\* A process that has the log to itself loses lines by age alone: what is lost
\* of what its file sink has written is older than all that is left, and what
\* is left is all or at least what fits into the older files.  logger.cpp:9
\* (five files, no rotation on opening).
LoneLogIsKept ==
  \A p \in Procs :
    (\A q \in Procs \ {p} : ~made[q]) =>
      LET written == {out[p]["file"][i] : i \in 1 .. Len(out[p]["file"])}
      IN  /\ Kept(p) \subseteq written
          /\ \A n \in written \ Kept(p), m \in Kept(p) : n < m
          /\ Kept(p) = written \/ Cardinality(Kept(p)) >= MaxFiles * MaxSize
=============================================================================
