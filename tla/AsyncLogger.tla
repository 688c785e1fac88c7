----------------------------- MODULE AsyncLogger -----------------------------
(***************************************************************************)
(* The logger of both programs (utils/logger.h and logger.cpp, the same    *)
(* files in the backend and in the client).  A program logs from one       *)
(* thread.  Its first use of a LOG_CAT function creates the thread pool,   *)
(* the sinks and the spdlog::async_logger; from then on a log call puts a  *)
(* line into the pool's bounded queue, and the pool's one worker writes it *)
(* to the sinks in their order.                                            *)
(*                                                                         *)
(* spdlog is not part of the repository.  Its worker, its sinks and what   *)
(* it does when the program ends are modelled from how logger.h and        *)
(* logger.cpp set it up: init_thread_pool(8192, 1), overflow_policy::block *)
(* and a file and a console sink.                                          *)
(***************************************************************************)
EXTENDS Naturals, Sequences

CONSTANTS
  Procs,      \* the programs
  Capacity,   \* entries of the queue: 8192 in initThreadPool
  MaxLines    \* [Procs -> bound on the lines the program logs]

ASSUME AsyncLoggerAssumption == Capacity \in Nat \ {0} /\ MaxLines \in [Procs -> Nat]

VARIABLES
  proc,       \* [Procs -> what the program's logging thread is doing]
  made,       \* [Procs -> do log_cat's static objects exist?]
  posted,     \* [Procs -> lines logged so far; they are numbered from 1]
  queue,      \* [Procs -> the thread pool's queue]
  taken,      \* [Procs -> the line in the worker's hands]
  todo,       \* [Procs -> the sinks that are still to get it]
  out,        \* [Procs -> [sink -> the lines it has written, in order]]
  missed      \* [Procs -> the lines the file sink threw on]

logVars == <<proc, made, posted, queue, taken, todo, out, missed>>

SinkNames    == {"file", "console"}
sinksVector  == <<"file", "console">>
TerminateMsg == 0          \* what ~thread_pool posts for the worker
ProcState    == {"running", "posting", "exiting", "joining", "ended", "dead"}

\* Every variable has its type, and the queue never outgrows its ring buffer.
LogTypeOK ==
  /\ proc   \in [Procs -> ProcState]
  /\ made   \in [Procs -> BOOLEAN]
  /\ posted \in [Procs -> Nat]
  /\ queue  \in [Procs -> Seq(Nat)]
  /\ taken  \in [Procs -> Nat]
  /\ todo   \in [Procs -> {sinksVector, <<"console">>, << >>}]
  /\ out    \in [Procs -> [SinkNames -> Seq(Nat)]]
  /\ missed \in [Procs -> SUBSET Nat]
  /\ \A p \in Procs : Len(queue[p]) <= Capacity

LogInit ==
  /\ proc   = [p \in Procs |-> "running"]
  /\ made   = [p \in Procs |-> FALSE]
  /\ posted = [p \in Procs |-> 0]
  /\ queue  = [p \in Procs |-> << >>]
  /\ taken  = [p \in Procs |-> 0]
  /\ todo   = [p \in Procs |-> << >>]
  /\ out    = [p \in Procs |-> [s \in SinkNames |-> << >>]]
  /\ missed = [p \in Procs |-> {}]

-----------------------------------------------------------------------------
(* The program's thread.                                                   *)

\* A log macro below spdlog's default level: log_cat() still creates the
\* static objects, the logger drops the line.
CallFiltered(p) ==
  /\ proc[p] = "running"
  /\ made' = [made EXCEPT ![p] = TRUE]
  /\ UNCHANGED <<proc, posted, queue, taken, todo, out, missed>>

\* log_info and the levels above it: the line is on its way to the queue.
Call(p) ==
  /\ proc[p] = "running"
  /\ posted[p] < MaxLines[p]
  /\ made'   = [made EXCEPT ![p] = TRUE]
  /\ posted' = [posted EXCEPT ![p] = @ + 1]
  /\ proc'   = [proc EXCEPT ![p] = "posting"]
  /\ UNCHANGED <<queue, taken, todo, out, missed>>

\* The file sink's constructor throws, the file cannot be opened: the
\* exception leaves log_cat() before there is a logger that could catch it.
\* Neither program catches it, so std::terminate ends the program.
CallThrows(p) ==
  /\ proc[p] = "running"
  /\ ~made[p]
  /\ proc' = [proc EXCEPT ![p] = "dead"]
  /\ UNCHANGED <<made, posted, queue, taken, todo, out, missed>>

\* Mutant: async_overflow_policy::overrun_oldest instead of block.
MutEnqueue(p, m) ==
  queue' = [queue EXCEPT ![p] =
              Append(IF Len(@) < Capacity THEN @ ELSE Tail(@), m)]

\* Mutant: the queue has one entry more than its bound.
MutEnqueueLate(p, m) ==
  /\ Len(queue[p]) <= Capacity
  /\ queue' = [queue EXCEPT ![p] = Append(@, m)]

Enqueue(p, m) ==
  /\ Len(queue[p]) < Capacity
  /\ queue' = [queue EXCEPT ![p] = Append(@, m)]

\* async_overflow_policy::block: the thread waits for room in the queue.
Post(p) ==
  /\ proc[p] = "posting"
  /\ Enqueue(p, posted[p])
  /\ proc' = [proc EXCEPT ![p] = "running"]
  /\ UNCHANGED <<made, posted, taken, todo, out, missed>>

\* main returns.  Static objects are destroyed in reverse order, spdlog's
\* registry, which initThreadPool created first, last.  Lines in the queue
\* keep their logger alive, and the logger its sinks.
Exits(p) ==
  /\ proc[p] = "running"
  /\ proc' = [proc EXCEPT ![p] = IF made[p] THEN "exiting" ELSE "ended"]
  /\ UNCHANGED <<made, posted, queue, taken, todo, out, missed>>

\* Mutant: the pool is dropped without its worker being asked to finish.
MutPostTerminate(p) ==
  /\ proc[p] = "exiting"
  /\ proc' = [proc EXCEPT ![p] = "ended"]
  /\ UNCHANGED <<made, posted, queue, taken, todo, out, missed>>

\* The registry drops the pool: ~thread_pool posts its message behind all
\* lines, waiting for room, and then waits for the worker.
PostTerminate(p) ==
  /\ proc[p] = "exiting"
  /\ Enqueue(p, TerminateMsg)
  /\ proc' = [proc EXCEPT ![p] = "joining"]
  /\ UNCHANGED <<made, posted, taken, todo, out, missed>>

\* The program is killed.  Its queue is lost, and the last n lines that the
\* file sink has written were still in the stdio buffer.
Kill(p, n) ==
  /\ proc[p] \notin {"ended", "dead"}
  /\ n <= Len(out[p]["file"])
  /\ proc' = [proc EXCEPT ![p] = "dead"]
  /\ out'  = [out EXCEPT ![p]["file"] = SubSeq(@, 1, Len(@) - n)]
  /\ UNCHANGED <<made, posted, queue, taken, todo, missed>>

-----------------------------------------------------------------------------
(* The worker of the thread pool.                                          *)

\* Mutant: a thread that waits for room keeps the worker from making any.
MutWorks(p) == made[p] /\ proc[p] \notin {"posting", "ended", "dead"}

Works(p) == made[p] /\ proc[p] \notin {"ended", "dead"}

Take(p) ==
  /\ Works(p)
  /\ todo[p] = << >>
  /\ queue[p] # << >>
  /\ Head(queue[p]) # TerminateMsg
  /\ taken' = [taken EXCEPT ![p] = Head(queue[p])]
  /\ todo'  = [todo EXCEPT ![p] = sinksVector]
  /\ queue' = [queue EXCEPT ![p] = Tail(@)]
  /\ UNCHANGED <<proc, made, posted, out, missed>>

\* The next sink is through with the line; behind the last one it is let go.
NextSink(p) ==
  /\ todo'  = [todo EXCEPT ![p] = Tail(@)]
  /\ taken' = [taken EXCEPT ![p] = IF Tail(todo[p]) = << >> THEN 0 ELSE @]

Write(p, s) ==
  /\ Works(p)
  /\ todo[p] # << >>
  /\ Head(todo[p]) = s
  /\ out' = [out EXCEPT ![p][s] = Append(@, taken[p])]
  /\ NextSink(p)
  /\ UNCHANGED <<proc, made, posted, queue, missed>>

\* The file sink throws.  The logger catches it and goes on to the console.
WriteThrows(p) ==
  /\ Works(p)
  /\ todo[p] # << >>
  /\ Head(todo[p]) = "file"
  /\ missed' = [missed EXCEPT ![p] = @ \union {taken[p]}]
  /\ NextSink(p)
  /\ UNCHANGED <<proc, made, posted, queue, out>>

\* The worker meets the terminate message and returns; ~thread_pool joins it
\* and the program has ended.
Terminate(p) ==
  /\ proc[p] = "joining"
  /\ todo[p] = << >>
  /\ queue[p] # << >>
  /\ Head(queue[p]) = TerminateMsg
  /\ queue' = [queue EXCEPT ![p] = Tail(@)]
  /\ proc'  = [proc EXCEPT ![p] = "ended"]
  /\ UNCHANGED <<made, posted, taken, todo, out, missed>>

-----------------------------------------------------------------------------
\* What a thread of the program or the worker does once it is under way.
LogStep(p) ==
  \/ Post(p) \/ PostTerminate(p)
  \/ Take(p) \/ (\E s \in SinkNames : Write(p, s)) \/ WriteThrows(p)
  \/ Terminate(p)

LogNext ==
  \E p \in Procs :
    \/ LogStep(p)
    \/ CallFiltered(p) \/ Call(p) \/ CallThrows(p) \/ Exits(p)
    \/ \E n \in 0 .. Len(out[p]["file"]) : Kill(p, n)

LogSpec == LogInit /\ [][LogNext]_logVars

-----------------------------------------------------------------------------
(* Properties.                                                             *)

\* The lines of p that have reached the queue.
Queued(p) == posted[p] - (IF proc[p] = "posting" THEN 1 ELSE 0)

\* Where line i of p must be, i counted from the first: with the console, with
\* the worker on its way there, or in the queue.
ConsoleLine(p, i) ==
  LET written == Len(out[p]["console"])
      inHand  == IF todo[p] = << >> THEN 0 ELSE 1
  IN  IF i <= written               THEN out[p]["console"][i]
      ELSE IF i <= written + inHand THEN taken[p]
      ELSE queue[p][i - written - inHand]

\* A line is neither lost nor overtaken nor written twice on its way through
\* the queue, however full that is and whatever the file sink throws
\* (overflow_policy::block, logger.h:26): console, worker and queue hold
\* exactly the lines logged, in order.
NothingLostOrSwapped ==
  \A p \in Procs : proc[p] # "dead" =>
    /\ Queued(p) = Len(out[p]["console"]) + (IF todo[p] = << >> THEN 0 ELSE 1)
                   + Len(queue[p]) - (IF proc[p] = "joining" THEN 1 ELSE 0)
    /\ \A i \in 1 .. Queued(p) : ConsoleLine(p, i) = i

\* A program that returns from main has written all it logged: the order in
\* which logger.cpp and LOG_CAT create their static objects lets the worker
\* empty the queue first.  logger.h:20-28, logger.cpp:16-22.
WrittenBeforeExit ==
  \A p \in Procs : proc[p] = "ended" =>
    /\ Len(out[p]["console"]) = posted[p]
    /\ \A i \in 1 .. posted[p] :
         i \in missed[p] \/ \E j \in 1 .. Len(out[p]["file"]) : out[p]["file"][j] = i

\* A program that returns from main is not kept alive by its log.
ExitCompletes == \A p \in Procs : (proc[p] = "exiting") ~> (proc[p] \in {"ended", "dead"})
=============================================================================
