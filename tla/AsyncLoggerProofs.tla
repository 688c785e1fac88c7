-------------------------- MODULE AsyncLoggerProofs --------------------------
(***************************************************************************)
(* What AsyncLogger promises for any number of programs, any capacity of   *)
(* the queue and any number of lines: no line is lost, overtaken or        *)
(* written twice on its way to the console, and a program that returns     *)
(* from main has written all it logged.                                    *)
(***************************************************************************)
EXTENDS AsyncLogger, TLAPS

USE AsyncLoggerAssumption

-----------------------------------------------------------------------------
(* Types.                                                                  *)

\* Appending to a sequence, element by element.
LEMMA AppendFacts ==
  ASSUME NEW S, NEW s \in Seq(S), NEW e \in S
  PROVE  /\ Append(s, e) \in Seq(S)
         /\ Len(Append(s, e)) = Len(s) + 1
         /\ Len(s) \in Nat
         /\ \A i \in 1 .. Len(s) : Append(s, e)[i] = s[i]
         /\ Append(s, e)[Len(s) + 1] = e
OBVIOUS

\* Taking the first element off a sequence.
LEMMA TailFacts ==
  ASSUME NEW S, NEW s \in Seq(S), s # << >>
  PROVE  /\ Head(s) \in S
         /\ Head(s) = s[1]
         /\ Tail(s) \in Seq(S)
         /\ Len(s) \in Nat \ {0}
         /\ Len(Tail(s)) = Len(s) - 1
         /\ \A i \in 1 .. Len(s) - 1 : Tail(s)[i] = s[i + 1]
OBVIOUS

\* Nothing is left behind the only element.
LEMMA TailOfOne ==
  ASSUME NEW S, NEW s \in Seq(S), Len(s) = 1
  PROVE  Tail(s) = << >>
<1>1. Tail(s) \in Seq(S) /\ Len(Tail(s)) = 0
  BY SMTT(30)
<1>2. \A t \in Seq(S) : Len(t) = 0 => t = << >>
  OBVIOUS
<1> QED BY <1>1, <1>2

\* The sinks that are to get a line: both, the console, or none.
LEMMA SinkFacts ==
  /\ Len(sinksVector) = 2 /\ sinksVector # << >>
  /\ Head(sinksVector) = "file" /\ Tail(sinksVector) = <<"console">>
  /\ Head(<<"console">>) = "console" /\ Tail(<<"console">>) = << >>
  /\ <<"console">> # << >>
  /\ sinksVector # <<"console">>
BY DEF sinksVector

\* The queue after a line has been put into it.
LEMMA EnqueueType ==
  ASSUME LogTypeOK, NEW p \in Procs, NEW m \in Nat, Enqueue(p, m)
  PROVE  /\ queue' \in [Procs -> Seq(Nat)]
         /\ \A q \in Procs : Len(queue'[q]) <= Capacity
<1>1. queue \in [Procs -> Seq(Nat)] /\ \A q \in Procs : Len(queue[q]) <= Capacity
  BY DEF LogTypeOK
<1>2. /\ Append(queue[p], m) \in Seq(Nat)
      /\ Len(Append(queue[p], m)) = Len(queue[p]) + 1
      /\ Len(queue[p]) \in Nat
  BY <1>1, AppendFacts
<1>3. queue' = [queue EXCEPT ![p] = Append(queue[p], m)] /\ Len(queue[p]) < Capacity
  BY DEF Enqueue
<1> QED BY <1>1, <1>2, <1>3

\* The queue after its first entry has been taken out.
LEMMA DequeueType ==
  ASSUME LogTypeOK, NEW p \in Procs, queue[p] # << >>, queue' = [queue EXCEPT ![p] = Tail(@)]
  PROVE  /\ queue' \in [Procs -> Seq(Nat)]
         /\ \A q \in Procs : Len(queue'[q]) <= Capacity
         /\ Head(queue[p]) \in Nat
<1>1. queue \in [Procs -> Seq(Nat)] /\ \A q \in Procs : Len(queue[q]) <= Capacity
  BY DEF LogTypeOK
<1>2. /\ Tail(queue[p]) \in Seq(Nat) /\ Head(queue[p]) \in Nat
      /\ Len(queue[p]) \in Nat
      /\ Len(Tail(queue[p])) = Len(queue[p]) - 1
  BY <1>1, TailFacts
<1> QED BY <1>1, <1>2

\* The worker moves on to the next sink.
LEMMA NextSinkType ==
  ASSUME LogTypeOK, NEW p \in Procs, todo[p] # << >>, NextSink(p)
  PROVE  /\ todo' \in [Procs -> {sinksVector, <<"console">>, << >>}]
         /\ taken' \in [Procs -> Nat]
         /\ Tail(todo[p]) \in {<<"console">>, << >>}
<1>1. todo[p] \in {sinksVector, <<"console">>}
  BY DEF LogTypeOK
<1>2. Tail(todo[p]) \in {<<"console">>, << >>}
  BY <1>1, SinkFacts
<1> QED BY <1>2 DEF LogTypeOK, NextSink

\* The initial state has its types.
LEMMA InitType == LogInit => LogTypeOK
<1> SUFFICES ASSUME LogInit PROVE LogTypeOK
  OBVIOUS
<1>1. << >> \in Seq(Nat) /\ Len(<< >>) = 0
  OBVIOUS
<1>2. out \in [Procs -> [SinkNames -> Seq(Nat)]]
  BY <1>1 DEF LogInit
<1>3. missed \in [Procs -> SUBSET Nat]
  BY DEF LogInit
<1> QED BY <1>1, <1>2, <1>3 DEF LogInit, LogTypeOK, ProcState

\* Every step keeps the types.
LEMMA StepType == LogTypeOK /\ [LogNext]_logVars => LogTypeOK'
<1> SUFFICES ASSUME LogTypeOK, [LogNext]_logVars PROVE LogTypeOK'
  OBVIOUS
<1> USE DEF ProcState
<1>0. CASE UNCHANGED logVars
  BY <1>0 DEF logVars, LogTypeOK
<1>1. ASSUME NEW p \in Procs, CallFiltered(p) PROVE LogTypeOK'
  BY <1>1 DEF CallFiltered, LogTypeOK
<1>2. ASSUME NEW p \in Procs, Call(p) PROVE LogTypeOK'
  BY <1>2 DEF Call, LogTypeOK
<1>3. ASSUME NEW p \in Procs, CallThrows(p) PROVE LogTypeOK'
  BY <1>3 DEF CallThrows, LogTypeOK
<1>4. ASSUME NEW p \in Procs, Post(p) PROVE LogTypeOK'
  <2>1. posted[p] \in Nat
    BY DEF LogTypeOK
  <2> QED BY <1>4, <2>1, EnqueueType DEF Post, LogTypeOK
<1>5. ASSUME NEW p \in Procs, Exits(p) PROVE LogTypeOK'
  BY <1>5 DEF Exits, LogTypeOK
<1>6. ASSUME NEW p \in Procs, PostTerminate(p) PROVE LogTypeOK'
  BY <1>6, EnqueueType DEF PostTerminate, LogTypeOK, TerminateMsg
<1>7. ASSUME NEW p \in Procs, NEW n \in 0 .. Len(out[p]["file"]), Kill(p, n) PROVE LogTypeOK'
  <2>1. out[p] \in [SinkNames -> Seq(Nat)] /\ "file" \in SinkNames
    BY DEF LogTypeOK, SinkNames
  <2>2. SubSeq(out[p]["file"], 1, Len(out[p]["file"]) - n) \in Seq(Nat)
    BY <1>7, <2>1 DEF Kill
  <2>3. out' \in [Procs -> [SinkNames -> Seq(Nat)]]
    BY <1>7, <2>1, <2>2 DEF Kill, LogTypeOK
  <2> QED BY <1>7, <2>3 DEF Kill, LogTypeOK
<1>8. ASSUME NEW p \in Procs, Take(p) PROVE LogTypeOK'
  BY <1>8, DequeueType DEF Take, LogTypeOK
<1>9. ASSUME NEW p \in Procs, NEW s \in SinkNames, Write(p, s) PROVE LogTypeOK'
  <2>1. out[p] \in [SinkNames -> Seq(Nat)] /\ taken[p] \in Nat
    BY DEF LogTypeOK
  <2>2. Append(out[p][s], taken[p]) \in Seq(Nat)
    BY <2>1
  <2>3. out' \in [Procs -> [SinkNames -> Seq(Nat)]]
    BY <1>9, <2>1, <2>2 DEF Write, LogTypeOK
  <2> QED BY <1>9, <2>3, NextSinkType DEF Write, LogTypeOK
<1>10. ASSUME NEW p \in Procs, WriteThrows(p) PROVE LogTypeOK'
  BY <1>10, NextSinkType DEF WriteThrows, LogTypeOK
<1>11. ASSUME NEW p \in Procs, Terminate(p) PROVE LogTypeOK'
  BY <1>11, DequeueType DEF Terminate, LogTypeOK
<1> QED
  BY <1>0, <1>1, <1>2, <1>3, <1>4, <1>5, <1>6, <1>7, <1>8, <1>9, <1>10, <1>11
  DEF LogNext, LogStep

-----------------------------------------------------------------------------
(* Where the lines are.                                                    *)

\* The line in the worker's hands, the line that waits for room in the queue,
\* and the terminate message behind the lines in the queue, as numbers.
InHand(p)  == IF todo[p] = << >> THEN 0 ELSE 1
Waiting(p) == IF proc[p] = "posting" THEN 1 ELSE 0
Mark(p)    == IF proc[p] = "joining" THEN 1 ELSE 0
Written(p) == Len(out[p]["console"])

\* Console, worker and queue hold the lines logged, in this order.
Lines(p) ==
  /\ posted[p] - Waiting(p) = Written(p) + InHand(p) + Len(queue[p]) - Mark(p)
  /\ \A i \in 1 .. Written(p) : out[p]["console"][i] = i
  /\ todo[p] # << >> => taken[p] = Written(p) + 1
  /\ \A i \in 1 .. Len(queue[p]) - Mark(p) : queue[p][i] = Written(p) + InHand(p) + i

\* The terminate message is the last in the queue.
LastIsMark(p) ==
  proc[p] = "joining" => queue[p] # << >> /\ queue[p][Len(queue[p])] = TerminateMsg

\* Before the first log call there is nothing, and a thread that waits has a line.
Fresh(p) ==
  /\ ~made[p] => posted[p] = 0
  /\ proc[p] = "posting" => made[p] /\ posted[p] >= 1

\* The file sink has had line i: it is in the file or was thrown on.
Filed(p, i) ==
  i \in missed[p] \/ \E j \in 1 .. Len(out[p]["file"]) : out[p]["file"][j] = i

\* The file sink has had every line that is on the console or on its way there.
FileFirst(p) ==
  /\ \A i \in 1 .. Written(p) : Filed(p, i)
  /\ todo[p] = <<"console">> => Filed(p, taken[p])

\* Nothing is left when the program has ended.
Empty(p) == proc[p] = "ended" => todo[p] = << >> /\ queue[p] = << >>

LogInv(p) ==
  proc[p] # "dead" => Lines(p) /\ LastIsMark(p) /\ Fresh(p) /\ FileFirst(p) /\ Empty(p)

LogSafe == \A p \in Procs : LogInv(p)

\* A program that does not move keeps its invariant.
LEMMA Frame ==
  ASSUME NEW q \in Procs, LogInv(q),
         UNCHANGED <<proc[q], made[q], posted[q], queue[q], taken[q], todo[q],
                     out[q], missed[q]>>
  PROVE  LogInv(q)'
<1>1. UNCHANGED <<Written(q), InHand(q), Waiting(q), Mark(q)>>
  BY DEF Written, InHand, Waiting, Mark
<1>2. Lines(q) => Lines(q)'
  BY <1>1 DEF Lines
<1>3. FileFirst(q) => FileFirst(q)'
  BY <1>1 DEF FileFirst, Filed
<1>4. LastIsMark(q)' = LastIsMark(q) /\ Empty(q)' = Empty(q)
  BY DEF LastIsMark, Empty
<1>5. Fresh(q) => Fresh(q)'
  BY DEF Fresh
<1> QED BY <1>2, <1>3, <1>4, <1>5 DEF LogInv

\* What LogTypeOK says of one program.
LEMMA TypeOfOne ==
  ASSUME LogTypeOK, NEW p \in Procs
  PROVE  /\ proc[p] \in ProcState /\ made[p] \in BOOLEAN /\ posted[p] \in Nat
         /\ queue[p] \in Seq(Nat) /\ Len(queue[p]) \in Nat
         /\ taken[p] \in Nat /\ todo[p] \in {sinksVector, <<"console">>, << >>}
         /\ out[p] \in [SinkNames -> Seq(Nat)]
         /\ out[p]["console"] \in Seq(Nat) /\ out[p]["file"] \in Seq(Nat)
         /\ Written(p) \in Nat /\ Len(out[p]["file"]) \in Nat
<1>1. out[p] \in [SinkNames -> Seq(Nat)] /\ "console" \in SinkNames /\ "file" \in SinkNames
  BY DEF LogTypeOK, SinkNames
<1>2. out[p]["console"] \in Seq(Nat) /\ out[p]["file"] \in Seq(Nat)
  BY <1>1
<1>3. queue[p] \in Seq(Nat)
  BY DEF LogTypeOK
<1> QED BY <1>1, <1>2, <1>3 DEF LogTypeOK, Written

\* The numbers are numbers.
LEMMA Numbers ==
  ASSUME NEW p \in Procs
  PROVE  InHand(p) \in {0, 1} /\ Waiting(p) \in {0, 1} /\ Mark(p) \in {0, 1}
BY DEF InHand, Waiting, Mark

\* An entry goes into the queue, behind all others.
LEMMA EnqueueAt ==
  ASSUME LogTypeOK, NEW p \in Procs, NEW m \in Nat, Enqueue(p, m)
  PROVE  /\ Len(queue'[p]) = Len(queue[p]) + 1 /\ queue'[p] # << >>
         /\ \A i \in 1 .. Len(queue[p]) : queue'[p][i] = queue[p][i]
         /\ queue'[p][Len(queue[p]) + 1] = m
         /\ \A q \in Procs \ {p} : queue'[q] = queue[q]
<1>1. queue'[p] = Append(queue[p], m) /\ \A q \in Procs \ {p} : queue'[q] = queue[q]
  BY DEF Enqueue, LogTypeOK
<1>2. queue[p] \in Seq(Nat)
  BY TypeOfOne
<1>3. /\ Append(queue[p], m) \in Seq(Nat)
      /\ Len(Append(queue[p], m)) = Len(queue[p]) + 1
      /\ Len(queue[p]) \in Nat
      /\ \A i \in 1 .. Len(queue[p]) : Append(queue[p], m)[i] = queue[p][i]
      /\ Append(queue[p], m)[Len(queue[p]) + 1] = m
  BY <1>2, AppendFacts
<1>4. Append(queue[p], m) # << >>
  BY <1>2
<1> QED BY <1>1, <1>3, <1>4

\* An entry is taken out of the queue.
LEMMA DequeueAt ==
  ASSUME LogTypeOK, NEW p \in Procs, queue[p] # << >>, queue' = [queue EXCEPT ![p] = Tail(@)]
  PROVE  /\ Len(queue[p]) \in Nat \ {0}
         /\ Head(queue[p]) = queue[p][1]
         /\ Len(queue'[p]) = Len(queue[p]) - 1
         /\ \A i \in 1 .. Len(queue[p]) - 1 : queue'[p][i] = queue[p][i + 1]
         /\ \A q \in Procs \ {p} : queue'[q] = queue[q]
<1>1. queue'[p] = Tail(queue[p]) /\ \A q \in Procs \ {p} : queue'[q] = queue[q]
  BY DEF LogTypeOK
<1>2. queue[p] \in Seq(Nat)
  BY TypeOfOne
<1>3. /\ Head(queue[p]) = queue[p][1]
      /\ Len(queue[p]) \in Nat \ {0}
      /\ Len(Tail(queue[p])) = Len(queue[p]) - 1
      /\ \A i \in 1 .. Len(queue[p]) - 1 : Tail(queue[p])[i] = queue[p][i + 1]
  BY <1>2, TailFacts
<1> QED BY <1>1, <1>3

\* At first there are no lines.
LEMMA InitSafe == LogInit => LogSafe
<1> SUFFICES ASSUME LogInit, NEW p \in Procs PROVE LogInv(p)
  BY DEF LogSafe
<1>1. /\ proc[p] = "running" /\ ~made[p] /\ posted[p] = 0 /\ queue[p] = << >>
      /\ taken[p] = 0 /\ todo[p] = << >> /\ out[p]["console"] = << >>
  BY DEF LogInit, SinkNames
<1>2. Len(queue[p]) = 0 /\ Written(p) = 0
  BY <1>1 DEF Written
<1>3. InHand(p) = 0 /\ Waiting(p) = 0 /\ Mark(p) = 0
  BY <1>1 DEF InHand, Waiting, Mark
<1>4. Lines(p)
  BY <1>1, <1>2, <1>3 DEF Lines
<1>5. << >> # <<"console">>
  BY SinkFacts
<1> QED BY <1>1, <1>2, <1>4, <1>5 DEF LogInv, LastIsMark, Fresh, FileFirst, Empty

\* A step of the program's thread that leaves queue, worker and sinks alone,
\* and neither posts nor joins nor ends.
LEMMA ThreadOnly ==
  ASSUME LogTypeOK, NEW p \in Procs, LogInv(p), proc[p] = "running",
         proc'[p] \in {"running", "posting", "exiting"},
         posted'[p] - Waiting(p)' = posted[p], Fresh(p)',
         UNCHANGED <<queue[p], taken[p], todo[p], out[p], missed[p]>>
  PROVE  LogInv(p)'
<1>1. Waiting(p) = 0 /\ Mark(p) = 0 /\ Mark(p)' = 0
  BY DEF Waiting, Mark
<1>2. InHand(p)' = InHand(p) /\ Written(p)' = Written(p)
  BY DEF InHand, Written
<1>3. posted[p] \in Nat
  BY TypeOfOne
<1>4. Lines(p)'
  BY <1>1, <1>2, <1>3 DEF LogInv, Lines
<1>5. FileFirst(p)'
  BY <1>2 DEF LogInv, FileFirst, Filed
<1> QED BY <1>4, <1>5 DEF LogInv, LastIsMark, Empty

-----------------------------------------------------------------------------
(* The steps.                                                              *)

\* A line, or the terminate message, goes into the queue.
LEMMA PostSafe ==
  ASSUME LogTypeOK, NEW p \in Procs, LogInv(p), Post(p)
  PROVE  LogInv(p)'
<1>1. /\ proc[p] = "posting" /\ proc'[p] = "running"
      /\ Enqueue(p, posted[p]) /\ posted[p] \in Nat
      /\ UNCHANGED <<made, posted, taken, todo, out, missed>>
  BY TypeOfOne DEF Post, LogTypeOK
<1>2. Waiting(p) = 1 /\ Waiting(p)' = 0 /\ Mark(p) = 0 /\ Mark(p)' = 0
  BY <1>1 DEF Waiting, Mark
<1>3. InHand(p)' = InHand(p) /\ Written(p)' = Written(p)
  BY <1>1 DEF InHand, Written
<1>4. Lines(p)'
  <2>1. Lines(p)
    BY <1>1 DEF LogInv
  <2>2. /\ Len(queue'[p]) = Len(queue[p]) + 1
        /\ \A i \in 1 .. Len(queue[p]) : queue'[p][i] = queue[p][i]
        /\ queue'[p][Len(queue[p]) + 1] = posted[p]
    BY <1>1, EnqueueAt
  <2>3. Len(queue[p]) \in Nat /\ Written(p) \in Nat /\ InHand(p) \in {0, 1}
    BY TypeOfOne, Numbers
  <2>4. posted[p] = Written(p) + InHand(p) + Len(queue[p]) + 1
    BY <1>1, <1>2, <2>1, <2>3 DEF Lines
  <2>5. \A i \in 1 .. Len(queue'[p]) : queue'[p][i] = Written(p) + InHand(p) + i
    <3>1. SUFFICES ASSUME NEW i \in 1 .. Len(queue'[p])
                   PROVE  queue'[p][i] = Written(p) + InHand(p) + i
      OBVIOUS
    <3>2. CASE i = Len(queue[p]) + 1
      <4>1. queue'[p][i] = posted[p]
        BY <2>2, <3>2
      <4>2. posted[p] = Written(p) + InHand(p) + i
        BY <2>3, <2>4, <3>2, SMTT(30)
      <4> QED BY <4>1, <4>2
    <3>3. CASE i # Len(queue[p]) + 1
      <4>1. i \in 1 .. Len(queue[p]) /\ i \in 1 .. Len(queue[p]) - Mark(p)
        BY <1>2, <2>2, <2>3, <3>1, <3>3
      <4>2. queue[p][i] = Written(p) + InHand(p) + i
        BY <2>1, <4>1 DEF Lines
      <4> QED BY <2>2, <4>1, <4>2
    <3> QED BY <3>2, <3>3
  <2> QED BY <1>1, <1>2, <1>3, <2>1, <2>2, <2>3, <2>4, <2>5 DEF Lines
<1>5. FileFirst(p)'
  BY <1>1, <1>3 DEF LogInv, FileFirst, Filed
<1>6. Fresh(p)'
  BY <1>1 DEF LogInv, Fresh
<1> QED BY <1>1, <1>4, <1>5, <1>6 DEF LogInv, LastIsMark, Empty

\* The terminate message goes behind all lines.
LEMMA PostTerminateSafe ==
  ASSUME LogTypeOK, NEW p \in Procs, LogInv(p), PostTerminate(p)
  PROVE  LogInv(p)'
<1>1. /\ proc[p] = "exiting" /\ proc'[p] = "joining"
      /\ Enqueue(p, TerminateMsg) /\ TerminateMsg \in Nat
      /\ UNCHANGED <<made, posted, taken, todo, out, missed>>
  BY DEF PostTerminate, LogTypeOK, TerminateMsg
<1>2. Waiting(p) = 0 /\ Waiting(p)' = 0 /\ Mark(p) = 0 /\ Mark(p)' = 1
  BY <1>1 DEF Waiting, Mark
<1>3. InHand(p)' = InHand(p) /\ Written(p)' = Written(p)
  BY <1>1 DEF InHand, Written
<1>4. /\ Len(queue'[p]) = Len(queue[p]) + 1 /\ queue'[p] # << >>
      /\ \A i \in 1 .. Len(queue[p]) : queue'[p][i] = queue[p][i]
      /\ queue'[p][Len(queue[p]) + 1] = TerminateMsg
      /\ Len(queue[p]) \in Nat /\ Written(p) \in Nat /\ InHand(p) \in {0, 1}
  BY <1>1, EnqueueAt, TypeOfOne, Numbers
<1>5. Lines(p)'
  <2>1. Lines(p)
    BY <1>1 DEF LogInv
  <2> QED BY <1>1, <1>2, <1>3, <1>4, <2>1 DEF Lines
<1>6. FileFirst(p)'
  BY <1>1, <1>3 DEF LogInv, FileFirst, Filed
<1>7. Fresh(p)'
  BY <1>1 DEF LogInv, Fresh
<1> QED BY <1>1, <1>4, <1>5, <1>6, <1>7 DEF LogInv, LastIsMark, Empty

\* The worker takes the first line.
LEMMA TakeSafe ==
  ASSUME LogTypeOK, NEW p \in Procs, LogInv(p), Take(p)
  PROVE  LogInv(p)'
<1>1. /\ proc[p] \notin {"ended", "dead"} /\ made[p]
      /\ todo[p] = << >> /\ queue[p] # << >> /\ Head(queue[p]) # TerminateMsg
      /\ taken'[p] = Head(queue[p]) /\ todo'[p] = sinksVector
      /\ queue' = [queue EXCEPT ![p] = Tail(@)]
      /\ UNCHANGED <<proc, made, posted, out, missed>>
  BY DEF Take, Works, LogTypeOK
<1>2. /\ Len(queue[p]) \in Nat \ {0}
      /\ Head(queue[p]) = queue[p][1]
      /\ Len(queue'[p]) = Len(queue[p]) - 1
      /\ \A i \in 1 .. Len(queue[p]) - 1 : queue'[p][i] = queue[p][i + 1]
  BY <1>1, DequeueAt
<1>3. /\ UNCHANGED <<Waiting(p), Mark(p), Written(p)>>
      /\ InHand(p) = 0 /\ InHand(p)' = 1
  BY <1>1, SinkFacts DEF Waiting, Mark, Written, InHand
<1>4. Written(p) \in Nat /\ Mark(p) \in {0, 1} /\ Waiting(p) \in {0, 1} /\ posted[p] \in Nat
  BY TypeOfOne, Numbers
<1>5. proc[p] = "joining" => Len(queue[p]) > 1 /\ Mark(p) = 1
  BY <1>1, <1>2 DEF LogInv, LastIsMark, Mark
<1>6. proc[p] # "joining" => Mark(p) = 0
  BY DEF Mark
<1>7. Lines(p)
  BY <1>1 DEF LogInv
<1>8. taken'[p] = Written(p) + 1
  <2>1. 1 \in 1 .. Len(queue[p]) - Mark(p)
    BY <1>2, <1>4, <1>5, <1>6
  <2> QED BY <1>1, <1>2, <1>3, <1>4, <1>7, <2>1 DEF Lines
<1>9. Lines(p)'
  <2>0. posted[p] - Waiting(p) = Written(p) + InHand(p) + Len(queue[p]) - Mark(p)
    BY <1>7 DEF Lines
  <2>1. posted[p] - Waiting(p) = Written(p) + 1 + Len(queue'[p]) - Mark(p)
    <3>1. Len(queue'[p]) = Len(queue[p]) - 1 /\ InHand(p) = 0
      BY <1>2, <1>3
    <3>2. Len(queue[p]) \in Nat /\ Mark(p) \in Nat /\ Written(p) \in Nat
      BY <1>2, <1>4
    <3>3. \A n, m, k \in Nat : n + 0 + m - k = n + 1 + (m - 1) - k
      OBVIOUS
    <3>4. Written(p) + 0 + Len(queue[p]) - Mark(p)
            = Written(p) + 1 + (Len(queue[p]) - 1) - Mark(p)
      BY <3>2, <3>3
    <3>5. posted[p] - Waiting(p) = Written(p) + 0 + Len(queue[p]) - Mark(p)
      BY <2>0, <3>1, Zenon
    <3>6. Written(p) + 1 + (Len(queue[p]) - 1) - Mark(p) = Written(p) + 1 + Len(queue'[p]) - Mark(p)
      BY <3>1, Zenon
    <3> QED BY <3>4, <3>5, <3>6, Zenon
  <2>2. \A i \in 1 .. Len(queue'[p]) - Mark(p) : queue'[p][i] = Written(p) + 1 + i
    <3>1. SUFFICES ASSUME NEW i \in 1 .. Len(queue'[p]) - Mark(p)
                   PROVE  queue'[p][i] = Written(p) + 1 + i
      OBVIOUS
    <3>2. /\ i \in 1 .. Len(queue[p]) - 1 /\ i + 1 \in 1 .. Len(queue[p]) - Mark(p)
          /\ i \in Nat
      BY <1>2, <1>4, <3>1
    <3>3. queue[p][i + 1] = Written(p) + InHand(p) + (i + 1)
      BY <1>7, <3>2 DEF Lines
    <3> QED BY <1>2, <1>3, <1>4, <3>2, <3>3
  <2>3. \A i \in 1 .. Written(p) : out[p]["console"][i] = i
    BY <1>7 DEF Lines
  <2> QED BY <1>1, <1>3, <1>8, <2>1, <2>2, <2>3 DEF Lines
<1>10. LastIsMark(p)'
  <2>1. CASE proc[p] = "joining"
    <3>1. Len(queue[p]) - 1 \in 1 .. Len(queue[p]) - 1
      BY <1>2, <1>5, <2>1
    <3>2. queue'[p][Len(queue'[p])] = queue[p][Len(queue[p])]
      BY <1>2, <3>1
    <3>3. queue'[p] # << >>
      BY <1>2, <3>1
    <3> QED BY <1>1, <2>1, <3>2, <3>3 DEF LogInv, LastIsMark
  <2> QED BY <1>1, <2>1 DEF LastIsMark
<1>11. FileFirst(p)'
  BY <1>1, <1>3, SinkFacts DEF LogInv, FileFirst, Filed
<1> QED BY <1>1, <1>9, <1>10, <1>11 DEF LogInv, Fresh, Empty

\* The worker meets the terminate message: there was nothing before it.
LEMMA TerminateSafe ==
  ASSUME LogTypeOK, NEW p \in Procs, LogInv(p), Terminate(p)
  PROVE  LogInv(p)'
<1>1. /\ proc[p] = "joining" /\ proc'[p] = "ended"
      /\ todo[p] = << >> /\ queue[p] # << >> /\ Head(queue[p]) = TerminateMsg
      /\ queue' = [queue EXCEPT ![p] = Tail(@)]
      /\ UNCHANGED <<made, posted, taken, todo, out, missed>>
  BY DEF Terminate, LogTypeOK
<1>2. /\ Len(queue[p]) \in Nat \ {0}
      /\ Head(queue[p]) = queue[p][1]
      /\ Len(queue'[p]) = Len(queue[p]) - 1
  BY <1>1, DequeueAt
<1>3. /\ Waiting(p) = 0 /\ Waiting(p)' = 0 /\ Mark(p) = 1 /\ Mark(p)' = 0
      /\ UNCHANGED Written(p) /\ InHand(p) = 0 /\ InHand(p)' = 0
  BY <1>1 DEF Waiting, Mark, Written, InHand
<1>4. Written(p) \in Nat /\ posted[p] \in Nat
  BY TypeOfOne
<1>5. Lines(p)
  BY <1>1 DEF LogInv
<1>6. Len(queue[p]) = 1
  <2>1. SUFFICES ASSUME Len(queue[p]) # 1 PROVE FALSE
    OBVIOUS
  <2>0. Len(queue[p]) \in Nat \ {0, 1} /\ Mark(p) = 1
    BY <1>2, <1>3, <2>1
  <2>2. 1 \in 1 .. Len(queue[p]) - Mark(p)
    <3>1. \A n \in Nat \ {0, 1} : 1 \in 1 .. n - 1
      OBVIOUS
    <3> QED BY <2>0, <3>1
  <2>3. queue[p][1] = Written(p) + 1
    <3>1. queue[p][1] = Written(p) + InHand(p) + 1
      BY <1>5, <2>2 DEF Lines
    <3> QED BY <1>3, <1>4, <3>1
  <2> QED BY <1>1, <1>2, <1>4, <2>3 DEF TerminateMsg
<1>7. Lines(p)'
  <2>1. posted[p] = Written(p)
    <3>1. posted[p] - Waiting(p) = Written(p) + InHand(p) + Len(queue[p]) - Mark(p)
      BY <1>5 DEF Lines
    <3> QED BY <1>3, <1>4, <1>6, <3>1
  <2>2. Len(queue'[p]) = 0 /\ 1 .. Len(queue'[p]) - Mark(p)' = {}
    BY <1>2, <1>3, <1>6
  <2>3. posted'[p] - Waiting(p)' = Written(p)' + InHand(p)' + Len(queue'[p]) - Mark(p)'
    <3>1. /\ posted'[p] = Written(p) /\ Waiting(p)' = 0 /\ Written(p)' = Written(p)
          /\ InHand(p)' = 0 /\ Mark(p)' = 0 /\ Written(p) \in Nat
      BY <1>1, <1>3, <1>4, <2>1
    <3> QED BY <2>2, <3>1
  <2>4. \A i \in 1 .. Written(p) : out[p]["console"][i] = i
    BY <1>5 DEF Lines
  <2> QED BY <1>1, <1>3, <2>2, <2>3, <2>4 DEF Lines
<1>8. FileFirst(p)'
  BY <1>1, <1>3 DEF LogInv, FileFirst, Filed
<1>9. queue'[p] = << >>
  <2>1. queue[p] \in Seq(Nat) /\ queue'[p] = Tail(queue[p])
    BY <1>1, TypeOfOne DEF LogTypeOK
  <2> QED BY <1>6, <2>1, TailOfOne
<1> QED BY <1>1, <1>7, <1>8, <1>9 DEF LogInv, LastIsMark, Fresh, Empty

\* The file sink is through with the line, which goes on to the console.
LEMMA FileSinkSafe ==
  ASSUME LogTypeOK, NEW p \in Procs, LogInv(p), proc[p] # "dead",
         todo[p] = sinksVector, NextSink(p),
         UNCHANGED <<proc, made, posted, queue>>,
         out'[p]["console"] = out[p]["console"],
         Filed(p, taken[p])', \A i : Filed(p, i) => Filed(p, i)'
  PROVE  LogInv(p)'
<1>1. todo'[p] = <<"console">> /\ taken'[p] = taken[p]
  BY SinkFacts DEF NextSink, LogTypeOK
<1>2. /\ UNCHANGED <<Waiting(p), Mark(p), Written(p)>>
      /\ InHand(p) = 1 /\ InHand(p)' = 1
  BY <1>1, SinkFacts DEF Waiting, Mark, Written, InHand
<1>3. Lines(p) /\ FileFirst(p) /\ LastIsMark(p) /\ Fresh(p) /\ Empty(p)
  BY DEF LogInv
<1>4. Lines(p)'
  BY <1>1, <1>2, <1>3, SinkFacts DEF Lines
<1>5. FileFirst(p)'
  <2>1. \A i \in 1 .. Written(p) : Filed(p, i)'
    BY <1>3 DEF FileFirst
  <2> QED BY <1>2, <2>1 DEF FileFirst
<1>6. proc[p] # "ended"
  BY <1>3, SinkFacts DEF Empty
<1> QED BY <1>3, <1>4, <1>5, <1>6 DEF LogInv, LastIsMark, Fresh, Empty

\* The file sink writes the line.
LEMMA WriteFileSafe ==
  ASSUME LogTypeOK, NEW p \in Procs, LogInv(p), Write(p, "file")
  PROVE  LogInv(p)'
<1>1. /\ proc[p] # "dead" /\ todo[p] # << >> /\ Head(todo[p]) = "file" /\ NextSink(p)
      /\ out'[p] = [out[p] EXCEPT !["file"] = Append(@, taken[p])]
      /\ UNCHANGED <<proc, made, posted, queue, missed>>
  BY DEF Write, Works, LogTypeOK
<1>2. /\ out[p] \in [SinkNames -> Seq(Nat)] /\ "console" \in SinkNames /\ "file" \in SinkNames
      /\ out[p]["file"] \in Seq(Nat) /\ taken[p] \in Nat
  BY TypeOfOne DEF SinkNames
<1>3. /\ out'[p]["console"] = out[p]["console"]
      /\ out'[p]["file"] = Append(out[p]["file"], taken[p])
  BY <1>1, <1>2
<1>4. /\ Len(out[p]["file"]) \in Nat
      /\ Len(out'[p]["file"]) = Len(out[p]["file"]) + 1
      /\ \A i \in 1 .. Len(out[p]["file"]) : out'[p]["file"][i] = out[p]["file"][i]
      /\ out'[p]["file"][Len(out[p]["file"]) + 1] = taken[p]
  BY <1>2, <1>3, AppendFacts
<1>5. todo[p] = sinksVector
  BY <1>1, SinkFacts, TypeOfOne
<1>6. ASSUME NEW i, Filed(p, i) PROVE Filed(p, i)'
  <2>1. 1 .. Len(out[p]["file"]) \subseteq 1 .. Len(out'[p]["file"])
    BY <1>4
  <2> QED BY <1>1, <1>4, <1>6, <2>1 DEF Filed
<1>7. Filed(p, taken[p])'
  <2>1. taken'[p] = taken[p]
    BY <1>1, <1>5, SinkFacts DEF NextSink, LogTypeOK
  <2>2. Len(out[p]["file"]) + 1 \in 1 .. Len(out'[p]["file"])
    BY <1>4
  <2> QED BY <1>4, <2>1, <2>2 DEF Filed
<1> QED BY <1>1, <1>3, <1>5, <1>6, <1>7, FileSinkSafe

\* The file sink throws on the line.
LEMMA WriteThrowsSafe ==
  ASSUME LogTypeOK, NEW p \in Procs, LogInv(p), WriteThrows(p)
  PROVE  LogInv(p)'
<1>1. /\ proc[p] # "dead" /\ todo[p] # << >> /\ Head(todo[p]) = "file" /\ NextSink(p)
      /\ missed'[p] = missed[p] \union {taken[p]}
      /\ UNCHANGED <<proc, made, posted, queue, out>>
  BY DEF WriteThrows, Works, LogTypeOK
<1>2. todo[p] = sinksVector
  BY <1>1, SinkFacts, TypeOfOne
<1>3. ASSUME NEW i, Filed(p, i) PROVE Filed(p, i)'
  BY <1>1, <1>3 DEF Filed
<1>4. Filed(p, taken[p])'
  <2>1. taken'[p] = taken[p]
    BY <1>1, <1>2, SinkFacts DEF NextSink, LogTypeOK
  <2> QED BY <1>1, <2>1 DEF Filed
<1> QED BY <1>1, <1>2, <1>3, <1>4, FileSinkSafe

\* The console sink writes the line, and the worker lets it go.
LEMMA WriteConsoleSafe ==
  ASSUME LogTypeOK, NEW p \in Procs, LogInv(p), Write(p, "console")
  PROVE  LogInv(p)'
<1>1. /\ proc[p] \notin {"dead", "ended"} /\ todo[p] # << >> /\ Head(todo[p]) = "console"
      /\ NextSink(p)
      /\ out'[p] = [out[p] EXCEPT !["console"] = Append(@, taken[p])]
      /\ UNCHANGED <<proc, made, posted, queue, missed>>
  BY DEF Write, Works, LogTypeOK
<1>2. /\ out[p] \in [SinkNames -> Seq(Nat)] /\ "console" \in SinkNames /\ "file" \in SinkNames
      /\ out[p]["console"] \in Seq(Nat) /\ taken[p] \in Nat
  BY TypeOfOne DEF SinkNames
<1>3. /\ out'[p]["file"] = out[p]["file"]
      /\ out'[p]["console"] = Append(out[p]["console"], taken[p])
  BY <1>1, <1>2
<1>4. /\ Written(p) \in Nat /\ Written(p)' = Written(p) + 1
      /\ \A i \in 1 .. Written(p) : out'[p]["console"][i] = out[p]["console"][i]
      /\ out'[p]["console"][Written(p) + 1] = taken[p]
  BY <1>2, <1>3, AppendFacts DEF Written
<1>5. todo[p] = <<"console">>
  BY <1>1, SinkFacts, TypeOfOne
<1>6. todo'[p] = << >>
  BY <1>1, <1>5, SinkFacts DEF NextSink, LogTypeOK
<1>7. /\ UNCHANGED <<Waiting(p), Mark(p)>> /\ InHand(p) = 1 /\ InHand(p)' = 0
  BY <1>1, <1>5, <1>6, SinkFacts DEF Waiting, Mark, InHand
<1>8. Lines(p) /\ FileFirst(p) /\ LastIsMark(p) /\ Fresh(p) /\ Empty(p)
  BY <1>1 DEF LogInv
<1>9. taken[p] = Written(p) + 1
  BY <1>1, <1>8 DEF Lines
<1>10. Lines(p)'
  <2>1. Written(p)' + InHand(p)' = Written(p) + InHand(p)
    BY <1>4, <1>7
  <2>2. \A i \in 1 .. Written(p)' : out'[p]["console"][i] = i
    <3>1. SUFFICES ASSUME NEW i \in 1 .. Written(p) + 1 PROVE out'[p]["console"][i] = i
      BY <1>4
    <3>2. CASE i = Written(p) + 1
      BY <1>4, <1>9, <3>2
    <3>3. CASE i # Written(p) + 1
      <4>1. i \in 1 .. Written(p)
        BY <1>4, <3>3
      <4> QED BY <1>4, <1>8, <4>1 DEF Lines
    <3> QED BY <3>2, <3>3
  <2> QED BY <1>1, <1>6, <1>7, <1>8, <2>1, <2>2 DEF Lines
<1>11. FileFirst(p)'
  <2>1. ASSUME NEW i, Filed(p, i) PROVE Filed(p, i)'
    BY <1>1, <1>3, <2>1 DEF Filed
  <2>2. ASSUME NEW i \in 1 .. Written(p) + 1 PROVE Filed(p, i)
    <3>1. CASE i = Written(p) + 1
      BY <1>5, <1>8, <1>9, <3>1 DEF FileFirst
    <3>2. CASE i # Written(p) + 1
      <4>1. i \in 1 .. Written(p)
        BY <1>4, <3>2
      <4> QED BY <1>8, <4>1 DEF FileFirst
    <3> QED BY <3>1, <3>2
  <2>3. \A i \in 1 .. Written(p)' : Filed(p, i)'
    BY <1>4, <2>1, <2>2
  <2> QED BY <1>6, <2>3, SinkFacts DEF FileFirst
<1> QED BY <1>1, <1>8, <1>10, <1>11 DEF LogInv, LastIsMark, Fresh, Empty

\* The moves of the program's thread that leave the log alone.
LEMMA ThreadSafe ==
  ASSUME LogTypeOK, NEW p \in Procs, LogInv(p),
         CallFiltered(p) \/ Call(p) \/ CallThrows(p) \/ Exits(p)
  PROVE  LogInv(p)'
<1>1. posted[p] \in Nat
  BY TypeOfOne
<1>2. CASE CallFiltered(p)
  <2>1. /\ proc[p] = "running" /\ made'[p]
        /\ UNCHANGED <<proc, posted, queue, taken, todo, out, missed>>
    BY <1>2 DEF CallFiltered, LogTypeOK
  <2>2. Fresh(p)' /\ posted'[p] - Waiting(p)' = posted[p]
    BY <1>1, <2>1 DEF Fresh, Waiting
  <2> QED BY <2>1, <2>2, ThreadOnly
<1>3. CASE Call(p)
  <2>1. /\ proc[p] = "running" /\ proc'[p] = "posting" /\ made'[p]
        /\ posted'[p] = posted[p] + 1
        /\ UNCHANGED <<queue, taken, todo, out, missed>>
    BY <1>3 DEF Call, LogTypeOK
  <2>2. Fresh(p)' /\ posted'[p] - Waiting(p)' = posted[p]
    BY <1>1, <2>1 DEF Fresh, Waiting
  <2> QED BY <2>1, <2>2, ThreadOnly
<1>4. CASE CallThrows(p)
  BY <1>4 DEF CallThrows, LogTypeOK, LogInv
<1>5. CASE Exits(p)
  <2>1. /\ proc[p] = "running"
        /\ proc'[p] = IF made[p] THEN "exiting" ELSE "ended"
        /\ UNCHANGED <<made, posted, queue, taken, todo, out, missed>>
    BY <1>5 DEF Exits, LogTypeOK
  <2>2. CASE made[p]
    <3>1. Fresh(p)' /\ posted'[p] - Waiting(p)' = posted[p]
      BY <1>1, <2>1, <2>2 DEF LogInv, Fresh, Waiting
    <3> QED BY <2>1, <2>2, <3>1, ThreadOnly
  <2>3. CASE ~made[p]
    <3>1. UNCHANGED <<InHand(p), Written(p), Waiting(p), Mark(p)>>
      BY <2>1, <2>3 DEF InHand, Written, Waiting, Mark
    <3>2. Lines(p) /\ FileFirst(p) /\ Fresh(p)
      BY <2>1 DEF LogInv
    <3>3. Lines(p)'
      BY <2>1, <3>1, <3>2 DEF Lines
    <3>4. FileFirst(p)'
      BY <2>1, <3>1, <3>2 DEF FileFirst, Filed
    <3>5. Waiting(p) = 0 /\ Mark(p) = 0 /\ posted[p] = 0
      BY <2>1, <2>3, <3>2 DEF Waiting, Mark, Fresh
    <3>6. InHand(p) = 0 /\ Len(queue[p]) = 0
      <4>1. 0 - 0 = Written(p) + InHand(p) + Len(queue[p]) - 0
        BY <3>2, <3>5 DEF Lines
      <4>2. Written(p) \in Nat /\ InHand(p) \in Nat /\ Len(queue[p]) \in Nat
        BY TypeOfOne, Numbers
      <4>3. \A a, b, c \in Nat : 0 - 0 = a + b + c - 0 => b = 0 /\ c = 0
        OBVIOUS
      <4> QED BY <4>1, <4>2, <4>3
    <3>7. todo[p] = << >>
      BY <3>6 DEF InHand
    <3>8. queue[p] = << >>
      <4>1. queue[p] \in Seq(Nat)
        BY TypeOfOne
      <4>2. \A s \in Seq(Nat) : Len(s) = 0 => s = << >>
        OBVIOUS
      <4> QED BY <3>6, <4>1, <4>2
    <3> QED BY <2>1, <2>3, <3>2, <3>3, <3>4, <3>7, <3>8 DEF LogInv, LastIsMark, Fresh, Empty
  <2> QED BY <2>2, <2>3
<1> QED BY <1>2, <1>3, <1>4, <1>5

\* A killed program promises nothing.
LEMMA KillSafe ==
  ASSUME LogTypeOK, NEW p \in Procs, NEW n, Kill(p, n)
  PROVE  LogInv(p)'
BY DEF Kill, LogTypeOK, LogInv

\* A step of one program is a stutter of the others.
LEMMA OthersStutter ==
  ASSUME LogTypeOK, NEW p \in Procs, NEW q \in Procs \ {p},
         \/ LogStep(p)
         \/ CallFiltered(p) \/ Call(p) \/ CallThrows(p) \/ Exits(p)
         \/ \E n \in 0 .. Len(out[p]["file"]) : Kill(p, n)
  PROVE  UNCHANGED <<proc[q], made[q], posted[q], queue[q], taken[q], todo[q],
                     out[q], missed[q]>>
<1> USE DEF LogTypeOK
<1>1. ASSUME NEW m, Enqueue(p, m) PROVE queue'[q] = queue[q]
  BY <1>1 DEF Enqueue
<1>2. ASSUME NextSink(p) PROVE todo'[q] = todo[q] /\ taken'[q] = taken[q]
  BY <1>2 DEF NextSink
<1>3. CASE Post(p)
  BY <1>3, <1>1 DEF Post
<1>4. CASE PostTerminate(p)
  BY <1>4, <1>1 DEF PostTerminate
<1>5. CASE Take(p)
  BY <1>5 DEF Take
<1>6. ASSUME NEW s \in SinkNames, Write(p, s) PROVE UNCHANGED
        <<proc[q], made[q], posted[q], queue[q], taken[q], todo[q], out[q], missed[q]>>
  BY <1>6, <1>2 DEF Write
<1>7. CASE WriteThrows(p)
  BY <1>7, <1>2 DEF WriteThrows
<1>8. CASE Terminate(p)
  BY <1>8 DEF Terminate
<1>9. CASE CallFiltered(p)
  BY <1>9 DEF CallFiltered
<1>10. CASE Call(p)
  BY <1>10 DEF Call
<1>11. CASE CallThrows(p)
  BY <1>11 DEF CallThrows
<1>12. CASE Exits(p)
  BY <1>12 DEF Exits
<1>13. ASSUME NEW n, Kill(p, n) PROVE UNCHANGED
         <<proc[q], made[q], posted[q], queue[q], taken[q], todo[q], out[q], missed[q]>>
  BY <1>13 DEF Kill
<1> QED
  BY <1>3, <1>4, <1>5, <1>6, <1>7, <1>8, <1>9, <1>10, <1>11, <1>12, <1>13 DEF LogStep

\* Every step keeps every program's invariant.
LEMMA StepSafe == LogTypeOK /\ LogSafe /\ [LogNext]_logVars => LogSafe'
<1> SUFFICES ASSUME LogTypeOK, LogSafe, [LogNext]_logVars, NEW q \in Procs
             PROVE  LogInv(q)'
  BY DEF LogSafe
<1>0. LogInv(q)
  BY DEF LogSafe
<1>1. CASE UNCHANGED logVars
  BY <1>0, <1>1, Frame DEF logVars
<1>2. CASE LogNext
  <2>1. PICK p \in Procs :
          \/ LogStep(p)
          \/ CallFiltered(p) \/ Call(p) \/ CallThrows(p) \/ Exits(p)
          \/ \E n \in 0 .. Len(out[p]["file"]) : Kill(p, n)
    BY <1>2 DEF LogNext
  <2>2. CASE p # q
    BY <1>0, <2>1, <2>2, OthersStutter, Frame
  <2>3. CASE p = q
    <3>1. SinkNames = {"file", "console"}
      BY DEF SinkNames
    <3> QED
      BY <1>0, <2>1, <2>3, <3>1, PostSafe, PostTerminateSafe, TakeSafe, TerminateSafe,
         WriteFileSafe, WriteConsoleSafe, WriteThrowsSafe, ThreadSafe, KillSafe
      DEF LogStep
  <2> QED BY <2>2, <2>3
<1> QED BY <1>1, <1>2

-----------------------------------------------------------------------------
(* The theorems.                                                           *)

\* The invariant, with the types, holds for ever.
LEMMA SafeForever == LogSpec => [](LogTypeOK /\ LogSafe)
<1>1. LogInit => LogTypeOK /\ LogSafe
  BY InitType, InitSafe
<1>2. LogTypeOK /\ LogSafe /\ [LogNext]_logVars => (LogTypeOK /\ LogSafe)'
  BY StepType, StepSafe
<1> QED BY <1>1, <1>2, PTL DEF LogSpec

\* Every variable has its type, and the queue never outgrows its capacity.
\* logger.cpp:18.
THEOREM LogTypeCorrect == LogSpec => []LogTypeOK
BY SafeForever, PTL

\* The invariant says where every line is.
LEMMA SafeAccounts == LogTypeOK /\ LogSafe => NothingLostOrSwapped
<1> SUFFICES ASSUME LogTypeOK, LogSafe, NEW p \in Procs, proc[p] # "dead"
             PROVE  /\ Queued(p) = Len(out[p]["console"]) + (IF todo[p] = << >> THEN 0 ELSE 1)
                         + Len(queue[p]) - (IF proc[p] = "joining" THEN 1 ELSE 0)
                    /\ \A i \in 1 .. Queued(p) : ConsoleLine(p, i) = i
  BY DEF NothingLostOrSwapped
<1>1. Lines(p)
  BY DEF LogSafe, LogInv
<1>2. Queued(p) = Written(p) + InHand(p) + Len(queue[p]) - Mark(p)
  BY <1>1 DEF Lines, Queued, Waiting
<1>3. /\ Written(p) \in Nat /\ Len(queue[p]) \in Nat
      /\ InHand(p) \in {0, 1} /\ Mark(p) \in {0, 1}
  BY TypeOfOne, Numbers
<1>4. ASSUME NEW i \in 1 .. Queued(p) PROVE ConsoleLine(p, i) = i
  <2>1. ConsoleLine(p, i) =
          IF i <= Written(p)                  THEN out[p]["console"][i]
          ELSE IF i <= Written(p) + InHand(p) THEN taken[p]
          ELSE queue[p][i - Written(p) - InHand(p)]
    BY DEF ConsoleLine, Written, InHand
  <2>2. i \in Nat /\ 1 <= i /\ i <= Written(p) + InHand(p) + Len(queue[p]) - Mark(p)
    BY <1>2, <1>3, <1>4
  <2>3. CASE i <= Written(p)
    <3>1. i \in 1 .. Written(p)
      BY <1>3, <2>2, <2>3
    <3>2. out[p]["console"][i] = i
      BY <1>1, <3>1 DEF Lines
    <3> QED BY <2>1, <2>3, <3>2
  <2>4. CASE ~(i <= Written(p)) /\ i <= Written(p) + InHand(p)
    <3>1. InHand(p) = 1
      BY <1>3, <2>4
    <3>2. taken[p] = Written(p) + 1
      BY <1>1, <3>1 DEF Lines, InHand
    <3>3. i = Written(p) + 1
      BY <1>3, <2>2, <2>4, <3>1
    <3> QED BY <2>1, <2>4, <3>2, <3>3
  <2>5. CASE ~(i <= Written(p)) /\ ~(i <= Written(p) + InHand(p))
    <3> DEFINE k == i - Written(p) - InHand(p)
    <3>1. k \in 1 .. Len(queue[p]) - Mark(p) /\ Written(p) + InHand(p) + k = i
      BY <1>3, <2>2, <2>5, SMTT(30)
    <3>2. queue[p][k] = i
      BY <1>1, <3>1 DEF Lines
    <3> QED BY <2>1, <2>5, <3>2
  <2> QED BY <2>3, <2>4, <2>5
<1> QED BY <1>2, <1>4 DEF Written, InHand, Mark

\* For any capacity of the queue and any number of programs and lines: no line
\* is lost, overtaken or written twice on its way to the console.
\* logger.h:26, logger.cpp:16-22.
THEOREM NothingIsLost == LogSpec => []NothingLostOrSwapped
BY SafeForever, SafeAccounts, PTL

\* The invariant says that an ended program has written all.
LEMMA SafeWritten == LogTypeOK /\ LogSafe => WrittenBeforeExit
<1> SUFFICES ASSUME LogTypeOK, LogSafe, NEW p \in Procs, proc[p] = "ended"
             PROVE  /\ Written(p) = posted[p]
                    /\ \A i \in 1 .. posted[p] : Filed(p, i)
  BY DEF WrittenBeforeExit, Filed, Written
<1>1. Lines(p) /\ FileFirst(p) /\ todo[p] = << >> /\ queue[p] = << >>
  BY DEF LogSafe, LogInv, Empty
<1>2. Waiting(p) = 0 /\ InHand(p) = 0 /\ Mark(p) = 0 /\ Len(queue[p]) = 0
  BY <1>1 DEF Waiting, InHand, Mark
<1>3. Written(p) \in Nat /\ posted[p] \in Nat
  BY TypeOfOne
<1>4. Written(p) = posted[p]
  <2>1. posted[p] - 0 = Written(p) + 0 + 0 - 0
    BY <1>1, <1>2 DEF Lines
  <2> QED BY <1>3, <2>1
<1> QED BY <1>1, <1>4 DEF FileFirst

\* For all sizes: a program that returns from main has written all it logged.
\* logger.h:20-28, logger.cpp:16-22.
THEOREM AllIsWritten == LogSpec => []WrittenBeforeExit
BY SafeForever, SafeWritten, PTL
=============================================================================
