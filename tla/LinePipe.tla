------------------------------- MODULE LinePipe -------------------------------
(***************************************************************************)
(* How lines get through the pipes of a worker process: tryWriteLine and   *)
(* LineReader (buffered-io.cc), Proc::fill and Proc::popLine (proc.cc),    *)
(* between the loop of one slot of the scheduler (readWorker, dispatch)    *)
(* and the loop of its worker (processJobRequest).                         *)
(*                                                                         *)
(* A pipe is a bounded sequence of characters; a write may be split, and   *)
(* blocks while the pipe is full.  The collector's end for reading does    *)
(* not block.  The text of line i is a sequence of i's (JSON has no        *)
(* newline inside).                                                        *)
(***************************************************************************)
EXTENDS Naturals, Sequences, FiniteSets, FiniteSetsExt

CONSTANTS
  Jobs,        \* as in LineChannel
  MaxLength,   \* of the text of a line
  Capacity,    \* of a pipe
  Chunk        \* what one read(2) takes at most

(* Proc::Proc writes the configuration while it holds the other end of the *)
(* pipe itself: it has to fit.                                             *)
PipeAssumption ==
  /\ Jobs \in Nat
  /\ {MaxLength, Chunk} \subseteq Nat \ {0}
  /\ Capacity \in Nat /\ Capacity >= 2

ASSUME PipeAssumption

VARIABLES
  length,       \* length[i]: of the text of line i
  down, up,     \* the pipes
  workerNext, workerUp,
  workerOut,    \* what is left of the line that the worker writes
  stdio,        \* LineReader: what was read from down and not returned
  collectorNext,
  at,           \* "write", "poll", "fill", "pop", or "gone"
  collectorOut, \* what is left of the line that the collector writes
  buf, scanned, \* Proc::buf, Proc::scanned
  eof,          \* fill() has returned false
  killed        \* whom a fault has struck

workerVars == <<workerNext, workerUp, workerOut, stdio>>
collectorVars == <<collectorNext, at, collectorOut, buf, scanned, eof>>
vars == <<length, down, up, workerVars, collectorVars, killed>>

NL == 0
Text(i) == [k \in 1 .. length[i] |-> i]
Terminated(i) == Append(Text(i), NL)

(* The line that a text is, 0 if it is none. *)
LineOf(text) ==
  LET lines == {i \in DOMAIN length : Text(i) = text}
  IN  IF lines = {} THEN 0 ELSE CHOOSE i \in lines : TRUE

Newlines(s) == {k \in DOMAIN s : s[k] = NL}
First(s, n) == SubSeq(s, 1, n)
Without(s, n) == SubSeq(s, n + 1, Len(s))

(* Where the lines of a sequence of characters end, in order. *)
Ends(s) ==
  CHOOSE e \in [1 .. Cardinality(Newlines(s)) -> Newlines(s)] :
    \A i, j \in DOMAIN e : i < j => e[i] < e[j]

(* Its complete lines, and the rest. *)
LinesOf(s) ==
  [j \in DOMAIN Ends(s) |->
     LineOf(SubSeq(s, IF j = 1 THEN 1 ELSE Ends(s)[j - 1] + 1,
                   Ends(s)[j] - 1))]
RestOf(s) == Without(s, Max(Newlines(s) \cup {0}))

(* The refinement mapping: lines are on their way until they are returned. *)
CollectorUp == at # "gone"
LinesDown ==
  IF ~workerUp THEN <<>>
  ELSE LinesOf(stdio \o down)
         \o IF ~CollectorUp /\ LineOf(RestOf(stdio \o down)) # 0
            THEN <<LineOf(RestOf(stdio \o down))>> ELSE <<>>
LinesUp == IF CollectorUp THEN LinesOf(buf \o up) ELSE <<>>

Channel == INSTANCE LineChannel WITH
  toWorker <- LinesDown, fromWorker <- LinesUp, collectorUp <- CollectorUp

FromWorker(i) == Channel!FromWorker(i)
ToWorker(i)   == Channel!ToWorker(i)
LastLine      == Channel!LastLine

Init ==
  /\ length \in [1 .. LastLine -> 1 .. MaxLength]
  /\ length[1] < Capacity
  /\ down = <<>> /\ up = <<>>
  /\ workerNext = 1 /\ workerUp = TRUE /\ workerOut = <<>> /\ stdio = <<>>
  /\ collectorNext = 1 /\ at = "write" /\ collectorOut = Terminated(1)
  /\ buf = <<>> /\ scanned = 0 /\ eof = FALSE
  /\ killed = {}

(***************************************************************************)
(* The worker.                                                             *)
(***************************************************************************)
WorkerBegins ==
  /\ workerUp /\ FromWorker(workerNext) /\ workerOut = <<>>
  /\ workerOut' = Terminated(workerNext)
  /\ UNCHANGED <<length, down, up, workerNext, workerUp, stdio, collectorVars,
                 killed>>

(* Mutant: what write(2) did not take is not written again. *)
ForgetRest(line, n) == <<>>

(* tryWriteLine: string_view.remove_prefix(res). *)
LeftToWrite(line, n) == Without(line, n)

(* What one write(2) may take. *)
Room(pipe, line) ==
  {n \in 1 .. Len(line) : Len(pipe) + n <= Capacity}

WorkerWrites ==
  /\ workerUp /\ workerOut # <<>> /\ CollectorUp
  /\ \E n \in Room(up, workerOut) :
       /\ up' = up \o First(workerOut, n)
       /\ workerOut' = LeftToWrite(workerOut, n)
  /\ workerNext' = IF workerOut' = <<>> THEN workerNext + 1 ELSE workerNext
  /\ UNCHANGED <<length, down, workerUp, stdio, collectorVars, killed>>

(* The process ends, and with it its ends of the pipes: what it has        *)
(* written stays readable.                                                 *)
EndOfWorker ==
  /\ workerUp' = FALSE
  /\ UNCHANGED <<length, down, up, workerNext, workerOut, stdio,
                 collectorVars>>

(* EPIPE. *)
WorkerCannotWrite ==
  /\ workerUp /\ workerOut # <<>> /\ ~CollectorUp
  /\ EndOfWorker /\ UNCHANGED killed

Reading == workerUp /\ ToWorker(workerNext)

(* getline returns a text: the configuration, a command, or something that *)
(* does not parse, which ends the worker.                                  *)
Returns(text, rest) ==
  /\ stdio' = rest
  /\ IF LineOf(text) = 0
     THEN workerUp' = FALSE /\ UNCHANGED workerNext
     ELSE workerNext' = LineOf(text) + 1 /\ UNCHANGED workerUp
  /\ UNCHANGED <<length, down, up, workerOut, collectorVars, killed>>

ReadLine ==
  /\ Reading /\ Newlines(stdio) # {}
  /\ LET nl == Min(Newlines(stdio))
     IN  Returns(First(stdio, nl - 1), Without(stdio, nl))

FillStdio ==
  /\ Reading /\ Newlines(stdio) = {} /\ down # <<>>
  /\ LET n == Min({Len(down), Chunk})
     IN  stdio' = stdio \o First(down, n) /\ down' = Without(down, n)
  /\ UNCHANGED <<length, up, workerNext, workerUp, workerOut, collectorVars,
                 killed>>

AtEof == Reading /\ Newlines(stdio) = {} /\ down = <<>> /\ ~CollectorUp

(* getline returns what there is without a newline. *)
ReadUnterminated == AtEof /\ stdio # <<>> /\ Returns(stdio, <<>>)

ReadEof ==
  /\ AtEof /\ stdio = <<>>
  /\ EndOfWorker /\ UNCHANGED killed

WorkerExits ==
  /\ workerUp /\ workerNext = LastLine + 1
  /\ EndOfWorker /\ UNCHANGED killed

WorkerDies ==
  /\ workerUp
  /\ EndOfWorker /\ killed' = killed \cup {"worker"}

(***************************************************************************)
(* The collector.                                                          *)
(***************************************************************************)

(* sendLine fails with EPIPE: dispatch calls onEof, unless the line was    *)
(* exit, whose failure it ignores.                                         *)
SendFails ==
  /\ at = "write" /\ ~workerUp
  /\ at' = IF collectorNext = LastLine THEN "poll" ELSE "gone"
  /\ UNCHANGED <<length, down, up, workerVars, collectorNext, collectorOut,
                 buf, scanned, eof, killed>>

CollectorWrites ==
  /\ at = "write" /\ workerUp
  /\ \E n \in Room(down, collectorOut) :
       /\ down' = down \o First(collectorOut, n)
       /\ collectorOut' = LeftToWrite(collectorOut, n)
  /\ LET done == collectorOut' = <<>>
     IN  /\ collectorNext' = IF done THEN collectorNext + 1 ELSE collectorNext
         /\ at' = IF done THEN "poll" ELSE "write"
  /\ UNCHANGED <<length, up, workerVars, buf, scanned, eof, killed>>

Poll ==
  /\ at = "poll" /\ (up # <<>> \/ ~workerUp)
  /\ at' = "fill"
  /\ UNCHANGED <<length, down, up, workerVars, collectorNext, collectorOut,
                 buf, scanned, eof, killed>>

(* fill() reads until there is nothing, or the end. *)
FillReads ==
  /\ at = "fill" /\ up # <<>>
  /\ LET n == Min({Len(up), Chunk})
     IN  buf' = buf \o First(up, n) /\ up' = Without(up, n)
  /\ UNCHANGED <<length, down, workerVars, collectorNext, at, collectorOut,
                 scanned, eof, killed>>

FillReturns ==
  /\ at = "fill" /\ up = <<>>
  /\ eof' = ~workerUp
  /\ at' = "pop"
  /\ UNCHANGED <<length, down, up, workerVars, collectorNext, collectorOut,
                 buf, scanned, killed>>

(* What popLine finds, searching on from where it stopped. *)
Found == {k \in Newlines(buf) : k > scanned}

(* Mutant: the position survives the line that was taken. *)
ScannedKept == scanned

ScannedAfterLine == 0

(* A line that does not parse ends the run. *)
PopLine ==
  /\ at = "pop" /\ Found # {}
  /\ LET nl   == Min(Found)
         line == LineOf(First(buf, nl - 1))
     IN  /\ buf' = Without(buf, nl)
         /\ collectorNext' = line + 1
         /\ at' = IF line = 0 THEN "gone" ELSE at
  /\ scanned' = ScannedAfterLine
  /\ UNCHANGED <<length, down, up, workerVars, collectorOut, eof, killed>>

(* Mutant: end of file is handled when it is seen. *)
EofAtOnce == eof

AfterLines == eof /\ Found = {}

(* No line is left: onEof, or the next dispatch. *)
PopNothing ==
  /\ at = "pop"
  /\ \/ /\ AfterLines
        /\ at' = "gone"
        /\ UNCHANGED <<collectorOut, scanned>>
     \/ /\ ~eof /\ Found = {}
        /\ scanned' = Len(buf)
        /\ IF ToWorker(collectorNext)
           THEN at' = "write" /\ collectorOut' = Terminated(collectorNext)
           ELSE at' = "poll" /\ UNCHANGED collectorOut
  /\ UNCHANGED <<length, down, up, workerVars, collectorNext, buf, eof, killed>>

(* The collector is killed, or interrupted in tryWriteLine. *)
CollectorDies ==
  /\ CollectorUp
  /\ at' = "gone"
  /\ killed' = killed \cup {"collector"}
  /\ UNCHANGED <<length, down, up, workerVars, collectorNext, collectorOut,
                 buf, scanned, eof>>

Worker ==
  \/ WorkerBegins \/ WorkerWrites \/ WorkerCannotWrite
  \/ ReadLine \/ FillStdio \/ ReadUnterminated \/ ReadEof
  \/ WorkerExits

Collector ==
  \/ CollectorWrites \/ SendFails
  \/ Poll \/ FillReads \/ FillReturns
  \/ PopLine \/ PopNothing

Stay == ~workerUp /\ ~CollectorUp /\ UNCHANGED vars

Next == Worker \/ Collector \/ WorkerDies \/ CollectorDies \/ Stay

Spec == Init /\ [][Next]_vars

FairSpec == Spec /\ WF_vars(Worker) /\ WF_vars(Collector)

(***************************************************************************)
(* Correctness.                                                            *)
(***************************************************************************)

(* popLine never searches the same characters twice (Proc::scanned), and   *)
(* yet no complete line stays in the buffer: what was searched has no      *)
(* newline, and when the collector waits, neither has the rest.            *)
NothingSkipped ==
  /\ scanned <= Len(buf)
  /\ Newlines(buf) \cap 1 .. scanned = {}
  /\ at \in {"poll", "write"} => Newlines(buf) = {}

(* However writes and reads are split, and whoever dies when: lines arrive *)
(* whole, once and in order, a line that was cut off is never taken for    *)
(* one, the last lines of a dead worker come before its end, and the two   *)
(* sides never wait for each other (tryWriteLine, LineReader, Proc::fill,  *)
(* Proc::popLine, readWorker).                                             *)
ImplementsChannel == Channel!ChannelSpec
=============================================================================
