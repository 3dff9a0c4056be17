----------------------------- MODULE LineChannel -----------------------------
(***************************************************************************)
(* What the two pipes of a worker process promise (proc.hh, buffered-io.hh, *)
(* and the use that nix-eval-jobs.cc and worker.cc make of them): lines    *)
(* arrive whole, once and in order, in both directions; what a worker has  *)
(* written arrives before the news of its end; and neither side waits for  *)
(* ever.  Proc and EvalWorker, with pipes of whole lines, are built on it. *)
(*                                                                         *)
(* The lines of one worker's life are numbered: the configuration, then    *)
(* next, do and the response for each job, then next and exit.             *)
(***************************************************************************)
EXTENDS Naturals, Sequences

CONSTANT Jobs     \* how many jobs the worker gets

LastLine == 3 * Jobs + 3
LineNo == 1 .. LastLine
FromWorker(i) == i \in LineNo /\ i # 1 /\ i % 3 # 0
ToWorker(i)   == i \in LineNo /\ ~FromWorker(i)

VARIABLES
  workerNext,      \* the line that the worker writes or reads next
  collectorNext,
  toWorker,        \* lines on their way
  fromWorker,
  workerUp,        \* the worker runs
  collectorUp,     \* the collector has this worker in a slot
  killed           \* whom a fault has struck

channelVars ==
  <<workerNext, collectorNext, toWorker, fromWorker, workerUp, collectorUp,
    killed>>

ChannelInit ==
  /\ workerNext = 1 /\ collectorNext = 1
  /\ toWorker = <<>> /\ fromWorker = <<>>
  /\ workerUp = TRUE /\ collectorUp = TRUE
  /\ killed = {}

WorkerSends ==
  /\ workerUp /\ collectorUp /\ FromWorker(workerNext)
  /\ fromWorker' = Append(fromWorker, workerNext)
  /\ workerNext' = workerNext + 1
  /\ UNCHANGED <<collectorNext, toWorker, workerUp, collectorUp, killed>>

WorkerReceives ==
  /\ workerUp /\ toWorker # <<>>
  /\ workerNext' = Head(toWorker) + 1
  /\ toWorker' = Tail(toWorker)
  /\ UNCHANGED <<collectorNext, fromWorker, workerUp, collectorUp, killed>>

WorkerGone == workerUp' = FALSE /\ toWorker' = <<>>

(* After exit, or when it finds the collector gone. *)
WorkerEnds ==
  /\ workerUp
  /\ workerNext = LastLine + 1 \/ ~collectorUp
  /\ WorkerGone
  /\ UNCHANGED <<workerNext, collectorNext, fromWorker, collectorUp, killed>>

CollectorSends ==
  /\ collectorUp /\ workerUp /\ ToWorker(collectorNext)
  /\ toWorker' = Append(toWorker, collectorNext)
  /\ collectorNext' = collectorNext + 1
  /\ UNCHANGED <<workerNext, fromWorker, workerUp, collectorUp, killed>>

CollectorReceives ==
  /\ collectorUp /\ fromWorker # <<>>
  /\ collectorNext' = Head(fromWorker) + 1
  /\ fromWorker' = Tail(fromWorker)
  /\ UNCHANGED <<workerNext, toWorker, workerUp, collectorUp, killed>>

(* onEof: only when everything the worker wrote was taken. *)
CollectorSeesEnd ==
  /\ collectorUp /\ ~workerUp /\ fromWorker = <<>>
  /\ collectorUp' = FALSE
  /\ UNCHANGED <<workerNext, collectorNext, toWorker, fromWorker, workerUp,
                 killed>>

WorkerDies ==
  /\ workerUp /\ WorkerGone
  /\ killed' = killed \cup {"worker"}
  /\ UNCHANGED <<workerNext, collectorNext, fromWorker, collectorUp>>

(* The line that it is writing may be complete but for its newline. *)
CollectorDies ==
  /\ collectorUp /\ collectorUp' = FALSE
  /\ fromWorker' = <<>>
  /\ \/ UNCHANGED toWorker
     \/ /\ workerUp /\ ToWorker(collectorNext)
        /\ toWorker' = Append(toWorker, collectorNext)
  /\ killed' = killed \cup {"collector"}
  /\ UNCHANGED <<workerNext, collectorNext, workerUp>>

WorkerActs == WorkerSends \/ WorkerReceives \/ WorkerEnds
CollectorActs == CollectorSends \/ CollectorReceives \/ CollectorSeesEnd

ChannelNext == WorkerActs \/ CollectorActs \/ WorkerDies \/ CollectorDies

(* What may happen, and what has to. *)
ChannelSafety == ChannelInit /\ [][ChannelNext]_channelVars

ChannelSpec ==
  /\ ChannelSafety
  /\ WF_channelVars(WorkerActs) /\ WF_channelVars(CollectorActs)
=============================================================================
