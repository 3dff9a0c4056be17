------------------------------ MODULE EvalJobs ------------------------------
(***************************************************************************)
(* The whole program: the collector (main, the Scheduler it runs, and the  *)
(* thread of the CacheStatusResolver) with its evaluation workers.         *)
(*                                                                         *)
(* Control of main after run() returned: "finish" (resolver.finish()),     *)
(* "finishNotify", "join", "constituents", then exit status 0.  After an   *)
(* exception: "unwind" (the resolver's destructor), "discard",             *)
(* "unwindJoin", then exit status 1.  "gone": the collector was killed.    *)
(***************************************************************************)
EXTENDS Scheduler

vars == <<workerVars, schedulerVars, resolverVars, outputVars>>

Init == WorkerInit /\ SchedulerInit /\ ResolverInit /\ OutputInit

(***************************************************************************)
(* main.                                                                   *)
(***************************************************************************)
MainGoes(from, to) ==
  /\ pc = from
  /\ pc' = to
  /\ UNCHANGED <<slotVars, queueVars, localVars, workerVars>>

FinishClose ==
  /\ MainGoes("finish", IF CheckCacheStatus THEN "finishNotify"
                                            ELSE "constituents")
  /\ IF CheckCacheStatus THEN SetClosed ELSE UNCHANGED resolverVars
  /\ UNCHANGED outputVars

FinishNotify ==
  MainGoes("finishNotify", "join") /\ NotifyClosed /\ UNCHANGED outputVars

(* Mutant: the exception of the thread is not rethrown. *)
AfterJoinAlways == "constituents"
AfterJoin == IF exc THEN "unwind" ELSE "constituents"

(* join returned; rethrow what the thread ended with. *)
FinishJoin ==
  /\ rpc = "exited"
  /\ MainGoes("join", AfterJoin)
  /\ UNCHANGED <<resolverVars, outputVars>>

(* handleConstituents *)
AwaitingConstituents == {p \in Path : HasPendingConstituents(jobs[p])}

Constituents ==
  /\ stdoutOpen \/ AwaitingConstituents = {}
  /\ MainGoes("constituents", "exit0")
  /\ EmitAggregates(AwaitingConstituents)
  /\ UNCHANGED resolverVars

(* openStore, the store while an aggregate is rewritten, or stdout, with   *)
(* some of the aggregates already printed.                                 *)
ConstituentsThrow ==
  /\ StoreFails \/ (~stdoutOpen /\ AwaitingConstituents # {})
  /\ MainGoes("constituents", "unwind")
  /\ \E done \in SUBSET AwaitingConstituents :
       /\ done # AwaitingConstituents \/ done = {}
       /\ EmitAggregates(done)
  /\ UNCHANGED resolverVars

(* ~CacheStatusResolver, then handleExceptions. *)
UnwindClose ==
  /\ MainGoes("unwind", "discard")
  /\ SetClosed
  /\ UNCHANGED outputVars

UnwindDiscard == MainGoes("discard", "unwindJoin") /\ Discard
                                                   /\ UNCHANGED outputVars

UnwindJoin ==
  /\ rpc = "exited"
  /\ MainGoes("unwindJoin", "exit1")
  /\ UNCHANGED <<resolverVars, outputVars>>

MainStep ==
  \/ FinishClose \/ FinishNotify \/ FinishJoin
  \/ Constituents \/ ConstituentsThrow
  \/ UnwindClose \/ UnwindDiscard \/ UnwindJoin

(***************************************************************************)
(* The environment.                                                        *)
(***************************************************************************)
Exited == {"exit0", "exit1"}

StdoutCloses ==
  /\ "stdoutClosed" \in Faults
  /\ stdoutOpen /\ pc \notin Exited \cup {"gone"}
  /\ stdoutOpen' = FALSE
  /\ UNCHANGED <<jobs, printed, workerVars, schedulerVars, resolverVars>>

(* SIGKILL of the collector: its threads end, its pipe ends close. *)
CollectorDies ==
  /\ "collectorDies" \in Faults
  /\ pc \notin Exited \cup {"gone"}
  /\ pc' = "gone"
  /\ parentAlive' = FALSE
  /\ rpc' = "exited"
  /\ UNCHANGED <<slotVars, queueVars, localVars, procVars, oomKills, inbox,
                 batch, kept, known, wanted, closed, aborted, exc,
                 outputVars>>

(***************************************************************************)
(* The system.                                                             *)
(***************************************************************************)
Collector == SchedulerStep \/ MainStep

ProgramOf(w) == WorkerProgram(w) /\ UNCHANGED <<schedulerVars, resolverVars,
                                                outputVars>>
KernelOf(w) == Kernel(w) /\ UNCHANGED <<schedulerVars, resolverVars,
                                        outputVars>>
ReapOf(w) == Reap(w) /\ UNCHANGED <<oomKills, parentAlive, schedulerVars,
                                    resolverVars, outputVars>>
Thread == ResolverProgram /\ UNCHANGED <<workerVars, schedulerVars>>
ThreadFails ==
  /\ StoreThrows \/ ("interrupt" \in Faults /\ ThreadInterrupted)
  /\ UNCHANGED <<workerVars, schedulerVars>>

(* Nothing is left to run. *)
AllOver ==
  /\ pc \in Exited \cup {"gone"}
  /\ \A w \in Worker : proc[w] \in Dead \cup {"none"}
  /\ rpc = "exited"

Terminated == AllOver /\ UNCHANGED vars

Next ==
  \/ Collector
  \/ \E w \in Worker : ProgramOf(w) \/ KernelOf(w)
  \/ Thread \/ ThreadFails
  \/ StdoutCloses \/ CollectorDies
  \/ Terminated

Spec == Init /\ [][Next]_vars

(* Every thread and every process that can run is eventually run by the    *)
(* operating system, a signal that was sent is delivered, and evaluating   *)
(* one attribute ends.                                                     *)
Fairness ==
  /\ WF_vars(Collector)
  /\ WF_vars(Thread)
  /\ \A w \in Worker : WF_vars(ProgramOf(w)) /\ WF_vars(ReapOf(w))

FairSpec == Spec /\ Fairness

(***************************************************************************)
(* Properties.                                                             *)
(***************************************************************************)
LoopPc == {"top", "dispatch", "sendFailed", "poll", "sample", "kill", "read",
           "lines"}
MainPc == {"throw", "finish", "finishNotify", "join", "constituents",
           "unwind", "discard", "unwindJoin", "exit0", "exit1", "gone"}

TypeOK ==
  /\ WorkerTypeOK /\ SchedulerTypeOK /\ ResolverTypeOK /\ OutputTypeOK
  /\ pc \in LoopPc \cup MainPc

(* Control is in run(). *)
InLoop == pc \in LoopPc

Alive == {w \in Worker : proc[w] # "none"}

(* No attribute is lost and none is evaluated for the report twice: a path *)
(* that a listing (or main) has put into the traversal is in exactly one   *)
(* place, waiting in todo or solo, in the hands of one slot, or answered;  *)
(* no other path is anywhere.  Kills, restarts, retries and failing        *)
(* sendLines move paths between the places.  Nothing is printed before it  *)
(* is answered, nor twice.                                                 *)
Discovered(p) ==
  p = Root \/ \E q \in answered :
                 IsListing(q) /\ jobs[q] = "absent" /\ p \in ChildPaths(q)

Places(p) ==
  Cardinality({i \in DOMAIN solo : solo[i] = p})
  + Cardinality({w \in Running : attrPath[w] = p})
  + Cardinality({s \in {"todo", "answered"} :
                   p \in IF s = "todo" THEN todo ELSE answered})

NothingLostOrDoubled ==
  InLoop \/ pc = "finish" =>
    \A p \in Path :
      /\ Places(p) = IF Discovered(p) THEN 1 ELSE 0
      /\ printed[p] <= IF p \in answered THEN 1 ELSE 0

(* Attribution: what a busy slot's process has been told to evaluate, is   *)
(* evaluating or has answered is the path the slot holds, so that no stale *)
(* answer (of a job that was killed, or of the process the slot had        *)
(* before) can be taken for the answer to another job.                     *)
Attribution ==
  InLoop => \A w \in Worker : phase[w] = "Busy" =>
    /\ \A i \in DOMAIN toWorker[w] :
         toWorker[w][i].type = "do" => toWorker[w][i].attrPath = attrPath[w]
    /\ proc[w] = "running" /\ wpc[w] = "eval" => wpath[w] = attrPath[w]
    /\ \A i \in DOMAIN fromWorker[w] :
         fromWorker[w][i].type = "response" =>
           fromWorker[w][i].attrPath = attrPath[w]
    /\ pc = "lines" /\ cur = w =>
         \A i \in DOMAIN lines :
           lines[i].type = "response" => lines[i].attrPath = attrPath[w]

(* Collector and worker agree on whose turn it is: the exceptions of       *)
(* onLine and parseResponse for unexpected lines are never thrown, except  *)
(* for the error of the root value.                                        *)
LinesExpected ==
  pc = "lines" /\ lines # <<>> /\ Unexpected(phase[cur], Head(lines).type)
    => phase[cur] = "Starting" /\ Head(lines).type = "initError"

(* "In Solo mode exactly one worker may exist at all" (dispatch): nobody   *)
(* else's heap is around, also while a worker is killed, restarted or      *)
(* replaced.                                                               *)
SoloAlone == InLoop /\ mode = "Solo" => Cardinality(Alive) <= 1

(* A Solo retry runs "on one fresh worker" (enterSolo): its process holds  *)
(* the memory of the root value and of the retried job, no other job's.    *)
SoloFresh ==
  InLoop /\ mode = "Solo" =>
    \A w \in Running : heap[w] <= BaseRss + Cost[attrPath[w]]

(* takeJob calls solo.back() in Solo whenever nothing runs: there is a     *)
(* retry queued then.                                                      *)
SoloHasWork == InLoop /\ mode = "Solo" /\ Running = {} => solo # <<>>

(* A slot has a process exactly when it is in use; the pointers that       *)
(* dispatch, sampleMemory and readWorker follow are not null.              *)
SlotsInUse ==
  InLoop => /\ \A w \in Worker : phase[w] = "None" <=> proc[w] = "none"
            /\ pc = "sendFailed" => proc[cur] # "none"
            /\ pc = "read" => ready \subseteq Alive

(* Workers are only told to exit when there is nothing left to do, and     *)
(* nothing turns up afterwards.                                            *)
ExitingOnlyWhenFinished == InLoop /\ InPhase("Exiting") # {} => Finished

(* As long as the kernel does not interfere, and no exception leaves a     *)
(* worker, a job is given up only when it could not have run: alone, with  *)
(* the collector, it exceeds the whole budget (onKilled).                  *)
GivesUpOnlyHugeJobs ==
  "escapes" \notin Faults /\ oomKills = 0 =>
    \A p \in Path : jobs[p] = "memory" =>
      CollectorRss + BaseRss + Cost[p] > Budget

(* Success is a promise: exit status 0 means that the whole tree has been  *)
(* evaluated, that stdout carried one line for each path that is not a     *)
(* listing, that neither the event loop nor the thread met anything fatal, *)
(* and that no process is left.                                            *)
ExitOk ==
  pc = "exit0" =>
    /\ \A p \in Path :
         /\ Discovered(p) <=> p \in answered
         /\ printed[p] = IF p \in answered
                            /\ ~(IsListing(p) /\ jobs[p] = "absent")
                         THEN 1 ELSE 0
         /\ jobs[p] # "fatal"
    /\ ~exc
    /\ Alive = {}

(* "Don't spawn more workers than there are jobs to hand out": after a     *)
(* spawn in Parallel the waiting workers do not outnumber the waiting      *)
(* jobs, although spawnable was computed before the loop handed out jobs.  *)
SpawnedForAJob ==
  [][DispatchSpawn =>
       LET waiting == {w \in Worker : phase'[w] \in {"Starting", "Idle"}}
       IN  Cardinality(waiting)
             <= IF mode = "Solo" THEN 1 ELSE Cardinality(todo)]_vars

(* Every job pushed to the resolver is emitted, or still in its hands,     *)
(* unless the thread failed or was told to discard its backlog.            *)
InResolver == Range(inbox) \cup Range(batch) \cup Range(kept)

PushedNotLost ==
  CheckCacheStatus /\ ~exc /\ ~aborted /\ pc # "gone" =>
    \A p \in answered :
      IsJob(p) /\ jobs[p] = "absent" => p \in InResolver

(* The program ends, whatever workers and stores do, and no worker         *)
(* survives it.                                                            *)
Terminates == <>AllOver

(* Once finish() or the destructor has closed the inbox, the thread ends.  *)
ThreadEnds == closed ~> rpc = "exited"

(***************************************************************************)
(* EvalJobs implements Traversal.                                          *)
(***************************************************************************)
Failing == {"throw", "unwind", "discard", "unwindJoin", "exit1", "gone"}
Outcome == IF pc = "exit0" THEN "success"
           ELSE IF pc \in Failing THEN "failure" ELSE "running"

Pending == IF pc \in Failing THEN {}
           ELSE todo \cup Range(solo) \cup {attrPath[w] : w \in Running}

Abstract == INSTANCE Traversal WITH pending <- Pending,
                                    settled <- answered,
                                    outcome <- Outcome

(* The collector, with all its processes and threads, walks the tree as    *)
(* Traversal does; kills, restarts and retries are invisible to it.        *)
ImplementsTraversal == Abstract!TraversalSpec

(***************************************************************************)
(* What the comments say of the scheduler, and the code does not do.       *)
(***************************************************************************)

(* "A job is only dispatched while every running job plus the new one can  *)
(* still grow by `estimate` within the budget" (class comment), where a    *)
(* running worker is one that is Busy or Killed (Worker::running).         *)
EveryRunningJobFits ==
  [][DispatchTodo =>
       \/ Running = {}
       \/ Total(rss) + (Cardinality(Running) + 1) * estimate <= Budget]_vars

(* "finished before the signal landed, retried anyway" (onLine): the end   *)
(* of a worker that was killed for the budget never ends the whole run.    *)
KilledJobIsRetried ==
  [][(pc \in {"lines", "sendFailed"} /\ phase[cur] = "Killed")
       => pc' # "throw"]_vars
=============================================================================
