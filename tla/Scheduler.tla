----------------------------- MODULE Scheduler ------------------------------
(***************************************************************************)
(* class Scheduler (nix-eval-jobs.cc): the single-threaded event loop of   *)
(* the collector.  Its workers, their pipes and the resolver's thread run  *)
(* concurrently, so the loop is cut where they can be observed: one step   *)
(* per slot of dispatch(), one for poll, one each for sampling the memory  *)
(* and for the kill that follows, one per pipe that is filled and one per  *)
(* line that is handled.                                                   *)
(*                                                                         *)
(* Control, pc: "top" (head of run()'s loop), "dispatch", "sendFailed",    *)
(* "poll", "sample", "kill", "read", "lines"; "throw" when an exception    *)
(* leaves run(), "finish" when run() returns.                              *)
(***************************************************************************)
EXTENDS EvalWorker, CacheStatusResolver, SequencesExt

CONSTANTS
  CollectorRss,      \* memory of the collector itself
  InitialEstimate,   \* INITIAL_ESTIMATE
  DecayPercent       \* DECAY_PERCENT

EstimateAssumption ==
  /\ CollectorRss \in Nat
  /\ InitialEstimate \in Nat
  /\ DecayPercent \in 0 .. 100

ASSUME EstimateAssumption

VARIABLES
  phase,       \* workers[w].phase
  attrPath,    \* workers[w].attrPath
  rss,         \* workers[w].rss, the last sample
  startRss,    \* workers[w].startRss, the sample when its job was taken
  todo, solo, mode, estimate,
  answered,    \* history: the paths whose outcome was taken into account
  pc,
  cur,         \* the slot dispatch() or pollWorkers() is at
  spawnable,   \* dispatch()'s local
  ready,       \* the slots whose revents are still to be handled
  lines,       \* Proc::buf of the slot being read
  eof,         \* readWorker()'s local
  victim       \* sampleMemory()'s local

slotVars  == <<phase, attrPath, rss, startRss>>
queueVars == <<todo, solo, mode, estimate, answered>>
localVars == <<cur, spawnable, ready, lines, eof, victim>>
schedulerVars == <<slotVars, queueVars, pc, localVars>>

Phase == {"None", "Starting", "Idle", "Busy", "Killed", "Exiting"}

SchedulerInit ==
  /\ phase = [w \in Worker |-> "None"]
  /\ attrPath = [w \in Worker |-> NoPath]
  /\ rss = [w \in Worker |-> 0]
  /\ startRss = [w \in Worker |-> 0]
  /\ todo = {Root} /\ solo = <<>> /\ mode = "Parallel"
  /\ estimate = InitialEstimate /\ answered = {}
  /\ pc = "top" /\ cur = 1 /\ spawnable = 0
  /\ ready = {} /\ lines = <<>> /\ eof = FALSE /\ victim = 1

InPhase(ph) == {w \in Worker : phase[w] = ph}

(* Mutant: a worker that was killed does not count as running. *)
RunningBusyOnly == InPhase("Busy")
Running == InPhase("Busy") \cup InPhase("Killed")

(* Mutant: jobs that are being evaluated are forgotten. *)
FinishedQueuesOnly == todo = {} /\ solo = <<>>
Finished == todo = {} /\ solo = <<>> /\ Running = {}

AnyWorkerAlive == \E w \in Worker : proc[w] # "none"

(***************************************************************************)
(* Memory.                                                                 *)
(***************************************************************************)
Budget == NrWorkers * MaxMemorySize
Total(sample) == CollectorRss + SumFunction(sample)
Larger(a, b) == IF a >= b THEN a ELSE b
Growth(now, start) == IF now > start THEN now - start ELSE 0
Decayed(e) == (e * DecayPercent) \div 100

FitsBudget ==
  LET busy == Cardinality(InPhase("Busy"))
  IN  busy = 0 \/ Total(rss) + (busy + 1) * estimate <= Budget

(***************************************************************************)
(* Slots.                                                                  *)
(***************************************************************************)

(* Mutant: the process is dropped, the slot keeps its phase. *)
ResetWorkersKeepPhase(ws) ==
  /\ DestroyAll(ws)
  /\ attrPath' = [w \in Worker |-> IF w \in ws THEN NoPath ELSE attrPath[w]]
  /\ UNCHANGED <<phase, rss, startRss>>

(* workers[w] = Worker{} for the slots of ws. *)
ResetWorkers(ws) ==
  /\ DestroyAll(ws)
  /\ phase' = [w \in Worker |-> IF w \in ws THEN "None" ELSE phase[w]]
  /\ attrPath' = [w \in Worker |-> IF w \in ws THEN NoPath ELSE attrPath[w]]
  /\ rss' = [w \in Worker |-> IF w \in ws THEN 0 ELSE rss[w]]
  /\ startRss' = [w \in Worker |-> IF w \in ws THEN 0 ELSE startRss[w]]

Throw == pc' = "throw"

(* An exception that nothing but pc tells of. *)
JustThrow ==
  /\ Throw
  /\ UNCHANGED <<slotVars, queueVars, localVars, workerVars, resolverVars,
                 outputVars>>

(* The end of dispatch()'s loop body. *)
NextSlot ==
  IF cur = NrWorkers THEN pc' = "poll" /\ UNCHANGED cur
                     ELSE pc' = "dispatch" /\ cur' = cur + 1

(* Mutant: Solo is never left. *)
StayInSolo == UNCHANGED mode
LeaveSolo == mode' = "Parallel"

(* Mutant: only the kernel's victims are retried, not our own. *)
QueueRetryBusyOnly(w) ==
  solo' = IF phase[w] = "Busy" THEN Append(solo, attrPath[w]) ELSE solo
QueueRetry(w) ==
  solo' = IF w \in Running THEN Append(solo, attrPath[w]) ELSE solo

(* Mutant: a job is retried however often it takes. *)
GivesUpNever(w) == FALSE
GivesUp(w) == w \in Running /\ mode = "Solo"

(* onKilled(w): a job that was running is queued for Solo, or given up     *)
(* when it was alone already.                                              *)
OnKilled(w) ==
  /\ LeaveSolo
  /\ ResetWorkers({w})
  /\ IF GivesUp(w)
     THEN /\ EmitResponse(attrPath[w], "memory")
          /\ answered' = answered \cup {attrPath[w]}
          /\ UNCHANGED solo
     ELSE QueueRetry(w) /\ UNCHANGED <<answered, outputVars>>
  /\ UNCHANGED <<todo, estimate>>

(* onEof(w), then what is written after the call; throwExited tells a      *)
(* SIGKILL from every other way to end.                                    *)
OnEof(w, Continue) ==
  \/ /\ phase[w] = "Exiting"
     /\ ResetWorkers({w})
     /\ Continue
     /\ UNCHANGED <<queueVars, outputVars>>
  \/ /\ phase[w] # "Exiting"
     /\ EndsAsKilled(w)
     /\ OnKilled(w)
     /\ Continue
     /\ GivesUp(w) => ~EmitThrows("memory")
  \/ /\ phase[w] # "Exiting"
     /\ EndsAsKilled(w)
     /\ GivesUp(w) /\ EmitThrows("memory")
     /\ EmitResponse(attrPath[w], "memory")
     /\ Throw
     /\ UNCHANGED <<slotVars, queueVars, cur, procVars>>
  \/ /\ phase[w] # "Exiting"
     /\ ~EndsAsKilled(w) /\ proc[w] \in Dead
     /\ Throw
     /\ UNCHANGED <<slotVars, queueVars, cur, procVars, outputVars>>

(***************************************************************************)
(* run() and dispatch().                                                   *)
(***************************************************************************)
LoopExit ==
  /\ pc = "top"
  /\ Finished /\ ~AnyWorkerAlive
  /\ pc' = "finish"
  /\ UNCHANGED <<slotVars, queueVars, localVars, workerVars, resolverVars,
                 outputVars>>

(* checkInterrupt *)
Interrupt == "interrupt" \in Faults /\ pc = "top" /\ JustThrow

LoopGoesOn == pc = "top" /\ ~(Finished /\ ~AnyWorkerAlive)
MustEnterSolo == mode = "Parallel" /\ solo # <<>> /\ Running = {}

(* Mutant: enterSolo keeps the workers. *)
SlotsDroppedForSoloNone == {}
SlotsDroppedForSolo == Worker

(* dispatch() up to its loop, through enterSolo. *)
BeginSolo ==
  /\ LoopGoesOn /\ MustEnterSolo
  /\ ResetWorkers(SlotsDroppedForSolo)
  /\ mode' = "Solo"
  /\ spawnable' = 1
  /\ pc' = "dispatch" /\ cur' = 1
  /\ UNCHANGED <<todo, solo, estimate, answered, ready, lines, eof, victim,
                 oomKills, parentAlive, resolverVars, outputVars>>

(* Mutant: workers that are still starting will not take a job. *)
WaitingIdleOnly == InPhase("Idle")
Waiting == InPhase("Starting") \cup InPhase("Idle")

(* Mutant: Solo spawns although a worker is there. *)
SpawnableSoloAgain ==
  CASE mode = "Solo" -> 1
    [] mode # "Solo" /\ solo = <<>>
         /\ Cardinality(todo) > Cardinality(Waiting) ->
           Cardinality(todo) - Cardinality(Waiting)
    [] OTHER -> 0

(* Mutant: the subtraction is not cut off at zero. *)
SpawnableUnderflow ==
  CASE mode = "Solo" -> IF AnyWorkerAlive THEN 0 ELSE 1
    [] mode # "Solo" /\ solo = <<>> ->
         Cardinality(todo) - Cardinality(Waiting)
    [] OTHER -> 0

(* How many processes this pass over the slots may create. *)
Spawnable ==
  CASE mode = "Solo" -> IF AnyWorkerAlive THEN 0 ELSE 1
    [] mode # "Solo" /\ solo = <<>>
         /\ Cardinality(todo) > Cardinality(Waiting) ->
           Cardinality(todo) - Cardinality(Waiting)
    [] OTHER -> 0

(* dispatch() up to its loop. *)
BeginDispatch ==
  /\ LoopGoesOn /\ ~MustEnterSolo
  /\ spawnable' = Spawnable
  /\ pc' = "dispatch" /\ cur' = 1
  /\ UNCHANGED <<slotVars, queueVars, ready, lines, eof, victim, workerVars,
                 resolverVars, outputVars>>

(* Mutant: a worker that runs a job is given another. *)
IsFreeWhenBusy(w) == phase[w] \in {"Idle", "Busy"}
(* Mutant: a worker need not have asked for a job. *)
IsFreeWhenStarting(w) == phase[w] \in {"Idle", "Starting"}
IsFree(w) == phase[w] = "Idle"

DispatchExit ==
  /\ pc = "dispatch"
  /\ IsFree(cur) /\ Finished
  /\ SendLine(cur, MsgExit)
  /\ phase' = [phase EXCEPT ![cur] = "Exiting"]
  /\ NextSlot
  /\ UNCHANGED <<attrPath, rss, startRss, queueVars, spawnable, ready, lines,
                 eof, victim, proc, wpc, wpath, heap, fromWorker, oomKills,
                 parentAlive, resolverVars, outputVars>>

(* The job p goes to the idle worker of slot cur. *)
HandOut(p) ==
  /\ attrPath' = [attrPath EXCEPT ![cur] = p]
  /\ startRss' = [startRss EXCEPT ![cur] = rss[cur]]
  /\ phase' = [phase EXCEPT ![cur] = "Busy"]
  /\ SendLine(cur, MsgDo(p))
  /\ IF SendOk(cur) THEN NextSlot
                    ELSE pc' = "sendFailed" /\ UNCHANGED cur
  /\ UNCHANGED <<rss, mode, estimate, answered, spawnable, ready, lines, eof,
                 victim, proc, wpc, wpath, heap, fromWorker, oomKills, parentAlive,
                 resolverVars, outputVars>>

(* takeJob, Mode::Solo: solo.back() of an empty vector would be undefined; *)
(* SoloHasWork says that this never happens.                               *)
MayTakeSolo == mode = "Solo" /\ Running = {}

DispatchSolo ==
  /\ pc = "dispatch"
  /\ IsFree(cur) /\ ~Finished
  /\ MayTakeSolo
  /\ solo # <<>>
  /\ HandOut(Last(solo))
  /\ solo' = Front(solo)
  /\ UNCHANGED todo

(* takeJob, Mode::Parallel: nothing is taken while a Solo retry is queued. *)
(* The set's order decides which path is next; any may be.                 *)
MayTakeTodo == mode = "Parallel" /\ solo = <<>> /\ todo # {} /\ FitsBudget

DispatchTodo ==
  /\ pc = "dispatch"
  /\ IsFree(cur) /\ ~Finished
  /\ MayTakeTodo
  /\ \E p \in todo : HandOut(p) /\ todo' = todo \ {p}
  /\ UNCHANGED solo

MaySpawn == phase[cur] = "None" /\ spawnable > 0 /\ ~Finished

DispatchSpawn ==
  /\ pc = "dispatch"
  /\ MaySpawn
  /\ Spawn(cur)
  /\ phase' = [phase EXCEPT ![cur] = "Starting"]
  /\ rss' = [rss EXCEPT ![cur] = 0]
  /\ spawnable' = spawnable - 1
  /\ NextSlot
  /\ UNCHANGED <<attrPath, startRss, queueVars, ready, lines, eof, victim,
                 oomKills, parentAlive, resolverVars, outputVars>>

SpawnThrows ==
  /\ "spawnError" \in Faults
  /\ pc = "dispatch" /\ MaySpawn
  /\ JustThrow

DispatchNothing ==
  /\ pc = "dispatch"
  /\ ~(IsFree(cur) /\ (Finished \/ MayTakeSolo \/ MayTakeTodo))
  /\ ~MaySpawn
  /\ NextSlot
  /\ UNCHANGED <<slotVars, queueVars, spawnable, ready, lines, eof, victim,
                 workerVars, resolverVars, outputVars>>

(* sendLine failed in dispatch(): the worker is gone. *)
SendFailed ==
  /\ pc = "sendFailed"
  /\ OnEof(cur, NextSlot)
  /\ UNCHANGED <<spawnable, ready, lines, eof, victim, oomKills, parentAlive,
                 resolverVars>>

(***************************************************************************)
(* pollWorkers().                                                          *)
(***************************************************************************)

(* poll returns what is readable now, or nothing after SAMPLE_INTERVAL;    *)
(* memory is sampled at most once per interval, so always in that case.    *)
Poll ==
  /\ pc = "poll"
  /\ ready' = {w \in Worker : Readable(w)}
  /\ pc' \in IF ready' = {} THEN {"sample"} ELSE {"sample", "read"}
  /\ UNCHANGED <<slotVars, queueVars, cur, spawnable, lines, eof, victim,
                 workerVars, resolverVars, outputVars>>

(* The busy worker sampleMemory() picks: the first of the largest. *)
IsVictim(v, sample) ==
  /\ phase[v] = "Busy"
  /\ \A w \in InPhase("Busy") :
       sample[v] > sample[w] \/ (sample[v] = sample[w] /\ v <= w)

(* sampleMemory() up to the choice of a victim. *)
SampleMemory ==
  /\ pc = "sample"
  /\ rss' = [w \in Worker |-> ResidentMemory(w)]
  /\ LET growths == {Growth(ResidentMemory(w), startRss[w]) : w \in Running}
                       \cup {estimate}
     IN  estimate' \in {e \in growths : \A g \in growths : g <= e}
  /\ IF Total(rss') > Budget /\ InPhase("Busy") # {}
     THEN /\ \E v \in Worker : IsVictim(v, rss') /\ victim' = v
          /\ pc' = "kill"
     ELSE pc' = "read" /\ UNCHANGED victim
  /\ UNCHANGED <<phase, attrPath, startRss, todo, solo, mode, answered, cur,
                 spawnable, ready, lines, eof, workerVars, resolverVars, outputVars>>

(* Its end: the victim may have gone on, or have ended, in between. *)
KillVictim ==
  /\ pc = "kill"
  /\ phase' = [phase EXCEPT ![victim] = "Killed"]
  /\ SigKill(victim)
  /\ pc' = "read"
  /\ UNCHANGED <<attrPath, rss, startRss, queueVars, localVars, wpc, wpath,
                 heap, toWorker, fromWorker, oomKills, parentAlive,
                 resolverVars, outputVars>>

EndPoll ==
  /\ pc = "read"
  /\ ready = {}
  /\ pc' = "top"
  /\ UNCHANGED <<slotVars, queueVars, localVars, workerVars, resolverVars,
                 outputVars>>

(* readWorker: fill(). *)
Fill ==
  /\ pc = "read"
  /\ ready # {}
  /\ cur' \in {w \in ready : \A v \in ready : w <= v}
  /\ ready' = ready \ {cur'}
  /\ lines' = fromWorker[cur']
  /\ eof' = AtEof(cur')
  /\ fromWorker' = [fromWorker EXCEPT ![cur'] = <<>>]
  /\ pc' = "lines"
  /\ UNCHANGED <<slotVars, queueVars, spawnable, victim, proc, wpc, wpath,
                 heap, toWorker, oomKills, parentAlive, resolverVars,
                 outputVars>>

(***************************************************************************)
(* onLine, one line at a time.                                             *)
(***************************************************************************)
LineIs(ph, type) ==
  /\ pc = "lines"
  /\ lines # <<>>
  /\ phase[cur] = ph
  /\ Head(lines).type = type

PopLine == lines' = Tail(lines)

LineNext ==
  /\ LineIs("Starting", "next")
  /\ PopLine
  /\ phase' = [phase EXCEPT ![cur] = "Idle"]
  /\ UNCHANGED <<attrPath, rss, startRss, queueVars, pc, cur, spawnable,
                 ready, eof, victim, workerVars, resolverVars, outputVars>>

(* resetWorker destroys the Proc, and its buffer with it. *)
LineRestart ==
  /\ LineIs("Starting", "restart")
  /\ ResetWorkers({cur})
  /\ lines' = <<>>
  /\ UNCHANGED <<queueVars, pc, cur, spawnable, ready, eof, victim, oomKills,
                 parentAlive, resolverVars, outputVars>>

(* A line that no worker may send at this point: an error of the root      *)
(* value, a reply of a starting or idle worker, or an unparsable reply.    *)
Unexpected(ph, type) ==
  \/ ph = "Starting" /\ type \notin {"next", "restart"}
  \/ ph \in {"None", "Idle"}
  \/ ph = "Busy" /\ type # "response"

LineUnexpected ==
  /\ pc = "lines"
  /\ lines # <<>>
  /\ Unexpected(phase[cur], Head(lines).type)
  /\ JustThrow

(* The worker was killed or told to exit: whatever it says is ignored. *)
LineIgnored ==
  /\ pc = "lines"
  /\ lines # <<>>
  /\ phase[cur] \in {"Killed", "Exiting"}
  /\ PopLine
  /\ UNCHANGED <<slotVars, queueVars, pc, cur, spawnable, ready, eof, victim,
                 workerVars, resolverVars, outputVars>>

JobFinished(w) ==
  /\ rss' = [rss EXCEPT ![w] = ResidentMemory(w)]
  /\ estimate' = Larger(Decayed(estimate),
                        Growth(ResidentMemory(w), startRss[w]))
  /\ phase' = [phase EXCEPT ![w] = "Starting"]
  /\ attrPath' = [attrPath EXCEPT ![w] = NoPath]
  /\ LeaveSolo
  /\ answered' = answered \cup {Head(lines).attrPath}
  /\ UNCHANGED startRss

(* onResponse to a listing: queue the children. *)
ResponseAttrs ==
  /\ LineIs("Busy", "response")
  /\ LET p == Head(lines).attrPath
     IN  /\ IsListing(p)
         /\ todo' = todo \cup ChildPaths(p)
  /\ JobFinished(cur)
  /\ PopLine
  /\ UNCHANGED <<solo, pc, cur, spawnable, ready, eof, victim, workerVars,
                 resolverVars, outputVars>>

(* onResponse to a job, with a resolver. *)
ResponseJobPushed ==
  /\ LineIs("Busy", "response")
  /\ CheckCacheStatus
  /\ LET p == Head(lines).attrPath
     IN  IsJob(p) /\ Push(p)
  /\ JobFinished(cur)
  /\ PopLine
  /\ UNCHANGED <<todo, solo, pc, cur, spawnable, ready, eof, victim,
                 workerVars, outputVars>>

EmittedHere(p) == ~IsListing(p) /\ ~(CheckCacheStatus /\ IsJob(p))

(* onResponse to anything else: emit it; a fatal error ends the run. *)
ResponseEmitted ==
  /\ LineIs("Busy", "response")
  /\ LET p == Head(lines).attrPath
     IN  /\ EmittedHere(p)
         /\ EmitResponse(p, Kind[p])
         /\ ~EmitThrows(Kind[p]) /\ Kind[p] # "fatal"
  /\ JobFinished(cur)
  /\ PopLine
  /\ UNCHANGED <<todo, solo, pc, cur, spawnable, ready, eof, victim,
                 workerVars, resolverVars>>

ResponseThrows ==
  /\ LineIs("Busy", "response")
  /\ LET p == Head(lines).attrPath
     IN  /\ EmittedHere(p)
         /\ EmitResponse(p, Kind[p])
         /\ EmitThrows(Kind[p]) \/ Kind[p] = "fatal"
  /\ Throw
  /\ UNCHANGED <<slotVars, queueVars, localVars, workerVars, resolverVars>>

(* readWorker after the last line. *)
EndLines ==
  /\ pc = "lines"
  /\ lines = <<>>
  /\ ~(eof /\ proc[cur] # "none")
  /\ pc' = "read"
  /\ UNCHANGED <<slotVars, queueVars, localVars, workerVars, resolverVars,
                 outputVars>>

EofAfterLines ==
  /\ pc = "lines"
  /\ lines = <<>>
  /\ eof /\ proc[cur] # "none"
  /\ OnEof(cur, pc' = "read" /\ UNCHANGED cur)
  /\ UNCHANGED <<spawnable, ready, lines, eof, victim, oomKills, parentAlive,
                 resolverVars>>

(***************************************************************************)
(* An exception left run(): ~Scheduler kills the workers.                  *)
(***************************************************************************)
DestroyScheduler ==
  /\ pc = "throw"
  /\ ResetWorkers(Worker)
  /\ todo' = {} /\ solo' = <<>>
  /\ pc' = "unwind"
  /\ UNCHANGED <<mode, estimate, answered, localVars, oomKills, parentAlive,
                 resolverVars, outputVars>>

Dispatch ==
  \/ DispatchExit \/ DispatchSolo \/ DispatchTodo
  \/ DispatchSpawn \/ SpawnThrows \/ DispatchNothing \/ SendFailed

PollWorkers ==
  \/ Poll \/ SampleMemory \/ KillVictim \/ EndPoll \/ Fill

OnLine ==
  \/ LineNext \/ LineRestart \/ LineUnexpected \/ LineIgnored
  \/ ResponseAttrs \/ ResponseJobPushed \/ ResponseEmitted \/ ResponseThrows

SchedulerStep ==
  \/ LoopExit \/ Interrupt \/ BeginSolo \/ BeginDispatch
  \/ Dispatch
  \/ PollWorkers
  \/ OnLine \/ EndLines \/ EofAfterLines
  \/ DestroyScheduler

SlotTypeOK ==
  /\ phase \in [Worker -> Phase]
  /\ attrPath \in [Worker -> Path \cup {NoPath}]
  /\ rss \in [Worker -> Nat] /\ startRss \in [Worker -> Nat]

QueueTypeOK ==
  /\ todo \subseteq Path /\ solo \in Seq(Path)
  /\ mode \in {"Parallel", "Solo"}
  /\ estimate \in Nat /\ answered \subseteq Path

LocalTypeOK ==
  /\ cur \in Worker /\ spawnable \in Nat /\ ready \subseteq Worker
  /\ lines \in Seq(Line) /\ eof \in BOOLEAN /\ victim \in Worker

SchedulerTypeOK == SlotTypeOK /\ QueueTypeOK /\ LocalTypeOK
=============================================================================
