# A TLA+ model of nix-eval-jobs

nix-eval-jobs evaluates the attributes of a Nix expression in parallel and
prints one JSON line for each job or error it finds. A *collector* process owns
the traversal; it spawns *evaluation workers*, copies of itself, hands each one
attribute path at a time over a pipe, and reads one response per path. With
`--check-cache-status` a thread of the collector looks up what the stores have
of each job before it is printed. With `--constituents` aggregate jobs are held
back until all jobs are known, and are then rewritten.

This directory holds a model of that program, the configurations that
model-check it with TLC, and proofs that TLAPS checks. Paths below are relative
to the repository's root, line numbers are those of the commit modelled.

## 1. Inventory

| part | state | operations | modelled in |
|---|---|---|---|
| `Scheduler` (`src/nix-eval-jobs.cc:166-513`), the collector's event loop | `workers[]` (process, phase, path, samples), `todo`, `solo`, `mode`, `estimate` | `dispatch`, `takeJob`, `enterSolo`, `pollWorkers`, `sampleMemory`, `readWorker`, `onLine`, `onResponse`, `jobFinished`, `onEof`, `onKilled`, `resetWorker` | `Scheduler` |
| evaluation worker (`src/worker.cc`, `runWorker`) | where it is in its loop, its path, its heap | read the configuration, evaluate the root, ask for a job, respond, restart, exit, crash | `EvalWorker` |
| evaluation of an attribute path (`src/worker.cc:229-361`, `joinAttrPath`) | the path walked, the sets on it | `select`, `evaluate`, `collectAttrsForRecursion` | `Evaluator` |
| one job of a worker (`processJobRequest`, `processDerivation`, `src/drv.cc`, `src/eval-log.cc`) | captured messages, forced thunks, `storeReadsDrvs`, gc roots | take messages, evaluate, extract constituents, `--apply`, `fromPackageInfo`, `registerGCRoot`, respond | `JobRequest` |
| `Proc`, samples (`src/proc.cc`, `src/rss.cc`) | process state, resident memory | spawn, `sendLine`, `throwExited`, destructor | `Proc` |
| lines through pipes (`src/buffered-io.cc`, `Proc::fill`, `Proc::popLine`) | two pipes, `buf`, `scanned`, stdio's buffer, unwritten rests | `tryWriteLine`, `readLine`, `fill`, `popLine`, `readWorker` | `LinePipe`, `LineChannel` |
| payloads and lines (`src/response.cc`, `src/drv.cc`, `src/worker.hh`) | none | the variants the collector branches on; `to_json`, `from_json` | `Response`, `ResponseJson` |
| output (`emitResponse`, `src/output-stream-lock.hh`) | `jobs` map, stdout | emit, hold back aggregates, throw when stdout is closed | `JobOutput` |
| `CacheStatusResolver`, the thread (`src/cache-status-resolver.cc:46-137`) | inbox, `closed`, `aborted`, `exc`, batch | `push`, `finish`, destructor, `run`, `takeInbox` | `CacheStatusResolver` |
| `CacheStatusResolver`, the computation (`141-347`) | four caches and wish lists | `tryResolve`, `visitDrv`, `missingOutputs`, `resolveWanted` | `CacheStatus` |
| constituents (`src/constituents.cc`, `handleConstituents`) | `jobs`, the state of a depth-first search | resolve names and globs, sort, rewrite, report | `Constituents` |
| `main` | what runs next, how it ends | construct, `run`, `finish`, constituents, unwinding | `EvalJobs` |

Interaction: the scheduler and each worker talk over two pipes, with lines
`do <path>` and `exit` one way, `next`, `restart` and responses the other way.
The scheduler learns of a worker's death by end of file and `waitpid`, samples
its memory every 200 ms and may SIGKILL it. The scheduler pushes jobs into the
resolver's inbox (mutex and condition variable); the resolver's thread and the
scheduler share `jobs` and stdout (a lock each). Exceptions of either thread
end in `main`, where destructors join the thread and kill the workers.

What is hard: kills that race with answers, restarts and exits; retries that
must not lose or double a job; a mode (Solo) that promises to be alone while
anything may die; numbers computed before a loop and used in it; a thread that
must end in every outcome; caches that fill between attempts. `PROJECT.json`
lists these hazards, each at the line where it bites, with the properties aimed
at it.

Not modelled, with the reason in `PROJECT.json`: the Nix language itself, option
parsing, flake prefetching, daemon settings, the crash handler, the reading of
/proc, JSON syntax. They are sequential, keep no state that the rest depends on,
or are library code; nothing in them can be told apart by a state machine.

## 2. Modules

`Response` and `Proc` are the ground; `EvalWorker` extends `Proc`;
`CacheStatusResolver` extends `JobOutput`; `Scheduler` extends both sides, and
`EvalJobs` composes everything with `main` and the environment. `Traversal` is
the abstract specification: a walk of a tree in which every path is settled
once, without workers or memory; `EvalJobs` implements it under the refinement
mapping at its end. `CacheStatus`, `Constituents` and `JobRequest` are
independent of these: each spells out the algorithm behind one step of the big
model (a round of probes; the step `Constituents` of `main`; the functions
`Kind` and `Attrs` of `Response`). `JobRequest` extends `Evaluator`, the walk
along a path, and `ResponseJson`, the line of a response. `LineChannel` says what
the pipes of one worker promise, in whole lines, as `Proc` and `EvalWorker` take
it for granted; `LinePipe` has the characters, and implements it.
`CacheStatusReference` has the cache status by recursion, for `CacheStatus` to be
compared with; its operator is RECURSIVE, so only TLC uses it. `MCEvalJobs`,
`MCCacheStatus`, `MCConstituents` and `MCJobRequest` hold constants for TLC. The
theorems are in modules of their own: `EvalJobsProofs` and `EvalJobsOutcomeProofs`,
which extends it, `LinePipeProofs`, `ConstituentsProofs`, `CacheStatusProofs`,
`ResponseJsonProofs` and `JobRequestProofs`; `SequenceLemmas` has what they share.

**Scheduler.** The loop is single-threaded, but what it talks to is not, so it
is cut where others can be seen: `pc` is "top", "dispatch" (one step per slot of
the loop over the workers), "sendFailed" (`onEof` called from `dispatch`),
"poll", "sample", "kill" (the sample and the `kill` that follows are two steps,
and the victim may finish in between), "read", "lines" (one step per line). Each
handler is one action with all it calls: `LineRestart` is `onLine` with
`resetWorker`, `ResponseAttrs` is `onResponse` with the insertion of the children
and `jobFinished`. `answered` is a history variable, of paths whose outcome was
taken into account; it guards nothing.

**Workers.** A worker is its program counter, its path and its heap, which only
grows. `Cost[p]` is what evaluating `p` adds. SIGKILL makes a process "dying",
which executes nothing but holds memory and pipes until `Reap`; so everything
that can happen between `kill` and death is covered. A process that is dead is a
zombie with an exit status until its slot lets it go. An exception that leaves
`worker()` closes the pipes before the process exits ("closing"): the collector
may then find it dead, with exit status 1, or find it still there, kill it and
take it for one that was killed (`throwExited`).

**Resolver's thread.** `inbox`, `closed`, `aborted` and the wait set are as in
the code: setting `closed`, setting `aborted` and notifying are separate steps;
testing the predicate and going to sleep are one, since `closed`, which is always
set first, is set under the mutex. What resolving a job takes is a
sequence of rounds of probes, `Probes[p]`; an attempt fails at the first round
that is not known. How such rounds come about is the subject of `CacheStatus`.

**CacheStatus.** An attempt that its job's outputs alone decide is one step
(`ResolveFast`, `PostponeFast`). One that needs the inputs walks them: the
recursion of `visitDrv` is an explicit stack in `t`, which also holds what the
attempt notes down, and each call is a step, with all it does before its loops
(`VisitInput`) or after them (`LeaveDrv`). Nobody else reads or writes the caches
meanwhile, so the small steps add no behaviour; they are there because an
invariant of the walk has to speak of a walk that is half done. The stores choose
their answer when they are asked, each path is asked once; a substituter that
throws is one that has nothing. An exception of the local store is the business
of `CacheStatusResolver`.

**Constituents.** The recursion of `topoSort` is an explicit stack, so that an
exception thrown in the middle, and the search's two sets, are as in the code.
Names are numbers, in the order of `std::map`. A rewritten derivation is
identified by its job, since a job is rewritten at most once; a rewrite that
changes nothing keeps the path.

**LinePipe.** One life of a worker: its configuration, then `next`, `do` and a
response for each job, then `exit`. A pipe is a bounded sequence of characters;
a write takes any part that fits, a read at most `Chunk`, and either side may
stop at any character. `stdio` is what getline(3) has read and not returned,
`buf` and `scanned` are `Proc`'s. The refinement mapping reads the lines that are
complete out of both buffers and pipes, and the last one without its newline,
which getline returns, too, once the other end is closed.

**Evaluator.** An expression is a graph of sets, functions and other values; a
walk from the root takes one step per component of the path. What a set is
compared by is the address of its `Bindings`: a value's is always the same, what
a call returns has a new one. The collector's queue is in the order of
`std::set<json>`, for one worker; evaluations do not depend on each other, so
more workers give the same answers. A set with `__functor` and a function
that returns a function are not distinguished from other values.

**JobRequest.** A job takes one step per call of `processDerivation` that may
throw, since what was done before stays done: `storeReadsDrvs` is cleared
although the response is an error, the root is there although the process is
killed before it responds. Forcing an attribute logs its message the first time
in each process; an attribute of a set that a call returned is new each time.
Messages of other threads arrive between any two steps. The line is the JSON
object as a function on its keys, and the collector's part is to read it and to
write it again.

### Abstractions and bounds of the model

* What evaluation yields is a function of the path (`Kind`, `Attrs`): a retry of
  a path gives the same, unless its process dies. The tree may be infinite in
  the module, it is finite in the runs.
* Memory jumps when an evaluation starts; a sample taken earlier during it is
  one taken before the command was read.
* In `EvalJobs` pipes carry whole lines, which is what `LinePipe` shows of them.
  It assumes that the configuration fits into a pipe, as `Proc::Proc` does.
* In `JobRequest` a job whose process is lost is evaluated again once, and given
  up the second time; the scheduling of that is the subject of `EvalJobs`.
  `NoDerivationLost` and `ErrorHasCause` look through it: a lost process costs no
  path but a set that was given up, and giving up takes two losses that the
  expression or the environment accounts for. The
  collector's messages and the worker's are lines, handled at once.
* A call of the logger is one step. `EvalLogCapture` takes no lock, so that a
  message logged by another thread during `take()` is a data race; the model has
  neither its undefined behaviour nor a promise about it.
* One emission is one step: it touches one key of `jobs` and writes one line
  under the lock, and emissions of different paths commute.
* SIGINT is noticed where the code looks, at the head of the loop and of the
  resolver's inner loop.
* `MaxOomKills` bounds how often the system kills a worker. The code has no such
  bound; see `Terminates`.
* Memory is counted in units of the smallest worker; `DecayPercent` is 98 and
  integer division as in the code.

## 3. Runs

Every run is exhaustive for its constants. `PROJECT.json` names, for each
property, a plausible mistake in the code that makes the property fail in the
same run.

| run | instance | shows |
|---|---|---|
| `EvalJobs_oom` (1.1 million states) | 2 workers; root, a leaf that exceeds the whole budget, a set with a leaf that fits alone; the system kills once at any moment | `NothingLostOrDoubled`, `Attribution`, `SoloAlone`, `SoloFresh`, `SoloHasWork`, `SlotsInUse`, `GivesUpOnlyHugeJobs`, `SpawnedForAJob`, types |
| `EvalJobs_faults` (1.8 million) | 2 workers and the resolver; a job and an aggregate that do not fit together and share a probe; crashes, a failing or unwinding root, failing spawns and stores, SIGINT, closed stdout | `ExitOk`, `ExitingOnlyWhenFinished`, `LinesExpected`, `PushedNotLost` |
| `EvalJobs_ends` (156 thousand) | 2 workers and the resolver; a leaf that exceeds the budget, one that overflows the stack, exceptions that leave a worker, a killed collector | `Terminates`: the program ends and no worker survives it; `ThreadEnds`; `ImplementsTraversal`: safety and liveness of the refinement |
| `CacheStatus_all` (507 thousand) | two jobs, all 64 graphs over four derivations, one with two outputs, one content-addressed or not, all answers, all orders of arrival | `ResultsStand`, `StatusSound`, `BuildsOrdered`, `BreakdownComplete`, `PostponedIsLookedUp`, types |
| `Constituents_all` (1.1 million) | three aggregates that name each other in every way, with a healthy, failed or missing job, globs, and earlier dependencies | `SortedTopologically`, `CycleIsReal`, `PrintedOnce`, `ConstituentsAreFinal`, `BrokenIsReported`, types |
| `JobRequest_all` (283 thousand) | all graphs of three sets with two attributes; two sets with every value of `recurseForDerivations`, a function, exceptions; names that need quotes; attributes that log; pairs of unusual derivations with every kind of store and option; kills, restarts and noise | the walk: `DepthBounded`, `JobsAreAskedFor`, `NoDerivationLost`, `ErrorHasCause`, `AttrsDistinct`; the line: `MessagesOnTheirLine`, `ReportedIsRooted`, `ImpreciseHasCause`, `PrintedAlike`; types |
| `LinePipe_all` (24 thousand) | one worker's life with one job, lines of two or three characters over pipes of two, every split, every death | `NothingSkipped`; `ImplementsChannel`: safety and liveness of the refinement |
| `*_claim_*` | see below | the five disagreements |

Two workers are enough for the hazards of the scheduler: they need one slot that
is handled and one that is in any other phase; Solo mode needs one retry and one
other worker. Three paths below the root give a queue of two, a retry and a
listing at the same time; the runs with faults, the resolver and stores that fail
have two. Budgets are the smallest at which two small jobs fit,
two large ones do not, and one alone does or does not. Three aggregates give
cycles of two and three, diamonds, and a cycle beside an aggregate that is not
on it. Four derivations give a diamond below a job and a job below a job. Three sets
give cycles of every length up to three, entered from outside, and a set shared
by two others. An expression that calls a function for ever is cut at `MaxDepth`
4, one more than there are sets: any derivation that can be reached is reached
by a shorter path. `MaxEvents` 2 lets a process be killed twice for one job, which
gives it up, or be replaced between any two jobs. A line of three characters in a
pipe of two is always split and always blocks; two lines follow each other from
the worker, so that one read may hold the end of one and the beginning of the
next.

### Fairness

`EvalJobs_ends` uses `FairSpec`: weak
fairness of the collector, of the resolver's thread, of each worker's program
and of the teardown of a killed process. That is what an operating system gives
to runnable threads, plus one assumption on the expression: evaluating one
attribute ends. Nothing is assumed of faults, of the stores' answers or of the
order in which the collector handles its workers (the code fixes that one).
`Terminates` and the liveness in `ImplementsTraversal` are checked with jobs that
exceed the budget, exceptions that leave a worker while it evaluates, a stack
overflow and a collector that is killed, and without two faults under which they
do not hold: a worker that the system kills, or whose root value ends in an
exception that the collector takes for a kill, before it asks for its first job,
is spawned anew each time (`onKilled` counts nothing). The fault "rootEscapes" is
the second of these; it is part of `EvalJobs_faults`. A bounded number of kills
does no harm: with "oomKill" among its faults, and `MaxOomKills` = 1, the run
passes as well, but takes longer than the others (598 thousand states).

`LinePipe_all` uses weak fairness of the worker and of the collector. A write or
read on a pipe that is not full, or not empty, is then taken in the end; nothing
is assumed about how much of it.

### Disagreements found

Five runs are expected to end in a counterexample; each states what a comment
says and the code does not do.

* `EvalJobs_claim_budget`: "a job is only dispatched while every running job
  plus the new one can still grow by `estimate`" (`src/nix-eval-jobs.cc:169-171`).
  `fitsBudget` (247) counts workers that are Busy; a worker that is Killed but
  not gone, which `running()` and `spec/scheduler.qnt` count, is left out.
* `EvalJobs_claim_killed`: "finished before the signal landed, retried anyway"
  (442). A victim that exits by itself, with status 0 after a restart line,
  before the signal arrives, ends the whole run with an error
  (`src/proc.cc:153-163`).
* `CacheStatus_claim_outputs`: "like `Store::queryMissing`"
  (`src/cache-status-resolver.cc:327-330`). `visited` (239) forgets which outputs
  were wanted; an output wanted on the second edge only is never looked up.
  `BreakdownComplete` holds when all edges want the same (`CacheStatus_all`, and
  `BreakdownsAreComplete` for every graph).
* `CacheStatus_claim_pruned`: "a substitutable derivation's inputs are never
  probed" (261-262). They are, when their validity was learned for another job
  while the derivation's own is pending.
* `JobRequest_claim_inputs`: "Show input derivations in the output for each
  derivation" (`src/eval-args.cc:141`), "a store that fails to read is
  remembered" (`src/drv.cc:131-132`). The handler that remembers (152) also
  catches what `derivationOptionsFromStructuredAttrs` (147) throws: one derivation
  with malformed options, in a store that reads everything, costs the later jobs
  of that worker process their `inputDrvs` and `requiredSystemFeatures`.

### Known, and without a property

* `nrWorkers * maxMemorySize` (`src/nix-eval-jobs.cc:180`) is an unchecked product
  of two numbers from the command line; numbers in the model are small.
* A killed worker counts in the next sample as long as its process is there
  (308), so that one overrun may kill several workers. The model has this; it
  costs retries and loses nothing.
* The cache status, `neededBuilds` and `inputDrvs` of an aggregate are computed
  before it is rewritten and printed beside the new `drvPath` (657), and an
  aggregate that is broken itself is a healthy constituent of another
  (`src/constituents.cc:194`). Neither code nor documentation promises otherwise.
* The configuration line is written before anything is polled
  (`src/proc.cc:89`); one that did not fit into a pipe could block the event loop.
* A grandchild that inherits a worker's pipe and outlives it delays the end of
  file (`src/proc.cc:98`). Descriptors are not modelled.

## 4. Proofs

The theorems are about `Spec` of `EvalJobs`, `LinePipe`, `CacheStatus`, `Constituents`
and `JobRequest`, for every value of the constants that their assumptions allow. Each safety invariant
is proved from an inductive one, which TLC checked on the run's instance first;
the lemmas follow the actions, and the theorem puts them together with PTL.

| theorem | of | property |
|---|---|---|
| `TypeCorrect`, `SlotsAreSound` | `EvalJobs` | `TypeOK`, `SlotsInUse` |
| `SoloIsAlone`, `SoloIsSupplied`, `SoloIsFresh` | | `SoloAlone`, `SoloHasWork`, `SoloFresh` |
| `ExitIsFinal`, `SpawnsAreCovered` | | `ExitingOnlyWhenFinished`, the action property `SpawnedForAJob` |
| `LinesAreExpected`, `AnswersAreAttributed` | | `LinesExpected`, `Attribution` |
| `NothingIsLostOrDoubled`, `NoPushIsLost`, `ExitIsAPromise` | | `NothingLostOrDoubled`, `PushedNotLost`, `ExitOk` |
| `OnlyHugeJobsAreGivenUp` | | `GivesUpOnlyHugeJobs` |
| `WalksTheTree` | | every step is one of `Traversal`, or a stutter |
| `NoLineIsSkipped` | `LinePipe` | `NothingSkipped` |
| `PipesCarryLines` | | every step is one of `LineChannel`, or a stutter |
| `StoresAskedOnce`, `StatusIsSound` | `CacheStatus` | `TypeOK`, `StatusSound` |
| `DependenciesComeFirst`, `PassesLearn` | | `BuildsOrdered`, `PostponedIsLookedUp` |
| `BreakdownsAreComplete` | | `BreakdownComplete`, if `EdgesAgree` |
| `ConstituentsTyped`, `RewritesInOrder`, `CyclesAreReal` | `Constituents` | `TypeOK`, `SortedTopologically`, `CycleIsReal` |
| `EachPrintedOnce`, `ConstituentsStand`, `BrokenAreReported` | | `PrintedOnce`, `ConstituentsAreFinal`, `BrokenIsReported` |
| `ReadAsWritten` | `ResponseJson` | `FromJson` undoes `ToJson` |
| `JobRequestTyped`, `CyclesAreCut`, `OnlyWhatIsAskedFor` | `JobRequest` | `TypeOK`, `DepthBounded`, `JobsAreAskedFor` |
| `ErrorsAreJustified`, `JobsAreRooted`, `LossIsExplained`, `LinesSurvivePrinting` | | `ErrorHasCause`, `ReportedIsRooted`, `ImpreciseHasCause`, `PrintedAlike` |
| `DerivationsAreFound`, `NamesAreDistinct`, `MessagesFindTheirLine` | | `NoDerivationLost`, `AttrsDistinct`, `MessagesOnTheirLine` |

### What is assumed

Only the ASSUMEs of the modules. Of `EvalJobs`: there is a worker; numbers are
natural; a set has finitely many attributes, and its attributes' paths are
paths. The tree may be infinite, costs, budgets and faults are arbitrary. Of
`LinePipe`: any number of jobs, lines of any bounded length, a read that takes at
least one character, and a pipe that holds two at least. Of `CacheStatus`: finitely
many derivations, on a graph without cycles (an edge leads to a greater number),
and edges that name outputs that exist; graphs, answers and the order of arrival
are arbitrary. Of
`Constituents`: jobs are finitely many, ordered as numbers; what aggregates name
and which jobs failed is arbitrary. Of `Evaluator`: finitely many sets, which are
neither functions nor leaves; what they contain, and so every cycle, is
arbitrary. `MaxDepth`, a bound of the model, exceeds the number of sets, which
`DerivationsAreFound` needs: that a shorter path leads to each set is part of
its proof. Names are different strings, of any characters and any length, and the
dot, the quote, the backslash and the dollar sign are different characters, none of
which is a letter or a digit. `MaxEvents` is any natural number.

One theorem has a hypothesis beside these. `BreakdownsAreComplete` is about graphs
on which all who want outputs of a derivation want the same ones (`EdgesAgree`);
for others `CacheStatus_claim_outputs` has a counterexample.

### The scheduler: `EvalJobsProofs`

The inductive invariant `IInv` is the conjunction of

* `TypeInv`, the type invariant, strengthened by what the finiteness and
  minimum lemmas need: `todo` is a finite set (its cardinality is taken), a slot
  that runs a job holds a path, a worker that evaluates holds a path, and the
  resolver's queues hold jobs only;
* `SlotInv`, which ties phases, processes and control together (a slot is None
  exactly when it has no process; the slot that is read, or whose `sendLine`
  failed, has one). It is not implied by types, and `Poll` and `Fill` need it to
  stay well typed;
* `SoloInv`, `SoloAlone` and `SoloHasWork` with what makes them inductive: in
  Solo mode the only process belongs to the slot at hand, nothing may be spawned
  while one is alive, and when nothing runs the retry is still queued;
* `ExitingOnlyWhenFinished` itself, which is inductive with the others.

`TypeCorrect` says, besides types, that `spawnable`, computed by an unsigned
subtraction in `dispatch`, stays a natural number. `SpawnsAreCovered` needs one
invariant more, `SpawnInv`: in the loop of `dispatch` what is left of `spawnable`,
with the workers that wait, does not exceed the queue. A job that is handed out
takes one from either side, and a worker to which it cannot be written was busy
already, so that its loss changes neither.

### Collector and worker: the second part of `EvalJobsProofs`

`ProtocolInv` says, while the loop runs, for each slot whose turn it is.
`StartingAgreed`, `IdleAgreed` and `BusyAgreed` list, for each phase, what may be in
the two pipes and where in `worker()` the process then is; the lines at hand count
as unread (`Unread`), and nothing is at hand outside `LineStep` (`BufferInv`).
`AllFresh` bounds the heap in Solo mode by the root value, and the job once its
command was read. A line is expected because its slot is in the phase for it, and
an answer is about the slot's path because the only command that can have been
read is. Killing, dying and reaping change neither pipes nor phases in any other
way, so the proof has one lemma for a step that leaves a slot alone, one for a
step of its process, and one for each handler.

### Outcomes and the refinement: `EvalJobsOutcomeProofs`

`OutcomeInv` is about paths. On the way to exit status 0 (`Course`) each path that
was met is either answered or in exactly one of the queue, the Solo list and a
slot (`Apart`, `Sorted`); it was printed as often as its outcome in `jobs` demands
(`AllReports`); and what the thread has is answered and not yet reported
(`Awaited`). Next to this stand `QueuesApart`, `PushedNotLost`, `ThreadInv`, which of
its lists the thread has emptied where it is, and `EndInv`, that `run()` ends
without processes. The steps are sorted by what they do to the places: move paths
within the pool, answer one, or answer one with its members; the thread keeps its
jobs, reports the head, or loses them. `WalksTheTree` uses the same classes: those
are the actions of `Traversal`. It proves initial states and steps
(`TraversalSafety`), not the fairness of `Traversal`.

`HugeInv` is the cause of a job that is given up, while nothing outside
disturbs the run (`Undisturbed`): a process that is dying or killed belongs to a
slot that the collector has killed, and one killed in Solo mode evaluates a job
that alone exceeds the budget. The sample is a fold over the slots that are alive;
in Solo mode that is one slot, and `SumOfOne` says what the fold then is.

### Pipes: `LinePipeProofs`

`PipeInv` says where each character is. `UpInv`: the collector's buffer and the
pipe, put together, are the lines by which the worker is ahead, and then the part
of its next line that it has written; the worker is ahead by two lines at most
(`OrderInv`), a response and the line after it. `DownInv`: what the collector sends
is in one of three stages, on its way as a whole, in part still at hand, or read.
`NothingSkipped` is inductive with these, since a search for a newline goes to the
end of the buffer. The refinement mapping cuts characters into lines at newlines;
`LinesOfFirst` and what follows it say that the lines of a terminated line and a rest
are that line and the lines of the rest, and that a text without a newline has
none. A step that moves a part of a line is a stutter of `LineChannel`, the
one that moves its newline is `Send` or `Receive`. The proof covers initial states
and steps (`ChannelSafety`), not the fairness of `LineChannel`.

### Cache status: `CacheStatusProofs`

`Inv` says of the walk (`AttemptInv`) that what it has noted down is not known
yet, and that an attempt that met a pending probe has noted something (`Noted`).
Each frame of the stack belongs to a derivation that was visited, and so were those
of its inputs that are no longer in its `rest`; the derivations of the frames
increase (`StackBut`). What is in `builds` comes after those of its inputs that are
in it; it has left the stack, and so have all its inputs (`BuildsInv`). The graph
has no cycle, so an input that is found visited has left the stack before: its
number is greater than those on it. Results are described by entries of the caches
that never change once they are known (`ResultInv`), so that a later answer of a
store does not disturb them (`CachesGrow`). `Unlooked` ties the two wish lists to
the two caches, and `PostponedIsLookedUp` follows as a job is kept only by an
attempt that noted something.

`Coverage` is about the set of visited derivations and makes
`BreakdownsAreComplete`. On a walk that has met no pending probe everything visited
is decided by what is in the caches (`Decided`), the three lists are what this set
demands, and only what a build needs is in it (`Needed`). When the stack is empty
the inputs of what is built are in it, too; the result is that of such a set
(`HasBreakdown`), and stays so when caches fill. `Wanted`, the fixed point of the
property, is computed by levels; `GrowthExists` says that the function of the
levels is defined. By `VisitedAreWanted` it is the set that was visited: no level
leaves that set, and what was visited is in the level that `Rank` counts, the
number of derivations before it in the order. `EdgesAgree` is needed where a
derivation is met again: its outputs were looked up for the first who wanted them.

### Aggregates: `ConstituentsProofs`

`IInv` has, for the search, `SearchInv` (the frames are a path of the graph
without repetition, `parents` are its nodes, and what a frame no longer has to
visit is sorted or visited by the frame above), `OrderInv` (what is sorted comes
after what it depends on, and once), `CycleInv` and `StageInv`; for the loops that
print, `QueueInv` (the lines so far and the rest make up the order of printing),
`DrvInv`, `ListInv` and `OutputInv` (what is printed is what the jobs have, is
rooted, and is not changed again). `SortedTopologically` for every graph is the
correctness of the depth-first search of `topoSort`; `CycleIsReal` goes both
ways: the cycle that is reported is on the stack, and what can be reached from an
aggregate that is sorted, level by level, was sorted before it.

### The job of a worker: `ResponseJsonProofs`, `JobRequestProofs`

`ReadAsWritten` goes field by field: which keys `ToJson` writes, and what `FromJson`
makes of a key that is there or is not. It holds of responses without a cache
status that was set, or with one that prints; others are refused by `from_json`.

`IInv` of `JobRequestProofs` is `WalkInv` (value and ancestors are those of the
prefix that was walked), `PathInv` (a path is queued, in hand or answered; the one
above it is answered), `JobInv` (which fields of the record are filled at each
stage of `processDerivation`), `ProcessInv` (a process that no longer reads the
store has met a derivation that could not be read), `LineInv` and `AnswerInv` (what
was answered has its cause). Its parts speak of the expression through operators
such as `ValueIn(e, p)` and `IsWay(e, p)`, since an expression never changes.
`CyclesAreCut` counts: the sets on a way that the check of ancestors lets through
are different, unless calls returned them.

`DerivationsAreFound` is a property of completeness. `CoverInv` says that what was
found is queued, in hand or answered, and that a set that may be recursed into was
listed as a whole. From a way to a set one gets a way that passes no set twice
(`IsSimpleWay`), which neither the check for cycles nor `MaxDepth` cuts; at the
end of a run that nothing disturbed all of these are answered.

`AttrsDistinct` holds because a joined path can be read back (`JoinIsInjective`).
`Joins` says by which partial results a sequence is put together, so that
statements about `FlattenSeq` need no induction of their own. Where two paths differ
first, what follows are two texts that begin with different names: one of them
quoted and the other not, and a name that is not quoted has no quote; both plain,
and the end or a dot comes earlier in one; or both quoted, and `EscapeDecodes` gives
the characters back up to the first quote that no backslash precedes.

`TalkInv` makes `MessagesOnTheirLine`. What is captured while a path is walked are
messages of the attributes that were passed (`LogInv`), and whatever a process has
forced has its message captured or on a line (`ForcedInv`), unless the run was
aborted. A response writes what is captured, and a process that is lost or
restarted forgets what it has forced, too. `IsMatch` names the positions that show
that messages are in the order of the path; a step adds one at the end.

### Induction

The library's induction theorems take an operator, which no prover here
instantiates. `LeastMember` of `SequenceLemmas`, that a non-empty set of numbers
has a least member, takes their place: a counterexample of least length, or the
first position at which something fails, is led to a contradiction. Prefixes,
ways, first rounds, the partial results of a concatenation and the levels of
`Reached` and `Wanted` are treated so.

### Only model-checked

* All liveness: `Terminates`, `ThreadEnds`, and the fairness of `Traversal` and of
  `LineChannel`. TLAPS has no ENABLED.
* `ResultsStand` of `CacheStatus`: it compares with a RECURSIVE operator, and what
  such an operator computes is an induction.

## 5. Plan

1. Done: the core (scheduler, workers, resolver's thread, main), its abstract
   specification, the three algorithms; the job of a worker with its records,
   messages and roots; the round trip of a line; the pipes, and that they carry
   whole lines; exceptions that leave a worker.
2. Done: the proofs of section 4, of every safety property of `EvalJobs`,
   `LinePipe`, `Constituents` and `JobRequest`, and of `CacheStatus` but
   `ResultsStand`.
3. Next, models: a refinement from `CacheStatus` to the rounds of
   `CacheStatusResolver`.
