-------------------------------- MODULE Proc --------------------------------
(***************************************************************************)
(* The evaluation worker processes as the collector sees them: class Proc  *)
(* (proc.cc), the two pipes of each process (buffered-io.cc) and the       *)
(* kernel's view of the process (its exit status, its resident memory).    *)
(*                                                                         *)
(* proc[w] is the process owned by slot w of the scheduler's vector.       *)
(*   "none"      workers[w].proc is null                                   *)
(*   "running"                                                             *)
(*   "dying"     SIGKILL was sent, the kernel has not torn it down yet:    *)
(*               it executes nothing, but its pipes are open and its       *)
(*               memory is still resident                                  *)
(*   "closing"   an exception unwound worker(): its pipe ends are closed,  *)
(*               but the process still runs and will exit with status 1    *)
(*   "exited0", "exited1", "signaled", "killed"                            *)
(*               a zombie: the exit status that waitpid will report        *)
(* Only complete lines are kept in a pipe: a partial line followed by end  *)
(* of file is dropped by popLine, and a process that dies in a write is    *)
(* modelled as one that died before it.                                    *)
(***************************************************************************)
EXTENDS Response

CONSTANTS
  NrWorkers,     \* args.nrWorkers
  BaseRss,       \* memory of a worker that has evaluated the root value
  Cost,          \* Cost[p]: what evaluating p adds to its process' memory
  Faults         \* what the environment may do (see EnvFault)

EnvFault ==
  {"oomKill",         \* the kernel SIGKILLs a worker
   "exit1",           \* a worker exits with status 1
   "rootEscapes",     \* an exception of the root value leaves worker()
   "escapes",         \* an exception of a job leaves worker()
   "signaled",        \* a worker dies of another signal
   "initError",       \* the root value fails to evaluate (nix::Error)
   "spawnError",      \* pipe or posix_spawn fails in the collector
   "interrupt",       \* the collector receives SIGINT
   "stdoutClosed",    \* the reader of stdout goes away
   "collectorDies"}   \* the collector is killed

WorkersAssumption ==
  /\ NrWorkers \in Nat \ {0}
  /\ BaseRss \in Nat
  /\ Cost \in [Path -> Nat]
  /\ Faults \subseteq EnvFault

ASSUME WorkersAssumption

Worker == 1 .. NrWorkers

VARIABLES
  proc,        \* the state of each slot's process
  wpc,         \* where that process is in worker(), see EvalWorker
  wpath,       \* the path it evaluates
  heap,        \* its resident memory (the heap is never collected)
  toWorker,    \* pipe from the collector
  fromWorker   \* pipe to the collector

procVars == <<proc, wpc, wpath, heap, toWorker, fromWorker>>

Dead == {"exited0", "exited1", "signaled", "killed"}
ProcState == {"none", "running", "dying", "closing"} \cup Dead

(* Nobody holds its ends of the pipes any more. *)
HungUp(w) == proc[w] \in Dead \cup {"closing"}

ProcInit ==
  /\ proc = [w \in Worker |-> "none"]
  /\ wpc = [w \in Worker |-> "none"]
  /\ wpath = [w \in Worker |-> NoPath]
  /\ heap = [w \in Worker |-> 0]
  /\ toWorker = [w \in Worker |-> <<>>]
  /\ fromWorker = [w \in Worker |-> <<>>]

(* Proc::Proc: posix_spawn and the configuration line.  The collector      *)
(* still holds the read end of toWorker, so this sendLine cannot fail.     *)
Spawn(w) ==
  /\ proc' = [proc EXCEPT ![w] = "running"]
  /\ wpc' = [wpc EXCEPT ![w] = "config"]
  /\ wpath' = [wpath EXCEPT ![w] = NoPath]
  /\ heap' = [heap EXCEPT ![w] = 0]
  /\ toWorker' = [toWorker EXCEPT ![w] = <<ConfigLine>>]
  /\ fromWorker' = [fromWorker EXCEPT ![w] = <<>>]

(* Destruction of the Procs of a set of slots: ~Pid kills the process and  *)
(* waits for it, and what the pipes held is lost.                          *)
DestroyAll(ws) ==
  /\ proc' = [w \in Worker |-> IF w \in ws THEN "none" ELSE proc[w]]
  /\ wpc' = [w \in Worker |-> IF w \in ws THEN "none" ELSE wpc[w]]
  /\ wpath' = [w \in Worker |-> IF w \in ws THEN NoPath ELSE wpath[w]]
  /\ heap' = [w \in Worker |-> IF w \in ws THEN 0 ELSE heap[w]]
  /\ toWorker' = [w \in Worker |-> IF w \in ws THEN <<>> ELSE toWorker[w]]
  /\ fromWorker' = [w \in Worker |-> IF w \in ws THEN <<>> ELSE fromWorker[w]]

(* tryWriteLine gives EPIPE once the reader is gone. *)
SendOk(w) == ~HungUp(w)

SendLine(w, line) ==
  toWorker' = [toWorker EXCEPT ![w] =
                 IF SendOk(w) THEN Append(@, line) ELSE @]

(* poll reports a slot that has data or end of file. *)
Readable(w) == proc[w] # "none" /\ (fromWorker[w] # <<>> \/ HungUp(w))

(* Proc::fill: everything readable; returns false (end of file) once the   *)
(* last writer, the process itself, has closed its end.                    *)
AtEof(w) == HungUp(w)

(* throwExited: pipe EOF can be observed before a worker can be waited for; *)
(* a process that waitpid does not yet find is sent SIGKILL.               *)
EndsAsKilled(w) == proc[w] \in {"killed", "closing"}

(* kill(pid, SIGKILL): nothing happens to a zombie. *)
SigKill(w) ==
  proc' = [proc EXCEPT ![w] = IF @ \in {"running", "closing"} THEN "dying"
                                                                ELSE @]

(* The kernel tears a SIGKILLed process down: memory freed, pipes closed. *)
Reap(w) ==
  /\ proc[w] = "dying"
  /\ proc' = [proc EXCEPT ![w] = "killed"]
  /\ heap' = [heap EXCEPT ![w] = 0]
  /\ UNCHANGED <<wpc, wpath, toWorker, fromWorker>>

(* residentMemoryMiB(pid): a zombie's statm reads 0, and so does the empty *)
(* slot in sampleRss.                                                      *)
ResidentMemory(w) == heap[w]

ProcTypeOK ==
  /\ proc \in [Worker -> ProcState]
  /\ wpc \in [Worker -> {"none", "config", "init", "next", "command", "eval",
                         "restart", "return"}]
  /\ wpath \in [Worker -> Path \cup {NoPath}]
  /\ heap \in [Worker -> Nat]
  /\ toWorker \in [Worker -> Seq(Line)]
  /\ fromWorker \in [Worker -> Seq(Line)]
=============================================================================
