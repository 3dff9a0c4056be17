----------------------------- MODULE EvalWorker -----------------------------
(***************************************************************************)
(* An evaluation worker process: runWorker (nix-eval-jobs.cc), worker and  *)
(* processJobRequest (worker.cc).  Its control is wpc[w]:                  *)
(*   "config"   waits for the configuration line                           *)
(*   "init"     opens the store, evaluates the root value                  *)
(*   "next"     about to write MSG_NEXT                                    *)
(*   "command"  waits for a command                                        *)
(*   "eval"     evaluates wpath[w]                                         *)
(*   "restart"  about to write MSG_RESTART                                 *)
(*   "return"   left worker(): destructors, then exit status 0             *)
(*                                                                         *)
(* The memory an evaluation adds appears at once when it starts: a sample  *)
(* taken earlier in the evaluation is one taken before the command.        *)
(***************************************************************************)
EXTENDS Proc

CONSTANTS
  MaxMemorySize,   \* args.maxMemorySize
  MaxOomKills      \* how often the kernel's OOM killer strikes

WorkerLimitAssumption == MaxMemorySize \in Nat /\ MaxOomKills \in Nat

ASSUME WorkerLimitAssumption

VARIABLES
  oomKills,        \* how often it has struck
  parentAlive      \* the collector's ends of the pipes are open

workerVars == <<procVars, oomKills, parentAlive>>

WorkerInit == ProcInit /\ oomKills = 0 /\ parentAlive = TRUE

At(w, pc) == proc[w] = "running" /\ wpc[w] = pc
GoTo(w, pc) == wpc' = [wpc EXCEPT ![w] = pc]

(* tryWriteLine(toParent, line), then control goes to pc, or out of        *)
(* worker() when the collector is gone.                                    *)
WriteLine(w, line, pc) ==
  /\ fromWorker' = [fromWorker EXCEPT ![w] =
                      IF parentAlive THEN Append(@, line) ELSE @]
  /\ GoTo(w, IF parentAlive THEN pc ELSE "return")

(* The configuration line was written by the constructor of Proc. *)
ReadConfig(w) ==
  /\ At(w, "config")
  /\ toWorker[w] # <<>>
  /\ toWorker' = [toWorker EXCEPT ![w] = Tail(@)]
  /\ GoTo(w, "init")
  /\ UNCHANGED <<proc, wpath, heap, fromWorker, oomKills, parentAlive>>

(* initializeRootValue succeeds. *)
InitRoot(w) ==
  /\ At(w, "init")
  /\ heap' = [heap EXCEPT ![w] = BaseRss]
  /\ GoTo(w, "next")
  /\ UNCHANGED <<proc, wpath, toWorker, fromWorker, oomKills, parentAlive>>

(* It throws nix::Error: runWorker writes the error, then MSG_RESTART. *)
InitRootFails(w) ==
  /\ "initError" \in Faults
  /\ At(w, "init")
  /\ WriteLine(w, InitErrorLine, "restart")
  /\ UNCHANGED <<proc, wpath, heap, toWorker, oomKills, parentAlive>>

SendNext(w) ==
  /\ At(w, "next")
  /\ WriteLine(w, MsgNext, "command")
  /\ UNCHANGED <<proc, wpath, heap, toWorker, oomKills, parentAlive>>

(* A command to evaluate a path. *)
ReadJob(w) ==
  /\ At(w, "command")
  /\ toWorker[w] # <<>>
  /\ Head(toWorker[w]).type = "do"
  /\ LET p == Head(toWorker[w]).attrPath
     IN  /\ wpath' = [wpath EXCEPT ![w] = p]
         /\ heap' = [heap EXCEPT ![w] = @ + Cost[p]]
  /\ toWorker' = [toWorker EXCEPT ![w] = Tail(@)]
  /\ GoTo(w, "eval")
  /\ UNCHANGED <<proc, fromWorker, oomKills, parentAlive>>

(* MSG_EXIT. *)
ReadExit(w) ==
  /\ At(w, "command")
  /\ toWorker[w] # <<>>
  /\ Head(toWorker[w]).type = "exit"
  /\ toWorker' = [toWorker EXCEPT ![w] = Tail(@)]
  /\ GoTo(w, "return")
  /\ UNCHANGED <<proc, wpath, heap, fromWorker, oomKills, parentAlive>>

(* End of file on the command pipe: the collector is gone. *)
ReadEof(w) ==
  /\ At(w, "command")
  /\ toWorker[w] = <<>>
  /\ ~parentAlive
  /\ GoTo(w, "return")
  /\ UNCHANGED <<proc, wpath, heap, toWorker, fromWorker, oomKills,
                 parentAlive>>

(* The evaluation is done: write the response, then shouldRestart. *)
Respond(w) ==
  /\ At(w, "eval")
  /\ WriteLine(w, ResponseLine(wpath[w]),
               IF heap[w] > MaxMemorySize THEN "restart" ELSE "next")
  /\ wpath' = [wpath EXCEPT ![w] = NoPath]
  /\ UNCHANGED <<proc, heap, toWorker, oomKills, parentAlive>>

SendRestart(w) ==
  /\ At(w, "restart")
  /\ WriteLine(w, MsgRestart, "return")
  /\ UNCHANGED <<proc, wpath, heap, toWorker, oomKills, parentAlive>>

(* main returns 0. *)
Exit(w) ==
  /\ At(w, "return")
  /\ proc' = [proc EXCEPT ![w] = "exited0"]
  /\ heap' = [heap EXCEPT ![w] = 0]
  /\ UNCHANGED <<wpc, wpath, toWorker, fromWorker, oomKills, parentAlive>>

(* What the evaluator and the destructors can do instead: exit with status *)
(* 1 at once (infinite recursion), or die of a signal.                     *)
Crash(w, status) ==
  /\ status \in Faults
  /\ proc[w] = "running"
  /\ wpc[w] \in {"init", "eval", "return"}
  /\ proc' = [proc EXCEPT ![w] = IF status = "exit1" THEN "exited1"
                                                     ELSE "signaled"]
  /\ heap' = [heap EXCEPT ![w] = 0]
  /\ UNCHANGED <<wpc, wpath, toWorker, fromWorker, oomKills, parentAlive>>

(* An exception that is no nix::Error leaves worker() and runWorker: the   *)
(* pipes are closed on the way, handleExceptions in main comes later.      *)
Unwind(w) ==
  /\ \/ "rootEscapes" \in Faults /\ At(w, "init")
     \/ "escapes" \in Faults /\ At(w, "eval")
  /\ proc' = [proc EXCEPT ![w] = "closing"]
  /\ UNCHANGED <<wpc, wpath, heap, toWorker, fromWorker, oomKills,
                 parentAlive>>

(* main returns 1. *)
ExitUnwound(w) ==
  /\ proc[w] = "closing"
  /\ proc' = [proc EXCEPT ![w] = "exited1"]
  /\ heap' = [heap EXCEPT ![w] = 0]
  /\ UNCHANGED <<wpc, wpath, toWorker, fromWorker, oomKills, parentAlive>>

(* The kernel's OOM killer, at any moment of a worker's life. *)
OomKill(w) ==
  /\ "oomKill" \in Faults
  /\ oomKills < MaxOomKills
  /\ proc[w] = "running"
  /\ SigKill(w)
  /\ oomKills' = oomKills + 1
  /\ UNCHANGED <<wpc, wpath, heap, toWorker, fromWorker, parentAlive>>

(* The worker's own program, which the operating system schedules. *)
WorkerProgram(w) ==
  \/ ReadConfig(w)
  \/ InitRoot(w) \/ InitRootFails(w)
  \/ SendNext(w)
  \/ ReadJob(w) \/ ReadExit(w) \/ ReadEof(w)
  \/ Respond(w)
  \/ SendRestart(w)
  \/ Exit(w) \/ ExitUnwound(w)

(* What the kernel does to it. *)
Kernel(w) ==
  \/ Reap(w) /\ UNCHANGED <<oomKills, parentAlive>>
  \/ OomKill(w)
  \/ Unwind(w)
  \/ \E status \in {"exit1", "signaled"} : Crash(w, status)

WorkerStep == \E w \in Worker : WorkerProgram(w) \/ Kernel(w)

WorkerTypeOK == ProcTypeOK /\ oomKills \in Nat /\ parentAlive \in BOOLEAN
=============================================================================
