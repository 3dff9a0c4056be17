------------------------ MODULE CacheStatusResolver ------------------------
(***************************************************************************)
(* The thread that fills in the cache status of the jobs and then emits    *)
(* them (cache-status-resolver.cc).  The event loop pushes jobs into an    *)
(* inbox; the thread tries the jobs against what it knows of the stores,   *)
(* collects the probes they still need, and asks for those in one batch.   *)
(*                                                                         *)
(* Control of the thread, rpc:                                             *)
(*   "wait"     about to test the predicate of inboxCv.wait                *)
(*   "blocked"  asleep in inboxCv.wait                                     *)
(*   "take"     about to take the inbox                                    *)
(*   "round"    at the test of the inner loop, while (!jobs.empty())       *)
(*   "try"      in erase_if, at the head of `batch`                        *)
(*   "late"     about to take what arrived during the pass                 *)
(*   "query"    in resolveWanted                                           *)
(*   "exited"   the thread is joinable                                     *)
(*                                                                         *)
(* What tryResolve walks is abstracted to Probes[p], a sequence of sets of *)
(* probes: an attempt runs into the first set that is not fully known, and *)
(* asks for the whole of it.                                               *)
(***************************************************************************)
EXTENDS JobOutput

CONSTANTS
  CheckCacheStatus,   \* args.checkCacheStatus: whether there is a resolver
  Probe,              \* the store queries a job may need
  Probes,             \* Probes[p]: the rounds of probes of the job p
  StoreFails          \* whether a store operation may throw

ProbeAssumption ==
  /\ CheckCacheStatus \in BOOLEAN
  /\ StoreFails \in BOOLEAN
  /\ Probes \in [Path -> Seq(SUBSET Probe)]

ASSUME ProbeAssumption

VARIABLES
  rpc,       \* control of the thread
  inbox,     \* jobs pushed and not taken
  batch,     \* jobs of this pass still to be tried
  kept,      \* jobs of this pass that were tried in vain
  known,     \* validCache and probeCache
  wanted,    \* wantedValid and wanted
  closed,    \* no more jobs will come
  aborted,   \* the backlog is to be discarded
  exc        \* the thread ended with an exception

resolverVars == <<rpc, inbox, batch, kept, known, wanted, closed,
                  aborted, exc>>

ResolverInit ==
  /\ rpc = IF CheckCacheStatus THEN "wait" ELSE "exited"
  /\ inbox = <<>> /\ batch = <<>> /\ kept = <<>>
  /\ known = {} /\ wanted = {}
  /\ closed = FALSE /\ aborted = FALSE /\ exc = FALSE

(* inboxCv.notify_all() *)
Notify(pc) == IF pc = "blocked" THEN "wait" ELSE pc

(***************************************************************************)
(* Calls of the event loop and of main.                                    *)
(***************************************************************************)

(* push: dropped without a word once the thread has failed. *)
Push(p) ==
  IF closed \/ exc
  THEN UNCHANGED resolverVars
  ELSE /\ inbox' = Append(inbox, p)
       /\ rpc' = Notify(rpc)
       /\ UNCHANGED <<batch, kept, known, wanted, closed, aborted, exc>>

(* The critical section with which finish() and the destructor begin.      *)
(* finish() notifies after it; the destructor does so in Discard.          *)
SetClosed ==
  /\ closed' = TRUE
  /\ UNCHANGED <<rpc, inbox, batch, kept, known, wanted, aborted, exc>>

(* Mutant: finish() does not wake the thread. *)
NotifyNobody == UNCHANGED resolverVars

NotifyClosed ==
  /\ rpc' = Notify(rpc)
  /\ UNCHANGED <<inbox, batch, kept, known, wanted, closed, aborted,
                 exc>>

(* The destructor: aborted is set outside of the lock, then notify_all. *)
Discard ==
  /\ aborted' = TRUE
  /\ rpc' = Notify(rpc)
  /\ UNCHANGED <<inbox, batch, kept, known, wanted, closed, exc>>

(***************************************************************************)
(* The thread.                                                             *)
(***************************************************************************)

(* inboxCv.wait: test the predicate and go to sleep, atomically. *)
WaitInbox ==
  /\ rpc = "wait"
  /\ rpc' = IF inbox = <<>> /\ ~closed /\ ~aborted THEN "blocked"
            ELSE IF aborted \/ (closed /\ inbox = <<>>) THEN "exited"
            ELSE "take"
  /\ UNCHANGED <<inbox, batch, kept, known, wanted, closed, aborted,
                 exc, outputVars>>

(* Mutant: late arrivals replace the jobs that were postponed. *)
TakeInboxOverwrite(next) ==
  /\ batch' = inbox
  /\ kept' = <<>>
  /\ inbox' = <<>>
  /\ rpc' = next
  /\ UNCHANGED <<known, wanted, closed, aborted, exc, outputVars>>

TakeInbox(next) ==
  /\ batch' = kept \o inbox
  /\ kept' = <<>>
  /\ inbox' = <<>>
  /\ rpc' = next
  /\ UNCHANGED <<known, wanted, closed, aborted, exc, outputVars>>

FirstTake == rpc = "take" /\ TakeInbox("round")

(* The test of the inner loop, and the test of `aborted`. *)
BeginRound ==
  /\ rpc = "round"
  /\ rpc' = IF batch = <<>> THEN "wait"
            ELSE IF aborted THEN "exited" ELSE "try"
  /\ UNCHANGED <<inbox, batch, kept, known, wanted, closed, aborted,
                 exc, outputVars>>

(* The rounds of p that are not answered yet. *)
OpenRounds(p) == {i \in DOMAIN Probes[p] : ~(Probes[p][i] \subseteq known)}
FirstOpen(p) == CHOOSE i \in OpenRounds(p) : \A j \in OpenRounds(p) : i <= j

(* The probes that an attempt at p asks for. *)
MissingProbes(p) == Probes[p][FirstOpen(p)] \ known

(* The catch clause of run(): the jobs of the pass are lost. *)
ThreadThrows ==
  /\ exc' = TRUE
  /\ aborted' = TRUE
  /\ rpc' = "exited"
  /\ batch' = <<>> /\ kept' = <<>>
  /\ UNCHANGED <<inbox, known, wanted, closed>>

(* One step of erase_if: tryResolve succeeds and the sink emits the job.   *)
ResolveJob ==
  /\ rpc = "try"
  /\ batch # <<>>
  /\ OpenRounds(Head(batch)) = {}
  /\ LET p == Head(batch)
     IN  /\ EmitResponse(p, Kind[p])
         /\ IF EmitThrows(Kind[p])
            THEN ThreadThrows
            ELSE /\ batch' = Tail(batch)
                 /\ UNCHANGED <<rpc, inbox, kept, known, wanted,
                                closed, aborted, exc>>

(* tryResolve misses probes: they become wanted, the job is retried. *)
PostponeJob ==
  /\ rpc = "try"
  /\ batch # <<>>
  /\ OpenRounds(Head(batch)) # {}
  /\ LET p == Head(batch)
     IN  /\ wanted' = wanted \cup MissingProbes(p)
         /\ kept' = Append(kept, p)
  /\ batch' = Tail(batch)
  /\ UNCHANGED <<rpc, inbox, known, closed, aborted, exc, outputVars>>

EndPass ==
  /\ rpc = "try"
  /\ batch = <<>>
  /\ rpc' = "late"
  /\ UNCHANGED <<inbox, batch, kept, known, wanted, closed, aborted,
                 exc, outputVars>>

(* Late arrivals widen the next batch. *)
TakeLate == rpc = "late" /\ TakeInbox("query")

(* resolveWanted: every probe asked for is answered, for good. *)
ResolveWanted ==
  /\ rpc = "query"
  /\ known' = known \cup wanted
  /\ wanted' = {}
  /\ rpc' = "round"
  /\ UNCHANGED <<inbox, batch, kept, closed, aborted, exc, outputVars>>

(* readDerivation or queryValidPaths throws. *)
StoreThrows ==
  /\ StoreFails
  /\ \/ rpc = "try" /\ batch # <<>>
     \/ rpc = "query" /\ wanted # {}
  /\ ThreadThrows
  /\ UNCHANGED outputVars

(* checkInterrupt in the inner loop throws, after a SIGINT. *)
ThreadInterrupted ==
  /\ rpc = "round" /\ batch # <<>>
  /\ ThreadThrows
  /\ UNCHANGED outputVars

ResolverProgram ==
  \/ WaitInbox \/ FirstTake \/ BeginRound
  \/ ResolveJob \/ PostponeJob \/ EndPass
  \/ TakeLate \/ ResolveWanted

ResolverStep == ResolverProgram \/ StoreThrows \/ ThreadInterrupted

ResolverTypeOK ==
  /\ rpc \in {"wait", "blocked", "take", "round", "try", "late", "query",
              "exited"}
  /\ inbox \in Seq(JobPath)
  /\ batch \in Seq(JobPath) /\ kept \in Seq(JobPath)
  /\ known \subseteq Probe /\ wanted \subseteq Probe
  /\ closed \in BOOLEAN /\ aborted \in BOOLEAN /\ exc \in BOOLEAN
=============================================================================
