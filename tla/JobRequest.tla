----------------------------- MODULE JobRequest -----------------------------
(***************************************************************************)
(* One job of a worker process, from the command to the line of its        *)
(* response: processJobRequest, Evaluator::evaluate, processDerivation     *)
(* (worker.cc), Drv::fromPackageInfo (drv.cc) and EvalLogCapture           *)
(* (eval-log.cc), around the walk of Evaluator.                            *)
(*                                                                         *)
(* A process keeps state between its jobs: the thunks it has forced, the   *)
(* captured messages and storeReadsDrvs.  It is lost with the process.     *)
(* What the collector does with a lost worker is the subject of EvalJobs;  *)
(* here a job whose process is lost is evaluated again by a fresh one, and *)
(* given up the second time.                                               *)
(***************************************************************************)
EXTENDS Evaluator, ResponseJson

(* Besides its graph, an expression has                                    *)
(*   says[slot]    "warnings" or "traces": forcing the attribute logs a    *)
(*                 message of that kind; a slot is a set and a name        *)
(*   quirks[slot]  what is unusual about the derivation there              *)
(*   args, store   the options, and what kind of store is opened           *)
(*   env           what may happen to the process                          *)
Quirk ==
  {"aggregate",         \* _hydraAggregate = true
   "noConstituents",    \* ... whose constituents are missing, or throw
   "applyThrows",
   "outputsThrow",      \* or its name, or its drvPath
   "metaThrows", "rootThrows",
   "caOutputs",         \* output paths are not known statically
   "noOutputs",         \* outputs = [ ]
   "noMeta",
   "unreadable",        \* readDerivation throws nix::Error
   "badOptions"}        \* so does derivationOptionsFromStructuredAttrs

Option == {"constituents", "apply", "gcRoots", "readOnly", "caDerivations",
           "showInputDrvs", "meta"}

StoreKind == {"local",  \* a LocalFSStore, the daemon included
              "wire",   \* a RemoteStore that is none
              "other"}

Environment == {"noise",    \* other threads log warnings
                "kill", "restart"}

CONSTANT MaxEvents     \* bound on how often any of it happens

Slot == AttrSet \X Name

JobAssumption ==
  /\ MaxEvents \in Nat
  /\ \A e \in Expression :
       /\ DOMAIN e.says \subseteq Slot
       /\ Range(e.says) \subseteq DOMAIN NoLogs
       /\ DOMAIN e.quirks \subseteq Slot
       /\ Range(e.quirks) \subseteq SUBSET Quirk
       /\ e.args \subseteq Option /\ e.store \in StoreKind
       /\ e.env \subseteq Environment
       /\ \A s \in AttrSet : RecurseFor \in DOMAIN e.attrs[s] =>
            e.attrs[s][RecurseFor] # "unprintable"

ASSUME JobAssumption

VARIABLES
  stage,        \* "walk", or the next step of processDerivation
  job,          \* the Response::Job that is being put together
  logs,         \* EvalLogCapture::logs
  forced,       \* the slots whose thunks have been evaluated
  storeReads,   \* storeReadsDrvs
  gcRoots,      \* the derivations that have a root in args.gcRootsDir
  lines,        \* lines[p]: what was written for p
  retried,      \* the jobs whose process was lost once
  events        \* counts what happened to the process

processVars == <<logs, forced, storeReads>>
jobVars == <<stage, job, processVars, gcRoots, lines, retried>>
vars == <<evaluatorVars, jobVars, events>>

Happens(event) ==
  /\ event \in expr.env
  /\ events < MaxEvents /\ events' = events + 1

(***************************************************************************)
(* EvalLogCapture.                                                         *)
(***************************************************************************)
Between == <<"noise between jobs">>
During  == <<"noise during a job">>

(* Forcing an attribute of a set logs its message, unless the thunk has    *)
(* been evaluated; what a call returns has thunks of its own.              *)
Message(set, name) ==
  LET slot == <<set.of, name>>
  IN  IF slot \in DOMAIN expr.says /\ (set.call # 0 \/ slot \notin forced)
      THEN {slot} ELSE {}

Captured(messages) ==
  [k \in DOMAIN logs |->
     logs[k] \o SetToSeq({s \in messages : expr.says[s] = k})]

(* An exception leaves the thunk as it was. *)
ForcedWith(set, name) ==
  IF set.call = 0
       /\ AttrsOf(set.of)[name] \notin {"throws", "unprintable", "overflow"}
  THEN forced \cup {<<set.of, name>>} ELSE forced

ForceAttr(set, name) ==
  /\ logs' = Captured(Message(set, name))
  /\ forced' = ForcedWith(set, name)

Warn(noise) ==
  /\ Happens("noise")
  /\ noise \notin Range(logs.warnings)
  /\ logs' = [logs EXCEPT !.warnings = Append(@, noise)]
  /\ UNCHANGED <<evaluatorVars, stage, job, forced, storeReads, gcRoots,
                 lines, retried>>

NoiseBetween == ~busy /\ ~Finished /\ Warn(Between)
NoiseDuring  == busy /\ Warn(During)

(* Mutant: the first take() is left out. *)
LogsKept == logs

LogsAfterResponse == NoLogs
LogsBeforeJob == NoLogs

(***************************************************************************)
(* processJobRequest: the command.                                         *)
(***************************************************************************)
ReadCommand ==
  /\ TakeJob
  /\ stage' = "walk"
  /\ logs' = LogsBeforeJob
  /\ UNCHANGED <<job, forced, storeReads, gcRoots, lines, retried>>

Select ==
  /\ SelectAttr
  /\ ForceAttr(value, path[depth + 1])
  /\ UNCHANGED <<stage, job, storeReads, gcRoots, lines, retried>>

(***************************************************************************)
(* The response, and what the collector does with it.                      *)
(***************************************************************************)
Report(payload, captured) ==
  LET line == ToJson([attrPath |-> path, logs |-> captured,
                      payload |-> payload])
  IN  lines' = [p \in DOMAIN lines \cup {path} |->
                  IF p = path THEN line ELSE lines[p]]

WriteLine(payload, captured) ==
  /\ Report(payload, captured)
  /\ logs' = LogsAfterResponse
  /\ stage' = "walk"

ErrorPayload(fatal) ==
  [type |-> "error", error |-> "text", fatal |-> fatal]

WalkPayload(answered) ==
  IF answered.type = "attrs" THEN answered
                             ELSE ErrorPayload(answered.type = "fatal")

ForcesFlag ==
  value.of \in AttrSet /\ ~ContainsItself /\ ~expr.forceRecurse /\ HasFlag

(* Everything that is no derivation. *)
RespondWalk ==
  /\ EvaluateThrows \/ EvaluateOther \/ EvaluateCycle \/ EvaluateSet
  /\ LET said == IF ForcesFlag THEN Message(value, RecurseFor) ELSE {}
     IN  WriteLine(WalkPayload(answer'[path]), Captured(said))
  /\ forced' = IF ForcesFlag THEN ForcedWith(value, RecurseFor) ELSE forced
  /\ UNCHANGED <<job, storeReads, gcRoots, retried>>

(* Mutant: messages are attached to jobs only. *)
LogsDropped == NoLogs

LogsOfError == logs

(* An exception in processDerivation, caught by evaluate. *)
RespondError ==
  /\ Answer("error", {})
  /\ WriteLine(ErrorPayload(FALSE), LogsOfError)
  /\ UNCHANGED <<job, forced, gcRoots, retried>>

(***************************************************************************)
(* processDerivation.                                                      *)
(***************************************************************************)
DrvSlot == <<Last(ancestors).of, Last(path)>>
Quirks == IF DrvSlot \in DOMAIN expr.quirks THEN expr.quirks[DrvSlot] ELSE {}
Asked(option) == option \in expr.args

At(s) == busy /\ stage = s

GoOn(s) ==
  /\ stage' = s
  /\ UNCHANGED <<evaluatorVars, logs, forced, lines, retried>>

IsAggregate == Asked("constituents") /\ "aggregate" \in Quirks

Aggregate ==
  [constituents |-> <<"drv">>, namedConstituents |-> <<"name">>,
   globConstituents |-> TRUE]

ExtractConstituents ==
  /\ At("walk") /\ Selected /\ value.of = "derivation"
  /\ UNCHANGED <<storeReads, gcRoots>>
  /\ \/ IsAggregate /\ "noConstituents" \in Quirks /\ RespondError
     \/ /\ ~(IsAggregate /\ "noConstituents" \in Quirks)
        /\ job' = [drv |-> [EmptyDrv(DrvSlot, <<>>) EXCEPT !.constituents =
                              IF IsAggregate THEN Aggregate ELSE @],
                   extraValue |-> {}]
        /\ GoOn("apply")

ApplyExpr ==
  /\ At("apply")
  /\ UNCHANGED <<storeReads, gcRoots>>
  /\ \/ Asked("apply") /\ "applyThrows" \in Quirks /\ RespondError
     \/ /\ ~(Asked("apply") /\ "applyThrows" \in Quirks)
        /\ job' = [job EXCEPT !.extraValue =
                     IF Asked("apply") THEN {"value"} ELSE {}]
        /\ GoOn("record")

(***************************************************************************)
(* Drv::fromPackageInfo.                                                   *)
(***************************************************************************)
OutputsThrow ==
  \/ "outputsThrow" \in Quirks
  \/ "caOutputs" \in Quirks /\ ~Asked("caDerivations")

Outputs ==
  IF "noOutputs" \in Quirks THEN <<>>
  ELSE [out |-> IF "caOutputs" \in Quirks THEN Null ELSE "path"]

TryRead == ~Asked("readOnly") /\ storeReads /\ expr.store # "wire"

(* Mutant: the handler encloses the query of the outputs. *)
ReadOrOutputsFail ==
  TryRead /\ Quirks \cap {"unreadable", "badOptions", "caOutputs"} # {}

ReadFails == TryRead /\ Quirks \cap {"unreadable", "badOptions"} # {}

InputDrvs == IF Asked("showInputDrvs") THEN {"inputs"} ELSE {}

(* Without any metadata it is null. *)
Meta ==
  IF ~Asked("meta") THEN {}
  ELSE IF "noMeta" \in Quirks THEN {Null} ELSE {"meta"}

(* The input derivations are assigned before the options are parsed. *)
Record ==
  [job.drv EXCEPT
     !.outputs = Outputs,
     !.system = "system",
     !.inputDrvs =
        IF TryRead /\ "unreadable" \notin Quirks THEN InputDrvs ELSE {},
     !.requiredSystemFeatures =
        IF TryRead /\ ~ReadFails THEN {"features"} ELSE {},
     !.meta = Meta]

FromPackageInfo ==
  /\ At("record")
  /\ UNCHANGED gcRoots
  /\ IF OutputsThrow
     THEN RespondError /\ UNCHANGED storeReads
     ELSE /\ storeReads' = (storeReads /\ ~ReadFails)
          /\ IF Asked("meta") /\ "metaThrows" \in Quirks
             THEN RespondError
             ELSE job' = [job EXCEPT !.drv = Record] /\ GoOn("root")

(***************************************************************************)
(* registerGCRoot, and the response of a derivation.                       *)
(***************************************************************************)

(* Mutant: only what was read from the store gets a root. *)
RootWantedIfRead ==
  Asked("gcRoots") /\ ~Asked("readOnly") /\ expr.store = "local" /\ storeReads

RootWanted ==
  Asked("gcRoots") /\ ~Asked("readOnly") /\ expr.store = "local"

AddsRoot == RootWanted /\ job.drv.drvPath \notin gcRoots

RegisterGCRoot ==
  /\ At("root")
  /\ UNCHANGED storeReads
  /\ \/ AddsRoot /\ "rootThrows" \in Quirks /\ RespondError
     \/ /\ ~(AddsRoot /\ "rootThrows" \in Quirks)
        /\ gcRoots' = gcRoots \cup IF RootWanted THEN {job.drv.drvPath} ELSE {}
        /\ GoOn("respond") /\ UNCHANGED job

(* A line that from_json refuses ends the run. *)
RespondJob ==
  /\ At("respond")
  /\ WriteLine([type |-> "job", drv |-> job.drv,
                extraValue |-> job.extraValue], logs)
  /\ Answer(IF Parses(lines'[path]) THEN "job" ELSE "abort", {})
  /\ UNCHANGED <<job, forced, storeReads, gcRoots, retried>>

(***************************************************************************)
(* The process between and without responses.                              *)
(***************************************************************************)
FreshProcess == logs' = NoLogs /\ forced' = {} /\ storeReads' = TRUE

(* The first time the collector queues the job again, the second time it   *)
(* reports that it exceeds the memory budget.                              *)

(* Mutants: it never queues it again, or forgets the job. *)
GivesUpAtOnce == TRUE
Forgotten == todo

GivesUp == path \in retried
QueuedAgain == todo \cup {path}

Lost ==
  /\ FreshProcess
  /\ stage' = "walk"
  /\ UNCHANGED <<job, gcRoots>>
  /\ IF GivesUp
     THEN /\ Answer("error", {})
          /\ Report(ErrorPayload(FALSE), NoLogs)
          /\ UNCHANGED retried
     ELSE /\ retried' = retried \cup {path}
          /\ todo' = QueuedAgain /\ busy' = FALSE
          /\ UNCHANGED <<expr, answer, path, depth, value, ancestors, lines>>

Killed ==
  /\ Happens("kill")
  /\ busy
  /\ Lost

(* dump() throws, outside of evaluate: the exception leaves worker(), and  *)
(* the collector either finds that the process failed and gives up, or     *)
(* finds it still there and takes it for one that was killed.              *)
Unprintable ==
  /\ Selected /\ value.of = "unprintable"
  /\ \/ Lost
     \/ Answer("abort", {}) /\ UNCHANGED jobVars
  /\ UNCHANGED events

(* shouldRestart. *)
Restart ==
  /\ Happens("restart")
  /\ ~busy /\ ~Finished /\ DOMAIN answer # {}
  /\ <<logs, forced, storeReads>> # <<NoLogs, {}, TRUE>>
  /\ FreshProcess
  /\ UNCHANGED <<evaluatorVars, stage, job, gcRoots, lines, retried>>

Stay == Finished /\ UNCHANGED vars

Init ==
  /\ WalkInit
  /\ stage = "walk"
  /\ job = [drv |-> EmptyDrv(<<>>, <<>>), extraValue |-> {}]
  /\ logs = NoLogs /\ forced = {} /\ storeReads = TRUE
  /\ gcRoots = {} /\ lines = <<>> /\ retried = {} /\ events = 0

ProcessJobRequest ==
  \/ ReadCommand \/ Select
  \/ RespondWalk
  \/ ExtractConstituents \/ ApplyExpr \/ FromPackageInfo
  \/ RegisterGCRoot \/ RespondJob

Next ==
  \/ ProcessJobRequest /\ UNCHANGED events
  \/ Killed \/ Unprintable \/ Restart
  \/ NoiseBetween \/ NoiseDuring
  \/ Stay

Spec == Init /\ [][Next]_vars

(***************************************************************************)
(* Correctness.                                                            *)
(***************************************************************************)

(* Types, and what Evaluator says of the walk; every answered path but one *)
(* that ended the run has its line.                                        *)
TypeOK ==
  /\ WalkTypeOK
  /\ stage \in {"walk", "apply", "record", "root", "respond"}
  /\ stage # "walk" => Selected /\ value.of = "derivation"
  /\ forced \subseteq Slot /\ gcRoots \subseteq Slot
  /\ storeReads \in BOOLEAN /\ events \in 0 .. MaxEvents
  /\ DOMAIN lines \subseteq DOMAIN answer
  /\ \A p \in DOMAIN answer \ DOMAIN lines : answer[p].type = "abort"
  /\ retried \subseteq todo \cup DOMAIN answer \cup {path}

(* onKilled gives up a job that was queued again before.  A job costs a    *)
(* process each time if its result cannot be written; a kill is an event.  *)
IsGivenUp(p) == p \in retried /\ answer[p].type = "error"

SetsKept == \A p \in DOMAIN answer : IsGivenUp(p) => SetAt(p) \notin AttrSet

CostsTwo(p) ==
  SetAt(p) = "unprintable" \/ ("kill" \in expr.env /\ events > 1)

(* Evaluator's property with the errors of derivations and lost processes: *)
(* a set that is merely used in two places, or that two calls return, is   *)
(* no cycle, and an option that was not given fails nothing.               *)
QuirksAt(p) ==
  LET slot == <<SetAt(Front(p)), Last(p)>>
  IN  IF slot \in DOMAIN expr.quirks THEN expr.quirks[slot] ELSE {}

DerivationFails(p) ==
  /\ p # <<>> /\ SetAt(p) = "derivation"
  /\ \/ "outputsThrow" \in QuirksAt(p)
     \/ "caOutputs" \in QuirksAt(p) /\ ~Asked("caDerivations")
     \/ Asked("meta") /\ "metaThrows" \in QuirksAt(p)
     \/ Asked("apply") /\ "applyThrows" \in QuirksAt(p)
     \/ Asked("gcRoots") /\ "rootThrows" \in QuirksAt(p)
     \/ Asked("constituents") /\ "noConstituents" \in QuirksAt(p)

ErrorHasCause ==
  \A p \in DOMAIN answer : answer[p].type = "error" =>
    WalkFails(p) \/ DerivationFails(p) \/ (p \in retried /\ CostsTwo(p))

(* A derivation in a set that can be reached is reported under one path at *)
(* least (Evaluator::evaluate), whatever processes were lost on the way,   *)
(* unless a set was given up with what lies in it.                         *)
NoDerivationLost ==
  Finished /\ ~Aborted /\ SetsKept =>
    \A s \in Reached \cup {SetAt(<<>>)} : \A a \in DOMAIN AttrsOf(s) :
      /\ AttrsOf(s)[a] = "derivation"
      /\ MayRecurse(s, s \notin Reached)
      => \E p \in DOMAIN answer :
           /\ \/ answer[p].type = "job"
              \/ answer[p].type = "error" /\ DerivationFails(p)
              \/ IsGivenUp(p)
           /\ p # <<>> /\ Last(p) = a /\ SetAt(Front(p)) = s

(* The attributes that lead to p, in order, and the flag of the set that   *)
(* is found there.                                                         *)
PathSlots(p) == [i \in 1 .. Len(p) |-> <<SetAt(SubSeq(p, 1, i - 1)), p[i]>>]
FlagSlots(p) ==
  IF SetAt(p) \in AttrSet /\ RecurseFor \in DOMAIN AttrsOf(SetAt(p))
  THEN <<<<SetAt(p), RecurseFor>>>> ELSE <<>>

Says(slot, k) == slot \in DOMAIN expr.says /\ expr.says[slot] = k

LogsOf(line, k) == GetOr(line, k, <<>>)

(* The messages, but for the noise, are those of some of the slots, each   *)
(* once and in the same order.                                             *)
Reports(messages, slots, k) ==
  LET own == {i \in DOMAIN messages : messages[i] # During}
  IN  \E f \in [own -> {j \in DOMAIN slots : Says(slots[j], k)}] :
        /\ \A i, j \in own : i < j => f[i] < f[j]
        /\ \A i \in own : messages[i] = slots[f[i]]

(* Warnings and traces are attached to the right line (EvalLogCapture and  *)
(* its two take() in processJobRequest): a line has only messages of       *)
(* attributes on its path, each as often and in the order in which they    *)
(* were passed; and the message of an attribute that was evaluated is on   *)
(* some line, whatever other paths lead through the attribute, and         *)
(* whatever processes were lost.  (Lines are written when a job ends.)     *)
MessagesOnTheirLine ==
  ~busy => \A p \in DOMAIN lines : \A k \in DOMAIN NoLogs :
    /\ Reports(LogsOf(lines[p], k), PathSlots(p) \o FlagSlots(p), k)
    /\ IsGivenUp(p) \/ \A slot \in Range(PathSlots(p)) : Says(slot, k) =>
         \E q \in DOMAIN lines : slot \in Range(LogsOf(lines[q], k))

(* A derivation that is reported has its root, if roots are asked for and  *)
(* the store can have them, however its process ended (registerGCRoot).    *)
ReportedIsRooted ==
  \A p \in DOMAIN answer :
    answer[p].type = "job" /\ Asked("gcRoots") /\ ~Asked("readOnly")
      /\ expr.store = "local"
    => lines[p].drvPath \in gcRoots

(* Only a derivation that could not be read, or parsed, costs the lines of *)
(* a process their requiredSystemFeatures and inputDrvs (storeReadsDrvs).  *)
ImpreciseHasCause ==
  \A p \in DOMAIN answer :
    answer[p].type = "job" /\ ~Asked("readOnly") /\ expr.store # "wire" =>
      \/ \E q \in DOMAIN answer :
           q # <<>> /\ QuirksAt(q) \cap {"unreadable", "badOptions"} # {}
      \/ /\ "requiredSystemFeatures" \in DOMAIN lines[p]
         /\ Asked("showInputDrvs") => "inputDrvs" \in DOMAIN lines[p]

(* What the collector prints is what the worker wrote: no field of any     *)
(* line is lost, added or changed by reading and writing it, and the cache *)
(* status is added to it (to_json and from_json).                          *)
WithStatus(response) ==
  [response EXCEPT !.payload.drv.cacheStatus = "local",
                   !.payload.drv.neededBuilds = <<"drv">>]

PrintedAlike ==
  ~busy => \A p \in DOMAIN lines : Parses(lines[p]) =>
    LET response == FromJson(lines[p])
    IN  /\ ToJson(response) = lines[p]
        /\ answer[p].type = "job" =>
             LET printed == ToJson(WithStatus(response))
             IN  /\ FromJson(printed) = WithStatus(response)
                 /\ [k \in DOMAIN lines[p] |-> printed[k]] = lines[p]

(* Says the help of --show-input-drvs (eval-args.cc): the input            *)
(* derivations are shown for each derivation.  A store that fails to read  *)
(* is remembered, says drv.cc; here every derivation can be read.          *)
InputDrvsShown ==
  \A p \in DOMAIN answer :
    /\ answer[p].type = "job" /\ Asked("showInputDrvs")
    /\ ~Asked("readOnly") /\ expr.store = "local"
    /\ \A q \in Range(expr.quirks) : "unreadable" \notin q
    => "inputDrvs" \in DOMAIN lines[p]
=============================================================================
