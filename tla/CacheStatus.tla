---------------------------- MODULE CacheStatus ------------------------------
(***************************************************************************)
(* How the thread of the CacheStatusResolver computes the cache status of  *)
(* a job (cache-status-resolver.cc, tryResolve and below).  A job is       *)
(* attempted with the probe results that are known; every path it misses   *)
(* is noted, the attempt is dropped, and after a pass over all jobs the    *)
(* notes become two batched queries, of the local store and of the         *)
(* substituters.  CacheStatusResolver is the thread around this.           *)
(*                                                                         *)
(* The recursion of visitDrv is an explicit stack, one step per call, as   *)
(* an invariant of the walk needs its intermediate states.  Numbers stand  *)
(* for derivations and for output names, in the order in which std::map    *)
(* keeps them.  The stores answer as they please; a substituter that       *)
(* cannot be reached is one that has nothing.                              *)
(***************************************************************************)
EXTENDS Naturals, Sequences, SequencesExt, FiniteSets, FiniteSetsExt

CONSTANTS
  Drv,          \* derivations
  Job,          \* those that are evaluated jobs
  OutputPath,   \* store paths of outputs
  NoPath,       \* nullopt: an output path that is statically unknown
  OutputMap,    \* the values that `outputs` may have
  InputGraph    \* the values that `inputs` may have

DrvAssumption ==
  /\ Drv \subseteq Nat /\ IsFiniteSet(Drv) /\ Job \subseteq Drv
  /\ NoPath \notin OutputPath
  /\ \A o \in OutputMap : \A d \in Drv :
       /\ DOMAIN o[d] \subseteq Nat
       /\ Range(o[d]) \subseteq OutputPath \cup {NoPath}

(* An input graph has no cycle: here, edges lead to greater numbers. *)
GraphAssumption ==
  \A g \in InputGraph : \A d \in Drv :
    /\ DOMAIN g[d] \subseteq {e \in Drv : e > d}
    /\ \A e \in DOMAIN g[d] : \A o \in OutputMap :
         g[d][e] \subseteq DOMAIN o[e]

ASSUME DrvAssumption
ASSUME GraphAssumption

VARIABLES
  outputs,      \* outputs[d][name]: the path of an output of d, or NoPath
  inputs,       \* inputs[d][e]: the outputs of e that d wants, {} for all
  unsent,       \* the jobs that the event loop has still to push
  pc,           \* "wait", "pass", "walk", "late", "valid", "substitutable"
  jobs,         \* run()'s local; those of them ...
  tried,        \* ... that erase_if has kept in this pass
  validCache, probeCache, wantedValid, wanted,
  t,            \* an attempt that walks the inputs: see NewAttempt
  result        \* result[j]: the fields that tryResolve fills in

storeVars == <<outputs, inputs, validCache, probeCache>>
vars == <<storeVars, unsent, pc, jobs, tried, wantedValid, wanted, t, result>>

Answer == {"unknown", "yes", "no"}

NoResult == [status |-> "Unknown", builds |-> <<>>, unknown |-> <<>>,
             substitutes |-> {}]

(* t: the Traversal, what the attempt notes down in wantedValid and wanted, *)
(* attemptComplete, and the calls of visitDrv that have not returned: each *)
(* has `rest` of its inputs to visit, and `last` tells whether it adds its *)
(* derivation to neededBuilds then.                                        *)
NewAttempt ==
  [visited |-> {}, builds |-> <<>>, unknown |-> <<>>, substitutes |-> {},
   wantedValid |-> {}, wanted |-> {}, complete |-> TRUE, stack |-> <<>>]

Init ==
  /\ outputs \in OutputMap
  /\ inputs \in InputGraph
  /\ unsent = Job /\ pc = "wait" /\ jobs = <<>> /\ tried = <<>>
  /\ validCache = [p \in OutputPath |-> "unknown"]
  /\ probeCache = [p \in OutputPath |-> "unknown"]
  /\ wantedValid = {} /\ wanted = {}
  /\ t = NewAttempt
  /\ result = [j \in Job |-> NoResult]

(***************************************************************************)
(* What an attempt, a, does.                                               *)
(***************************************************************************)

(* The outputs that a loop over `names` looks at, in order, before it      *)
(* stops at one without a path; all of them when all have paths.           *)
BeforeUnknown(d, names) ==
  {outputs[d][n] : n \in
     {n \in names : \A m \in names : m <= n => outputs[d][m] # NoPath}}

Known(d, names) == \A n \in names : outputs[d][n] # NoPath

(* Mutant: no names are no outputs. *)
WantedNamesLiteral(d, names) == names

WantedNames(d, names) == IF names = {} THEN DOMAIN outputs[d] ELSE names

(* Mutant: the cache is not consulted. *)
PendingAll(cache, paths) == paths

Pending(cache, paths) == {p \in paths : cache[p] = "unknown"}
Missing(paths)        == {p \in paths : validCache[p] = "no"}

(* Mutant: a pending probe does not make the attempt incomplete. *)
ProbeValidityQuietly(a, paths) ==
  [a EXCEPT !.wantedValid = @ \cup Pending(validCache, paths)]

(* probeValidity, of each of the paths. *)
ProbeValidity(a, paths) ==
  [a EXCEPT !.wantedValid = @ \cup Pending(validCache, paths),
            !.complete = @ /\ Pending(validCache, paths) = {}]

(* Mutant: the paths that are looked for are not noted down. *)
ProbeSubstitutesUnnoted(a, paths) ==
  [a EXCEPT !.complete = @ /\ Pending(probeCache, paths) = {}]

(* allSubstitutable, what it notes down ... *)
ProbeSubstitutes(a, paths) ==
  [a EXCEPT !.wanted = @ \cup Pending(probeCache, paths),
            !.complete = @ /\ Pending(probeCache, paths) = {}]

(* Mutant: one substitutable path is enough. *)
AnySubstitutable(paths) ==
  paths = {} \/ \E p \in paths : probeCache[p] = "yes"

(* ... and what it answers when nothing is pending. *)
AllSubstitutable(paths) == \A p \in paths : probeCache[p] = "yes"

(* Mutant: dependants before their dependencies. *)
PreOrder(builds, d) == <<d>> \o builds

PostOrder(builds, d) == Append(builds, d)

(* A loop over the inputs of d begins. *)
VisitInputs(a, d, last) ==
  [a EXCEPT !.stack =
     Append(@, [drv |-> d, rest |-> DOMAIN inputs[d], last |-> last])]

(* visitDrv, up to its loops over the inputs. *)
VisitDrv(a, d, names) ==
  LET outs    == WantedNames(d, names)
      paths   == BeforeUnknown(d, outs)
      missing == Missing(paths)
      probed  == ProbeValidity([a EXCEPT !.visited = @ \cup {d}], paths)
  IN  IF d \in a.visited THEN a
      ELSE IF ~Known(d, outs)
           THEN [probed EXCEPT !.unknown = Append(@, d)]
      ELSE IF Pending(validCache, paths) # {}
           THEN VisitInputs(probed, d, FALSE)
      ELSE IF missing = {} THEN probed
      ELSE IF Pending(probeCache, missing) # {}
           THEN ProbeSubstitutes(probed, missing)
      ELSE IF AllSubstitutable(missing)
           THEN [probed EXCEPT !.substitutes = @ \cup missing]
      ELSE VisitInputs(probed, d, TRUE)

(* The fast path of tryResolve: it answers for the outputs alone, and      *)
(* postpones the job when it cannot.                                       *)
FastPath(j) ==
  LET names  == DOMAIN outputs[j]
      probed == ProbeValidity(NewAttempt, BeforeUnknown(j, names))
  IN  IF Known(j, names) /\ probed.complete
      THEN ProbeSubstitutes(probed, Missing(Range(outputs[j])))
      ELSE probed

FastResolution(j) ==
  LET missing == Missing(Range(outputs[j]))
  IN  [NoResult EXCEPT !.status = IF missing = {} THEN "Local" ELSE "Cached",
                       !.substitutes = missing]

(***************************************************************************)
(* The loop of run().                                                      *)
(***************************************************************************)

(* takeInbox: what has been pushed by now, in any order. *)
TakeInbox(next) ==
  \E taken \in SUBSET unsent :
    /\ pc = "wait" => taken # {}
    /\ \E order \in SetToSeqs(taken) : jobs' = jobs \o order
    /\ unsent' = unsent \ taken
    /\ pc' = next
    /\ UNCHANGED <<storeVars, tried, wantedValid, wanted, t, result>>

FirstJobs == pc = "wait" /\ TakeInbox("pass")

(* What an attempt has noted down outlives it. *)
Note(a) ==
  /\ wantedValid' = wantedValid \cup a.wantedValid
  /\ wanted' = wanted \cup a.wanted

Trying(j) == pc = "pass" /\ jobs # <<>> /\ j = Head(jobs)

(* tryResolve, when all outputs of the job are known and those that are    *)
(* missing are substitutable ...                                           *)
ResolveFast(j) ==
  /\ Trying(j) /\ Known(j, DOMAIN outputs[j])
  /\ FastPath(j).complete /\ AllSubstitutable(Missing(Range(outputs[j])))
  /\ result' = [result EXCEPT ![j] = FastResolution(j)]
  /\ Note(FastPath(j)) /\ jobs' = Tail(jobs)
  /\ UNCHANGED <<storeVars, unsent, pc, tried, t>>

(* ... when a probe is still pending ...                                   *)
PostponeFast(j) ==
  /\ Trying(j) /\ Known(j, DOMAIN outputs[j]) /\ ~FastPath(j).complete
  /\ Note(FastPath(j)) /\ tried' = Append(tried, j) /\ jobs' = Tail(jobs)
  /\ UNCHANGED <<storeVars, unsent, pc, t, result>>

(* ... and when something needs building: it walks the inputs.             *)
SlowPath(j) ==
  /\ Trying(j)
  /\ Known(j, DOMAIN outputs[j]) =>
       /\ FastPath(j).complete
       /\ ~AllSubstitutable(Missing(Range(outputs[j])))
  /\ t' = VisitDrv(FastPath(j), j, {}) /\ pc' = "walk"
  /\ UNCHANGED <<storeVars, unsent, jobs, tried, wantedValid, wanted, result>>

Top == t.stack[Len(t.stack)]

(* The next round of a loop over inputs ... *)
VisitInput(e) ==
  /\ pc = "walk" /\ t.stack # <<>>
  /\ e \in Top.rest /\ \A f \in Top.rest : e <= f
  /\ t' = VisitDrv([t EXCEPT !.stack[Len(t.stack)].rest = @ \ {e}],
                   e, inputs[Top.drv][e])
  /\ UNCHANGED <<storeVars, unsent, pc, jobs, tried, wantedValid, wanted,
                 result>>

(* ... and what follows it. *)
LeaveDrv ==
  /\ pc = "walk" /\ t.stack # <<>> /\ Top.rest = {}
  /\ t' = [t EXCEPT !.stack = Front(@),
                    !.builds = IF Top.last THEN PostOrder(@, Top.drv) ELSE @]
  /\ UNCHANGED <<storeVars, unsent, pc, jobs, tried, wantedValid, wanted,
                 result>>

(* The rest of tryResolve, and of the lambda in run(). *)
EndAttempt ==
  /\ pc = "walk" /\ t.stack = <<>>
  /\ IF t.complete
     THEN /\ result' = [result EXCEPT ![Head(jobs)] =
               [status |-> "NotBuilt", builds |-> t.builds,
                unknown |-> t.unknown, substitutes |-> t.substitutes]]
          /\ UNCHANGED tried
     ELSE tried' = Append(tried, Head(jobs)) /\ UNCHANGED result
  /\ Note(t) /\ t' = NewAttempt
  /\ jobs' = Tail(jobs) /\ pc' = "pass"
  /\ UNCHANGED <<storeVars, unsent>>

EndPass ==
  /\ pc = "pass" /\ jobs = <<>>
  /\ jobs' = tried /\ tried' = <<>> /\ pc' = "late"
  /\ UNCHANGED <<storeVars, unsent, wantedValid, wanted, t, result>>

LateJobs == pc = "late" /\ TakeInbox("valid")

(* queryValidPaths, of all paths that are wanted. *)
ResolveValid ==
  /\ pc = "valid" /\ pc' = "substitutable"
  /\ \E valid \in SUBSET wantedValid :
       validCache' = [p \in OutputPath |->
         IF p \in wantedValid THEN IF p \in valid THEN "yes" ELSE "no"
                              ELSE validCache[p]]
  /\ wantedValid' = {}
  /\ UNCHANGED <<outputs, inputs, unsent, jobs, tried, probeCache, wanted, t,
                 result>>

(* querySubstitutablePathInfos. *)
ResolveSubstitutable ==
  /\ pc = "substitutable" /\ pc' = IF jobs = <<>> THEN "wait" ELSE "pass"
  /\ \E infos \in SUBSET wanted :
       probeCache' = [p \in OutputPath |->
         IF p \in wanted THEN IF p \in infos THEN "yes" ELSE "no"
                         ELSE probeCache[p]]
  /\ wanted' = {}
  /\ UNCHANGED <<outputs, inputs, unsent, jobs, tried, validCache,
                 wantedValid, t, result>>

Done == pc = "wait" /\ unsent = {}

TryResolve ==
  \/ \E j \in Job : ResolveFast(j) \/ PostponeFast(j) \/ SlowPath(j)
  \/ \E e \in Drv : VisitInput(e)
  \/ LeaveDrv \/ EndAttempt

Step == FirstJobs \/ TryResolve \/ EndPass \/ LateJobs \/ ResolveValid
          \/ ResolveSubstitutable

Next == Step \/ (Done /\ UNCHANGED vars)

Spec == Init /\ [][Next]_vars
(***************************************************************************)
(* Properties.                                                             *)
(***************************************************************************)
Status == {"Unknown", "Local", "Cached", "NotBuilt"}

(* Types; and the stores are asked for what is not known yet only, the     *)
(* substituters for what the local store does not have.                    *)
TypeOK ==
  /\ outputs \in OutputMap /\ inputs \in InputGraph
  /\ unsent \subseteq Job
  /\ pc \in {"wait", "pass", "walk", "late", "valid", "substitutable"}
  /\ jobs \in Seq(Job) /\ tried \in Seq(Job)
  /\ validCache \in [OutputPath -> Answer]
  /\ probeCache \in [OutputPath -> Answer]
  /\ wantedValid \cup t.wantedValid
       \subseteq {p \in OutputPath : validCache[p] = "unknown"}
  /\ wanted \cup t.wanted
       \subseteq {p \in OutputPath : /\ validCache[p] = "no"
                                    /\ probeCache[p] = "unknown"}
  /\ result \in [Job -> [status : Status, builds : Seq(Drv),
                         unknown : Seq(Drv), substitutes : SUBSET OutputPath]]

(* "The drv is obtainable iff every missing output is substitutable"       *)
(* (tryResolve): the status tells which of its outputs are missing, and a  *)
(* job that is not obtainable is itself among what must be built.          *)
StatusSound ==
  \A j \in Job :
    LET paths == Range(outputs[j])
        has(p) == p # NoPath /\ validCache[p] = "yes"
        obtainable(p) == has(p) \/ (p # NoPath /\ probeCache[p] = "yes")
        status == result[j].status
    IN  /\ status = "Local" => \A p \in paths : has(p)
        /\ status = "Cached" => /\ \A p \in paths : obtainable(p)
                                /\ \E p \in paths : ~has(p)
        /\ status = "NotBuilt" =>
             /\ \E p \in paths : ~obtainable(p)
             /\ j \in Range(result[j].builds) \cup Range(result[j].unknown)

(* "Dependencies before their dependants" (visitDrv). *)
BuildsOrdered ==
  \A j \in Job : LET builds == result[j].builds IN
    \A i, k \in DOMAIN builds :
      builds[k] \in DOMAIN inputs[builds[i]] => k < i

(***************************************************************************)
(* The breakdown as a fixed point, over pairs of a derivation and the      *)
(* outputs that somebody wants of it.                                      *)
(***************************************************************************)
MissingPaths(want) ==
  Missing({outputs[want.drv][n] : n \in want.names})

MustBuild(want) ==
  /\ Known(want.drv, want.names)
  /\ \E p \in MissingPaths(want) : probeCache[p] # "yes"

Want(d, names) == [drv |-> d, names |-> WantedNames(d, names)]

Below(want) == {Want(e, inputs[want.drv][e]) : e \in DOMAIN inputs[want.drv]}

Wanted(j) ==
  LET grow[k \in 0 .. Cardinality(Drv)] ==
        IF k = 0 THEN {[drv |-> j, names |-> DOMAIN outputs[j]]}
        ELSE grow[k - 1]
               \cup UNION {Below(w) : w \in {w \in grow[k - 1] : MustBuild(w)}}
  IN  grow[Cardinality(Drv)]

Breakdown(wants) ==
  LET known == {w \in wants : Known(w.drv, w.names)}
  IN  [builds |-> {w.drv : w \in {w \in known : MustBuild(w)}},
       unknown |-> {w.drv : w \in wants \ known},
       substitutes |-> UNION {MissingPaths(w) :
                                w \in {w \in known : ~MustBuild(w)}}]

(* "Like Store::queryMissing walk the input graph for the per-derivation   *)
(* breakdown (which inputs will build, which come from a cache)"           *)
(* (tryResolve): whatever the build needs has been looked up, all of it    *)
(* that is missing is listed, once each, and nothing else is.              *)
BreakdownComplete ==
  \A j \in Job : result[j].status = "NotBuilt" =>
    LET r == result[j]
        wants == Wanted(j)
    IN  /\ \A w \in wants : Known(w.drv, w.names) =>
             Pending(validCache, {outputs[w.drv][n] : n \in w.names}) = {}
        /\ [builds |-> Range(r.builds), unknown |-> Range(r.unknown),
            substitutes |-> r.substitutes] = Breakdown(wants)
        /\ IsInjective(r.builds) /\ IsInjective(r.unknown)

(* "A substitutable derivation's inputs are never probed" (visitDrv): when *)
(* all is known, no substituter was asked for an output of an input of a   *)
(* derivation that is itself substituted, unless some job's build gets to  *)
(* that input on another way.                                              *)
Substituted(d) ==
  LET all == Want(d, {})
  IN  /\ Known(d, all.names) /\ MissingPaths(all) # {} /\ ~MustBuild(all)

NothingProbedBehind ==
  Done => \A d \in Drv : Substituted(d) => \A e \in DOMAIN inputs[d] :
    \/ \A p \in Range(outputs[e]) : probeCache[p] = "unknown"
    \/ \E j \in Job : e \in {w.drv : w \in Wanted(j)}

(* A pass that postpones a job has noted down a path to look up.  Paths    *)
(* are finitely many and none is noted down once it is known (TypeOK), so  *)
(* the inner loop of run() ends.                                           *)
PostponedIsLookedUp ==
  pc = "late" /\ jobs # <<>> => wantedValid \cup wanted # {}
=============================================================================
