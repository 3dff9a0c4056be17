---------------------------- MODULE Constituents -----------------------------
(***************************************************************************)
(* handleConstituents (nix-eval-jobs.cc) and constituents.cc: what main()  *)
(* does with --constituents once every job is known.  An aggregate names   *)
(* other jobs, exactly or with a glob; the names are resolved against the  *)
(* map of jobs, the aggregates are sorted, and each is rewritten so that   *)
(* its derivation depends on its constituents', and printed.               *)
(*                                                                         *)
(* The recursion of topoSort is an explicit stack, one step per call,      *)
(* per return and per exception.  A job's name is a number: the order of   *)
(* std::map and std::set.  A derivation path tells its job and whether it  *)
(* is the evaluated or the rewritten one; each is rewritten at most once.  *)
(***************************************************************************)
EXTENDS Naturals, Sequences, SequencesExt, FiniteSets, FiniteSetsExt

CONSTANTS
  Job,         \* the keys of `jobs`
  Aggregate,   \* those with namedConstituents
  Failed,      \* those with an error
  Pattern,     \* strings that are no job's name
  Matches,     \* Matches[s]: the jobs that fnmatch(s, name) accepts
  Input        \* the aggregates that are enumerated

(* What evaluation gives of an aggregate: the strings it names, whether    *)
(* they are globs, and the jobs its derivation depends on already.         *)
AggregateInput ==
  [named : (SUBSET (Job \cup Pattern)) \ {{}}, glob : BOOLEAN,
   direct : SUBSET (Job \ Failed)]

JobAssumption ==
  /\ Job \subseteq Nat /\ IsFiniteSet(Job)
  /\ Aggregate \subseteq Job /\ Failed \subseteq Job \ Aggregate
  /\ Pattern \cap Job = {}
  /\ Matches \in [Pattern -> SUBSET Job]
  /\ Input \subseteq AggregateInput

ASSUME JobAssumption

VARIABLES
  input,         \* input[n]: the aggregate n, as it was evaluated
  pc,
  dependencies,  \* AggregateJob::dependencies
  brokenJobs,    \* AggregateJob::brokenJobs, its keys
  keys,          \* what topoSort's outermost loop has still to visit
  stack,         \* dfsVisit's frames: [path, references still to visit]
  visited, parents, sorted,
  cycle,         \* the DependencyCycle: <<>> or <<a, b>>
  rest,          \* the aggregates that the loop at hand has still to do
  drvPath,       \* jobs[n]["drvPath"]
  constituents,  \* jobs[n]["constituents"]
  roots,         \* the derivations with a gc root
  output         \* the lines printed

sortVars  == <<keys, stack, visited, parents, sorted>>
jobVars   == <<drvPath, constituents, roots, output>>
vars == <<input, pc, dependencies, brokenJobs, sortVars, cycle, rest, jobVars>>

DrvPath == [job : Job, version : {"evaluated", "rewritten"}]
Evaluated(n) == [job |-> n, version |-> "evaluated"]
Rewritten(n) == [job |-> n, version |-> "rewritten"]

(* The members of S in the order of std::set. *)
Ascending(S) ==
  CHOOSE s \in [1 .. Cardinality(S) -> S] :
    \A i, j \in DOMAIN s : i < j => s[i] < s[j]

(* No derivation depends on itself; aggregates that others depend on       *)
(* directly depend on no aggregate themselves, which bounds the input.     *)
DirectIsAcyclic ==
  \A n \in Aggregate : \A d \in input[n].direct \cap Aggregate :
    input[d].direct \cap Aggregate = {}

Init ==
  /\ input \in [Aggregate -> Input] /\ DirectIsAcyclic
  /\ pc = "resolve"
  /\ dependencies = [n \in Aggregate |-> {}]
  /\ brokenJobs = [n \in Aggregate |-> {}]
  /\ keys = Aggregate /\ stack = <<>> /\ visited = {} /\ parents = {}
  /\ sorted = <<>> /\ cycle = <<>> /\ rest = <<>>
  /\ drvPath = [n \in Job \ Failed |-> Evaluated(n)]
  /\ constituents = [n \in Aggregate |->
                       [i \in DOMAIN Ascending(input[n].direct) |->
                          Evaluated(Ascending(input[n].direct)[i])]]
  /\ roots = {Evaluated(n) : n \in Job \ Failed}
  /\ output = <<>>

(***************************************************************************)
(* resolveNamedConstituents.                                               *)
(***************************************************************************)
IsBroken(n) == n \in Failed

(* The strings that `jobs` has no entry for. *)
Unknown(n) == input[n].named \ Job

(* Mutant: a glob may select the aggregate itself. *)
ExpandItselfToo(n, s) == Matches[s]

(* insertMatchingConstituents, before isBroken. *)
Expand(n, s) == Matches[s] \ {n}

Selected(n) ==
  (input[n].named \cap Job)
    \cup IF input[n].glob THEN UNION {Expand(n, s) : s \in Unknown(n)} ELSE {}

(* Mutant: a broken constituent is depended on like any other. *)
ResultsWithBroken(n) == Selected(n)

Results(n) == {c \in Selected(n) : ~IsBroken(c)}

(* Mutant: an unmatched glob is only warned about. *)
BrokenUnlessGlob(n) ==
  {c \in Selected(n) : IsBroken(c)}
    \cup {s \in Unknown(n) : ~input[n].glob}

(* A string that is no job's name, and a glob that expands to no healthy   *)
(* job, count as broken like the jobs that failed to evaluate.             *)
Broken(n) ==
  {c \in Selected(n) : IsBroken(c)}
    \cup {s \in Unknown(n) :
            input[n].glob => \A c \in Expand(n, s) : IsBroken(c)}

Resolve ==
  /\ pc = "resolve" /\ pc' = "sort"
  /\ dependencies' = [n \in Aggregate |-> Results(n)]
  /\ brokenJobs' = [n \in Aggregate |-> Broken(n)]
  /\ UNCHANGED <<input, sortVars, cycle, rest, jobVars>>

(***************************************************************************)
(* topoSort.                                                               *)
(***************************************************************************)

(* Mutant: jobs that name themselves are cycles. *)
ReferencesItselfToo(n) == dependencies[n] \cap Aggregate

(* The items of the starting set that dfsVisit goes on to. *)
References(n) == (dependencies[n] \cap Aggregate) \ {n}

Top  == stack[Len(stack)]
ToVisit == IF stack = <<>> THEN keys ELSE Top.refs

(* The loop takes the next name, in order, and calls dfsVisit. *)
Visiting(path) == pc = "sort" /\ path \in ToVisit /\ path = Min(ToVisit)

Consume(path) ==
  IF stack = <<>>
  THEN keys' = keys \ {path} /\ UNCHANGED stack
  ELSE /\ stack' = [stack EXCEPT ![Len(stack)].refs = @ \ {path}]
       /\ UNCHANGED keys

VisitSeen(path) ==
  /\ Visiting(path) /\ path \notin parents /\ path \in visited
  /\ Consume(path)
  /\ UNCHANGED <<input, pc, dependencies, brokenJobs, visited, parents,
                 sorted, cycle, rest, jobVars>>

VisitNew(path) ==
  /\ Visiting(path) /\ path \notin parents /\ path \notin visited
  /\ visited' = visited \cup {path}
  /\ parents' = parents \cup {path}
  /\ LET frame == [path |-> path, refs |-> References(path)]
     IN  IF stack = <<>>
         THEN keys' = keys \ {path} /\ stack' = <<frame>>
         ELSE /\ stack' = Append([stack EXCEPT ![Len(stack)].refs
                                                  = @ \ {path}], frame)
              /\ UNCHANGED keys
  /\ UNCHANGED <<input, pc, dependencies, brokenJobs, sorted, cycle,
                 rest, jobVars>>

(* Mutant: the two jobs of the cycle are among the skipped ones, too. *)
RemainingAll(a, b) == Aggregate

Remaining(a, b) == Aggregate \ {a, b}

VisitCycle(path) ==
  /\ Visiting(path) /\ path \in parents
  /\ cycle' = <<path, Top.path>>
  /\ rest' = Ascending(Remaining(path, Top.path))
  /\ pc' = "cycle"
  /\ UNCHANGED <<input, dependencies, brokenJobs, sortVars, jobVars>>

(* Mutant: an item comes before what it depends on. *)
SortedBefore(path) == <<path>> \o sorted

SortedAfter(path) == Append(sorted, path)

(* Mutant: a path stays among the parents when dfsVisit returns. *)
ParentsKept(path) == parents

ParentsLeft(path) == parents \ {path}

Return ==
  /\ pc = "sort" /\ stack # <<>> /\ Top.refs = {}
  /\ sorted' = SortedAfter(Top.path)
  /\ parents' = ParentsLeft(Top.path)
  /\ stack' = Front(stack)
  /\ UNCHANGED <<input, pc, dependencies, brokenJobs, keys, visited, cycle,
                 rest, jobVars>>

Sorted ==
  /\ pc = "sort" /\ stack = <<>> /\ keys = {}
  /\ pc' = "rewrite" /\ rest' = sorted
  /\ UNCHANGED <<input, dependencies, brokenJobs, sortVars, cycle, jobVars>>

(***************************************************************************)
(* rewriteAggregates.                                                      *)
(***************************************************************************)

(* A line: the aggregate as it is dumped.  `error` is "none", "broken",    *)
(* "cycle" or "skipped".                                                   *)
Line(n, drv, list, error) ==
  [attr |-> n, drvPath |-> drv, constituents |-> list, error |-> error]

(* Mutant: the derivation that was evaluated, not the one in `jobs`. *)
AddedEvaluated(n) ==
  LET names == Ascending(dependencies[n])
  IN  [i \in DOMAIN names |-> Evaluated(names[i])]

(* addConstituents: the derivations of the dependencies, as `jobs` has     *)
(* them at this moment.                                                    *)
Added(n) ==
  LET names == Ascending(dependencies[n])
  IN  [i \in DOMAIN names |-> drvPath[names[i]]]

(* Writing the derivation gives the path it had, when it depended on all   *)
(* of them already.                                                        *)
NewDrvPath(n) ==
  IF Range(Added(n)) \subseteq {Evaluated(c) : c \in input[n].direct}
  THEN drvPath[n] ELSE Rewritten(n)

(* Mutant: the new derivation is not protected from garbage collection. *)
RootsKept(path) == roots

RootsWith(path) == roots \cup {path}

(* addConstituents and rewriteAndRegisterDrv, with --gc-roots-dir. *)
Rewrite(n) ==
  /\ pc = "rewrite" /\ rest # <<>> /\ n = Head(rest) /\ brokenJobs[n] = {}
  /\ LET new == NewDrvPath(n)
         list == constituents[n] \o Added(n)
     IN  /\ drvPath' = [drvPath EXCEPT ![n] = new]
         /\ constituents' = [constituents EXCEPT ![n] = list]
         /\ roots' = RootsWith(new)
         /\ output' = Append(output, Line(n, new, list, "none"))
  /\ rest' = Tail(rest)
  /\ UNCHANGED <<input, pc, dependencies, brokenJobs, sortVars, cycle>>

(* addBrokenJobsError: the derivation stays as it was evaluated. *)
ReportBroken(n) ==
  /\ pc = "rewrite" /\ rest # <<>> /\ n = Head(rest) /\ brokenJobs[n] # {}
  /\ output' = Append(output, Line(n, drvPath[n], constituents[n], "broken"))
  /\ rest' = Tail(rest)
  /\ UNCHANGED <<input, pc, dependencies, brokenJobs, sortVars, cycle,
                 drvPath, constituents, roots>>

(* parseStorePath, readDerivation or writeDerivation throws. *)
StoreThrows ==
  /\ pc = "rewrite" /\ rest # <<>>
  /\ pc' = "failed"
  /\ UNCHANGED <<input, dependencies, brokenJobs, sortVars, cycle, rest,
                 jobVars>>

(***************************************************************************)
(* The other branch of handleConstituents: nothing is rewritten.           *)
(***************************************************************************)
PrintCycle ==
  /\ pc = "cycle" /\ output = <<>>
  /\ output' = [i \in 1 .. 2 |-> Line(cycle[i], drvPath[cycle[i]],
                                      constituents[cycle[i]], "cycle")]
  /\ UNCHANGED <<input, pc, dependencies, brokenJobs, sortVars, cycle, rest,
                 drvPath, constituents, roots>>

PrintSkipped(n) ==
  /\ pc = "cycle" /\ output # <<>> /\ rest # <<>> /\ n = Head(rest)
  /\ output' = Append(output, Line(n, drvPath[n], constituents[n], "skipped"))
  /\ rest' = Tail(rest)
  /\ UNCHANGED <<input, pc, dependencies, brokenJobs, sortVars, cycle,
                 drvPath, constituents, roots>>

Finish ==
  /\ pc \in {"rewrite", "cycle"} /\ rest = <<>>
  /\ pc = "cycle" => output # <<>>
  /\ pc' = "done"
  /\ UNCHANGED <<input, dependencies, brokenJobs, sortVars, cycle, rest,
                 jobVars>>

Terminated == pc \in {"done", "failed"} /\ UNCHANGED vars

Step ==
  \/ Resolve
  \/ \E n \in Aggregate : VisitSeen(n) \/ VisitNew(n) \/ VisitCycle(n)
  \/ Return \/ Sorted
  \/ \E n \in Aggregate : Rewrite(n) \/ ReportBroken(n) \/ PrintSkipped(n)
  \/ StoreThrows \/ PrintCycle \/ Finish

Next == Step \/ Terminated

Spec == Init /\ [][Next]_vars

(***************************************************************************)
(* Properties.                                                             *)
(***************************************************************************)
Frame == [path : Aggregate, refs : SUBSET Aggregate]

ErrorText == {"none", "broken", "cycle", "skipped"}

TypeOK ==
  /\ input \in [Aggregate -> Input]
  /\ pc \in {"resolve", "sort", "rewrite", "cycle", "done", "failed"}
  /\ dependencies \in [Aggregate -> SUBSET (Job \ Failed)]
  /\ brokenJobs \in [Aggregate -> SUBSET (Job \cup Pattern)]
  /\ keys \subseteq Aggregate /\ stack \in Seq(Frame)
  /\ visited \subseteq Aggregate /\ parents \subseteq visited
  /\ sorted \in Seq(Aggregate) /\ rest \in Seq(Aggregate)
  /\ cycle = <<>> \/ cycle \in Aggregate \X Aggregate
  /\ drvPath \in [Job \ Failed -> DrvPath]
  /\ constituents \in [Aggregate -> Seq(DrvPath)]
  /\ roots \subseteq DrvPath
  /\ output \in Seq([attr : Aggregate, drvPath : DrvPath,
                     constituents : Seq(DrvPath), error : ErrorText])

(* topoSort: when an aggregate is rewritten every other aggregate that it  *)
(* depends on has been, and it is rewritten once.                          *)
SortedTopologically ==
  pc = "rewrite" =>
    /\ Range(sorted) = Aggregate /\ Len(sorted) = Cardinality(Aggregate)
    /\ \A i \in DOMAIN sorted : \A d \in References(sorted[i]) :
         \E j \in 1 .. i - 1 : sorted[j] = d

(* The aggregates that n depends on over one or more steps, itself aside:  *)
(* grow[k] holds those within k steps.                                     *)
Reach(n) ==
  LET grow[k \in 0 .. Cardinality(Aggregate)] ==
        IF k = 0 THEN References(n)
        ELSE grow[k - 1] \cup UNION {References(m) : m \in grow[k - 1]}
  IN  grow[Cardinality(Aggregate)]

(* A cycle is reported exactly when there is one, and the two jobs that    *)
(* are blamed are on it: b names a, and a depends on b.                    *)
CycleIsReal ==
  /\ pc = "rewrite" => \A n \in Aggregate : n \notin Reach(n)
  /\ pc = "cycle" => /\ cycle[1] # cycle[2]
                     /\ cycle[1] \in References(cycle[2])
                     /\ cycle[2] \in Reach(cycle[1])

(* Whatever the outcome, each aggregate has exactly one line in the end,   *)
(* and while the lines are written none has two.                           *)
PrintedOnce ==
  /\ \A i, j \in DOMAIN output : i # j => output[i].attr # output[j].attr
  /\ pc = "done" => {output[i].attr : i \in DOMAIN output} = Aggregate

(* An aggregate without error lists, and depends on, the derivations that  *)
(* its constituents are reported with, however deep aggregates are nested, *)
(* everything that is reported is protected by a gc root, and an aggregate *)
(* depends on its own former derivation only when it names itself.         *)
ConstituentsAreFinal ==
  \A i \in DOMAIN output :
    /\ {output[i].drvPath} \cup Range(output[i].constituents) \subseteq roots
    /\ Evaluated(output[i].attr) \in Range(output[i].constituents) =>
         output[i].attr \in input[output[i].attr].named
    /\ pc = "done" /\ output[i].error = "none" =>
         \A d \in dependencies[output[i].attr] \ {output[i].attr} :
           /\ drvPath[d] \in Range(output[i].constituents)
           /\ \A j \in DOMAIN output :
                output[j].attr = d => output[j].drvPath = drvPath[d]

(* A named constituent that does not exist or failed to evaluate is not    *)
(* passed over: the aggregate carries an error and keeps the derivation    *)
(* that was evaluated.                                                     *)
BrokenIsReported ==
  \A i \in DOMAIN output :
    LET n == output[i].attr
        missing == \E s \in input[n].named :
          \/ s \in Failed
          \/ /\ s \in Pattern
             /\ input[n].glob => Matches[s] \ {n} \subseteq Failed
    IN  /\ missing => output[i].error # "none"
        /\ output[i].error # "none" => output[i].drvPath = Evaluated(n)
=============================================================================
