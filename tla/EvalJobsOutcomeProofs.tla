----------------------- MODULE EvalJobsOutcomeProofs -----------------------
(***************************************************************************)
(* What becomes of the attribute paths: proofs that each path of the       *)
(* traversal is in exactly one place, that it is reported once, that the   *)
(* collector, step by step, walks the tree as module Traversal does, and   *)
(* that a job is given up only when it could not have run.                 *)
(***************************************************************************)
EXTENDS EvalJobsProofs

-----------------------------------------------------------------------------
(* Sequences of paths without repetition, as sets.                         *)

LEMMA PathsEmpty ==
  <<>> \in Seq(Path) /\ Range(<<>>) = {} /\ IsInjective(<<>>)
  BY DEF Range, IsInjective

LEMMA PathsAppend ==
  ASSUME NEW s \in Seq(Path), NEW p \in Path
  PROVE  /\ Append(s, p) \in Seq(Path)
         /\ Range(Append(s, p)) = Range(s) \cup {p}
         /\ IsInjective(s) /\ p \notin Range(s) => IsInjective(Append(s, p))
  BY ListAppend

LEMMA PathsTail ==
  ASSUME NEW s \in Seq(Path), s # <<>>
  PROVE  /\ Tail(s) \in Seq(Path)
         /\ Head(s) \in Range(s) /\ Range(s) = {Head(s)} \cup Range(Tail(s))
         /\ IsInjective(s) =>
              IsInjective(Tail(s)) /\ Head(s) \notin Range(Tail(s))
<1> DEFINE t == Tail(s)
<1>1. /\ t \in Seq(Path) /\ Len(t) = Len(s) - 1 /\ Len(s) \in Nat
      /\ Len(s) >= 1 /\ Head(s) = s[1]
      /\ \A i \in 1 .. Len(t) : t[i] = s[i + 1]
      /\ DOMAIN s = 1 .. Len(s) /\ DOMAIN t = 1 .. Len(t)
  BY HeadTailProperties, EmptySeq
<1> HIDE DEF t
<1>2. Head(s) \in Range(s)
  BY <1>1 DEF Range
<1>3. Range(s) = {Head(s)} \cup Range(t)
  <2>1. \A i \in DOMAIN s : i # 1 => i - 1 \in DOMAIN t /\ t[i - 1] = s[i]
    BY <1>1
  <2>2. \A i \in DOMAIN t : i + 1 \in DOMAIN s /\ t[i] = s[i + 1]
    BY <1>1
  <2>3. \A x \in Range(s) : x = Head(s) \/ x \in Range(t)
    BY <1>1, <2>1 DEF Range
  <2>4. \A x \in Range(t) : x \in Range(s)
    BY <2>2 DEF Range
  <2> QED BY <1>2, <2>3, <2>4
<1>4. IsInjective(s) => IsInjective(t) /\ Head(s) \notin Range(t)
  <2>1. \A i \in DOMAIN t : /\ i + 1 \in DOMAIN s /\ i + 1 # 1
                          /\ t[i] = s[i + 1]
    BY <1>1
  <2>2. 1 \in DOMAIN s /\ DOMAIN t \subseteq Nat
    BY <1>1
  <2>3. IsInjective(s) => IsInjective(t)
    BY <2>1, <2>2 DEF IsInjective
  <2>4. IsInjective(s) => \A i \in DOMAIN t : t[i] # Head(s)
    BY <1>1, <2>1, <2>2 DEF IsInjective
  <2> QED BY <2>3, <2>4 DEF Range
<1> QED BY <1>1, <1>2, <1>3, <1>4 DEF t

LEMMA PathsFront ==
  ASSUME NEW s \in Seq(Path), s # <<>>
  PROVE  /\ Front(s) \in Seq(Path) /\ Last(s) \in Path
         /\ Last(s) \in Range(s) /\ Range(s) = {Last(s)} \cup Range(Front(s))
         /\ IsInjective(s) =>
              IsInjective(Front(s)) /\ Last(s) \notin Range(Front(s))
<1> DEFINE t == Front(s)
<1>1. /\ t \in Seq(Path) /\ Len(t) = Len(s) - 1 /\ Len(s) \in Nat
      /\ Len(s) >= 1 /\ Last(s) = s[Len(s)]
      /\ \A i \in 1 .. Len(t) : t[i] = s[i]
      /\ DOMAIN s = 1 .. Len(s) /\ DOMAIN t = 1 .. Len(t)
  <2>1. Len(s) \in Nat /\ Len(s) >= 1
    BY EmptySeq
  <2> DEFINE n == Len(s) - 1
  <2>2. n \in Int /\ n >= 0 /\ \A i \in 1 .. n : s[i] \in Path
    BY <2>1
  <2>3. /\ SubSeq(s, 1, n) \in Seq(Path)
        /\ Len(SubSeq(s, 1, n)) = IF 1 <= n THEN n - 1 + 1 ELSE 0
        /\ \A i \in 1 .. n - 1 + 1 : SubSeq(s, 1, n)[i] = s[1 + i - 1]
    <3> HIDE DEF n
    <3> QED BY <2>2, SubSeqProperties
  <2>4. /\ t \in Seq(Path) /\ Len(t) = Len(s) - 1
        /\ \A i \in 1 .. Len(s) - 1 : t[i] = s[i]
    <3>1. t = SubSeq(s, 1, n)
      BY DEF Front
    <3>2. Len(t) = n
      <4> HIDE DEF t, n
      <4>1. (IF 1 <= n THEN n - 1 + 1 ELSE 0) = n
        BY <2>2
      <4> QED BY <2>3, <3>1, <4>1
    <3>3. n - 1 + 1 = n /\ \A i \in 1 .. n : 1 + i - 1 = i
      BY <2>2
    <3>4. \A i \in 1 .. n : t[i] = s[i]
      BY <2>3, <3>1, <3>3
    <3> QED BY <2>3, <3>1, <3>2, <3>4
  <2>5. DOMAIN s = 1 .. Len(s) /\ DOMAIN t = 1 .. Len(t)
    BY <2>3
  <2> QED BY <2>1, <2>4, <2>5 DEF Last
<1> HIDE DEF t
<1>2. Last(s) \in Range(s) /\ Last(s) \in Path
  BY <1>1 DEF Range
<1>3. Range(s) = {Last(s)} \cup Range(t)
  <2>1. \A i \in DOMAIN s : i # Len(s) => i \in DOMAIN t /\ t[i] = s[i]
    BY <1>1
  <2>2. \A i \in DOMAIN t : i \in DOMAIN s /\ t[i] = s[i]
    BY <1>1
  <2> QED BY <1>1, <2>1, <2>2 DEF Range
<1>4. IsInjective(s) => IsInjective(t) /\ Last(s) \notin Range(t)
  <2>1. /\ Len(s) \in DOMAIN s
        /\ \A i \in DOMAIN t : i \in DOMAIN s /\ i # Len(s) /\ t[i] = s[i]
    BY <1>1
  <2>2. IsInjective(s) => IsInjective(t)
    BY <2>1 DEF IsInjective
  <2>3. IsInjective(s) => \A i \in DOMAIN t : t[i] # Last(s)
    BY <1>1, <2>1 DEF IsInjective
  <2> QED BY <2>2, <2>3 DEF Range
<1> QED BY <1>1, <1>2, <1>3, <1>4 DEF t

LEMMA PathsConcat ==
  ASSUME NEW s \in Seq(Path), NEW t \in Seq(Path)
  PROVE  /\ s \o t \in Seq(Path)
         /\ Range(s \o t) = Range(s) \cup Range(t)
         /\ IsInjective(s) /\ IsInjective(t) /\ Range(s) \cap Range(t) = {}
              => IsInjective(s \o t)
<1> DEFINE u == s \o t
<1>1. /\ u \in Seq(Path) /\ Len(u) = Len(s) + Len(t)
      /\ Len(s) \in Nat /\ Len(t) \in Nat
      /\ \A i \in 1 .. Len(u) :
           u[i] = IF i <= Len(s) THEN s[i] ELSE t[i - Len(s)]
      /\ DOMAIN s = 1 .. Len(s) /\ DOMAIN t = 1 .. Len(t)
      /\ DOMAIN u = 1 .. Len(u)
  BY ConcatProperties
<1> HIDE DEF u
<1>2. /\ \A i \in DOMAIN s : i \in DOMAIN u /\ u[i] = s[i]
      /\ \A i \in DOMAIN t : i + Len(s) \in DOMAIN u
      /\ \A i \in DOMAIN u : IF i <= Len(s)
                             THEN i \in DOMAIN s /\ u[i] = s[i]
                             ELSE /\ i - Len(s) \in DOMAIN t
                                  /\ u[i] = t[i - Len(s)]
  BY <1>1
<1>3. \A i \in DOMAIN t : u[i + Len(s)] = t[i]
  <2> SUFFICES ASSUME NEW i \in DOMAIN t PROVE u[i + Len(s)] = t[i]
    OBVIOUS
  <2>1. /\ i + Len(s) \in DOMAIN u /\ ~(i + Len(s) <= Len(s))
        /\ i + Len(s) - Len(s) = i
    BY <1>1, <1>2
  <2> QED BY <1>2, <2>1
<1>4. Range(u) = Range(s) \cup Range(t)
  <2>1. \A x \in Range(s) \cup Range(t) : x \in Range(u)
    BY <1>2, <1>3 DEF Range
  <2>2. \A x \in Range(u) : x \in Range(s) \cup Range(t)
    BY <1>2 DEF Range
  <2> QED BY <2>1, <2>2
<1>5. ASSUME IsInjective(s), IsInjective(t), Range(s) \cap Range(t) = {}
      PROVE  IsInjective(u)
  <2> SUFFICES ASSUME NEW a \in DOMAIN u, NEW b \in DOMAIN u, u[a] = u[b]
               PROVE  a = b
    BY DEF IsInjective
  <2>0. a \in Nat /\ b \in Nat
    BY <1>1
  <2>1. CASE a <= Len(s) /\ b <= Len(s)
    BY <1>2, <1>5, <2>1 DEF IsInjective
  <2>2. CASE ~(a <= Len(s)) /\ ~(b <= Len(s))
    <3>1. a - Len(s) = b - Len(s)
      BY <1>2, <1>5, <2>2 DEF IsInjective
    <3> QED BY <1>1, <2>0, <3>1
  <2>3. CASE a <= Len(s) /\ ~(b <= Len(s))
    <3>1. u[a] \in Range(s) /\ u[b] \in Range(t)
      BY <1>2, <2>3 DEF Range
    <3> QED BY <1>5, <3>1
  <2>4. CASE ~(a <= Len(s)) /\ b <= Len(s)
    <3>1. u[b] \in Range(s) /\ u[a] \in Range(t)
      BY <1>2, <2>4 DEF Range
    <3> QED BY <1>5, <3>1
  <2> QED BY <2>1, <2>2, <2>3, <2>4
<1> QED BY <1>1, <1>4, <1>5 DEF u

(* Jobs are paths. *)
LEMMA JobPaths == \A s \in Seq(JobPath) : s \in Seq(Path)
  BY DEF JobPath

(* No two sets of the tree share a member, and the root is nobody's.       *)
LEMMA ChildrenDiffer ==
  ASSUME NEW p \in Path, NEW q \in Path, NEW c \in ChildPaths(p)
  PROVE  c # Root /\ (c \in ChildPaths(q) => p = q)
<1>1. p \in Seq(Name) /\ q \in Seq(Name)
  BY TreeAssumption DEF TreeAssumption
<1>2. PICK a \in Attrs[p] : c = Append(p, a)
  BY DEF ChildPaths
<1>3. a \in Name
  BY TreeAssumption DEF TreeAssumption
<1>4. c # Root
  BY <1>1, <1>2, <1>3, AppendProperties DEF Root
<1>5. ASSUME c \in ChildPaths(q) PROVE p = q
  <2>1. PICK b \in Attrs[q] : c = Append(q, b)
    BY <1>5 DEF ChildPaths
  <2>2. b \in Name
    BY TreeAssumption DEF TreeAssumption
  <2>3. /\ Len(c) = Len(p) + 1 /\ Len(c) = Len(q) + 1
        /\ \A i \in 1 .. Len(p) : c[i] = p[i]
        /\ \A i \in 1 .. Len(q) : c[i] = q[i]
    <3>1. /\ Len(Append(p, a)) = Len(p) + 1
          /\ \A i \in 1 .. Len(p) : Append(p, a)[i] = p[i]
      BY <1>1, <1>3, AppendProperties
    <3>2. /\ Len(Append(q, b)) = Len(q) + 1
          /\ \A i \in 1 .. Len(q) : Append(q, b)[i] = q[i]
      BY <1>1, <2>2, AppendProperties
    <3> QED BY <1>2, <2>1, <3>1, <3>2
  <2>4. Len(p) \in Nat /\ Len(q) \in Nat
    BY <1>1
  <2>5. Len(p) = Len(q)
    BY <2>3, <2>4
  <2> QED BY <1>1, <2>3, <2>5, SeqEqual
<1> QED BY <1>4, <1>5

-----------------------------------------------------------------------------
(* The course of main that ends in exit status 0, and the thread.          *)

After  == {"finish", "finishNotify", "join", "constituents", "exit0"}
Course == pc \in LoopPc \cup After

(* run() returned: no slot is in use any more.                             *)
EndInv == pc \in After => Finished /\ Alive = {}

(* Where the thread is tells which of its lists are empty; it only ends on *)
(* its own once the inbox is closed and everything is resolved.            *)
ThreadInv ==
  /\ rpc \in {"wait", "blocked", "take"} => batch = <<>> /\ kept = <<>>
  /\ rpc \in {"round", "query"} => kept = <<>>
  /\ rpc = "late" => batch = <<>>
  /\ rpc = "exited" /\ CheckCacheStatus /\ ~aborted /\ pc # "gone" =>
       closed /\ inbox = <<>> /\ batch = <<>> /\ kept = <<>>
  /\ InLoop => ~closed
  /\ Course => (aborted => exc)
  /\ exc => aborted
  /\ ~CheckCacheStatus => rpc = "exited" /\ ~exc
  /\ pc \in {"constituents", "exit0"} => rpc = "exited" /\ ~exc

(* The steps of run() do not touch the thread, but for push.               *)
LEMMA SchedulerLeavesThread ==
  ASSUME SchedulerStep
  PROVE  /\ UNCHANGED <<batch, kept, closed, aborted, exc>>
         /\ \/ UNCHANGED resolverVars
            \/ /\ pc = "lines" /\ pc' = "lines" /\ CheckCacheStatus
               /\ ~closed /\ ~exc /\ rpc' = Notify(rpc)
         /\ pc \in LoopPc \cup {"throw"}
         /\ pc' \in LoopPc \cup {"finish", "throw", "unwind"}
         /\ pc' = "finish" => pc = "top"
         /\ pc = "throw" => pc' = "unwind"
<1> USE DEF resolverVars, LoopPc
<1>1. CASE LoopExit \/ Interrupt \/ BeginSolo \/ BeginDispatch
  BY <1>1 DEF LoopExit, Interrupt, JustThrow, Throw, BeginSolo, BeginDispatch,
     LoopGoesOn
<1>2. CASE Dispatch
  BY <1>2 DEF Dispatch, DispatchExit, DispatchSolo, DispatchTodo, HandOut,
     DispatchSpawn, SpawnThrows, JustThrow, Throw, DispatchNothing,
     SendFailed, OnEof, NextSlot
<1>3. CASE PollWorkers
  BY <1>3 DEF PollWorkers, Poll, SampleMemory, KillVictim, EndPoll, Fill
<1>4. CASE OnLine
  BY <1>4 DEF OnLine, LineNext, LineRestart, LineUnexpected, JustThrow, Throw,
     LineIgnored, ResponseAttrs, ResponseJobPushed, Push, ResponseEmitted,
     ResponseThrows, LineIs
<1>5. CASE EndLines \/ EofAfterLines \/ DestroyScheduler
  BY <1>5 DEF EndLines, EofAfterLines, OnEof, Throw, DestroyScheduler
<1> QED BY <1>1, <1>2, <1>3, <1>4, <1>5 DEF SchedulerStep

LEMMA OthersLeaveAlone ==
  /\ \A w \in Worker : ProgramOf(w) \/ KernelOf(w) =>
       UNCHANGED <<schedulerVars, resolverVars, outputVars>>
  /\ Thread \/ ThreadFails => UNCHANGED <<workerVars, schedulerVars>>
  /\ StdoutCloses => UNCHANGED <<jobs, printed, workerVars, schedulerVars,
                                resolverVars>>
  BY DEF ProgramOf, KernelOf, Thread, ThreadFails, StdoutCloses

LEMMA NextThread ==
  ASSUME ThreadInv, EndInv, [Next]_vars
  PROVE  ThreadInv'
<1> USE DEF ThreadInv, InLoop, Course, After, LoopPc, Notify
<1>1. CASE SchedulerStep
  BY <1>1, SchedulerLeavesThread DEF resolverVars
<1>2. CASE MainStep
  BY <1>2 DEF MainStep, FinishClose, FinishNotify, FinishJoin, AfterJoin,
     Constituents, ConstituentsThrow, UnwindClose, UnwindDiscard,
     UnwindJoin, MainGoes, SetClosed, NotifyClosed, Discard, resolverVars
<1>3. CASE Thread \/ ThreadFails
  <2>1. UNCHANGED pc
    BY <1>3, OthersLeaveAlone DEF schedulerVars
  <2>2. CASE WaitInbox \/ BeginRound \/ EndPass \/ ResolveWanted
    BY <2>1, <2>2 DEF WaitInbox, BeginRound, EndPass, ResolveWanted
  <2>3. CASE FirstTake \/ TakeLate
    BY <2>1, <2>3 DEF FirstTake, TakeLate, TakeInbox
  <2>4. CASE ResolveJob \/ PostponeJob
    BY <2>1, <2>4 DEF ResolveJob, PostponeJob, ThreadThrows
  <2>5. CASE StoreThrows \/ ThreadInterrupted
    BY <2>1, <2>5 DEF StoreThrows, ThreadInterrupted, ThreadThrows
  <2> QED BY <1>3, <2>2, <2>3, <2>4, <2>5
          DEF Thread, ThreadFails, ResolverProgram
<1>4. CASE CollectorDies
  BY <1>4 DEF CollectorDies
<1>5. CASE \/ \E w \in Worker : ProgramOf(w) \/ KernelOf(w)
           \/ StdoutCloses \/ UNCHANGED vars
  <2>1. UNCHANGED <<pc, resolverVars>>
    BY <1>5, OthersLeaveAlone DEF schedulerVars, vars
  <2> QED BY <2>1 DEF resolverVars
<1> QED BY <1>1, <1>2, <1>3, <1>4, <1>5 DEF Next, Collector, Terminated

LEMMA NextEnd ==
  ASSUME TypeInv, EndInv, [Next]_vars
  PROVE  EndInv'
<1>1. CASE SchedulerStep
  <2>1. pc' \in After => LoopExit
    BY <1>1 DEF After, SchedulerStep, LoopExit, Interrupt, BeginSolo,
       BeginDispatch, LoopGoesOn, Dispatch, DispatchExit, DispatchSolo,
       DispatchTodo, HandOut, DispatchSpawn, SpawnThrows, JustThrow, Throw,
       DispatchNothing, SendFailed, NextSlot, PollWorkers, Poll,
       SampleMemory, KillVictim, EndPoll, Fill, OnLine, LineNext, LineRestart,
       LineUnexpected, LineIgnored, ResponseAttrs, ResponseJobPushed,
       ResponseEmitted, ResponseThrows, LineIs, EndLines, EofAfterLines,
       OnEof, DestroyScheduler
  <2>2. LoopExit => Finished' /\ Alive' = {}
    BY DEF LoopExit, Finished, AnyWorkerAlive, Alive, Running, InPhase,
       slotVars, queueVars, workerVars, procVars
  <2> QED BY <2>1, <2>2 DEF EndInv
<1>2. CASE MainStep
  <2>1. /\ UNCHANGED <<slotVars, queueVars, workerVars>>
        /\ pc' \in After => pc \in After
    BY <1>2 DEF MainStep, FinishClose, FinishNotify, FinishJoin, AfterJoin,
       Constituents, ConstituentsThrow, UnwindClose, UnwindDiscard,
       UnwindJoin, MainGoes, After
  <2> QED BY <2>1 DEF EndInv, Finished, Alive, Running, InPhase, slotVars,
                      queueVars, workerVars, procVars
<1>3. CASE \E w \in Worker : ProgramOf(w) \/ KernelOf(w)
  <2>1. PICK w \in Worker : ProgramOf(w) \/ KernelOf(w)
    BY <1>3
  <2>2. \A v \in Worker : proc'[v] = "none" <=> proc[v] = "none"
    BY <2>1, WorkerKeepsAlive DEF ProgramOf, KernelOf, TypeInv, ProcInv
  <2>3. UNCHANGED <<pc, phase, todo, solo>>
    BY <2>1, OthersLeaveAlone DEF schedulerVars, slotVars, queueVars
  <2> QED BY <2>2, <2>3 DEF EndInv, Finished, Alive, Running, InPhase
<1>4. CASE Thread \/ ThreadFails \/ StdoutCloses \/ UNCHANGED vars
  <2>1. UNCHANGED <<pc, phase, todo, solo, proc>>
    BY <1>4, OthersLeaveAlone DEF vars, schedulerVars, slotVars, queueVars,
       workerVars, procVars
  <2> QED BY <2>1 DEF EndInv, Finished, Alive, Running, InPhase
<1>5. CASE CollectorDies
  BY <1>5 DEF CollectorDies, EndInv, After
<1> QED BY <1>1, <1>2, <1>3, <1>4, <1>5 DEF Next, Collector, Terminated

-----------------------------------------------------------------------------
(* The inductive invariant: places, reports and the lists of the thread.   *)

Held == {attrPath[w] : w \in Running}
Pool == todo \cup Range(solo) \cup Held

(* Each path that is not answered is in one place.                         *)
Apart ==
  /\ IsInjective(solo)
  /\ \A v, w \in Running : attrPath[v] = attrPath[w] => v = w
  /\ todo \cap Range(solo) = {} /\ todo \cap Held = {}
  /\ Range(solo) \cap Held = {}

(* What was met is in the pool or answered, not both.                      *)
Sorted ==
  /\ Pool \cap answered = {}
  /\ \A p \in Path : Discovered(p) <=> p \in Pool \cup answered

(* How many lines a path has had.                                          *)
Due(p) ==
  IF jobs[p] = "absent" \/ (jobs[p] = "aggregate" /\ pc # "exit0")
  THEN 0 ELSE 1

Reports(p) ==
  /\ jobs[p] # "fatal"
  /\ jobs[p] # "absent" => p \in answered
  /\ p \in answered /\ jobs[p] = "absent" =>
       IsListing(p) \/ (CheckCacheStatus /\ IsJob(p))
  /\ printed[p] <= Due(p)
  /\ ~exc => printed[p] = Due(p)

AllReports == \A p \in Path : Reports(p)

(* The thread has each job once; it is answered and not yet reported.      *)
QueuesApart ==
  /\ IsInjective(inbox) /\ IsInjective(batch) /\ IsInjective(kept)
  /\ Range(inbox) \cap Range(batch) = {} /\ Range(inbox) \cap Range(kept) = {}
  /\ Range(batch) \cap Range(kept) = {}

Awaited == \A p \in InResolver : p \in answered /\ jobs[p] = "absent"

PlaceInv == Course => Apart /\ Sorted /\ AllReports /\ Awaited

OutcomeInv ==
  /\ ThreadInv /\ EndInv
  /\ QueuesApart /\ PushedNotLost
  /\ PlaceInv

-----------------------------------------------------------------------------
(* What a step may do to the places.                                       *)

(* Paths are moved within the pool. *)
Stays == Pool' = Pool /\ answered' = answered

(* A path leaves it, answered. *)
Settles(p) ==
  p \in Pool /\ Pool' = Pool \ {p} /\ answered' = answered \cup {p}

(* A path leaves it, answered by its members. *)
Lists(p) ==
  /\ p \in Pool /\ Pool' = (Pool \ {p}) \cup ChildPaths(p)
  /\ answered' = answered \cup {p}

LEMMA PoolTypes ==
  ASSUME TypeInv
  PROVE  /\ todo \subseteq Path /\ Range(solo) \subseteq Path
         /\ Held \subseteq Path /\ Pool \subseteq Path
         /\ answered \subseteq Path /\ solo \in Seq(Path)
         /\ inbox \in Seq(Path) /\ batch \in Seq(Path) /\ kept \in Seq(Path)
<1>1. /\ todo \subseteq Path /\ solo \in Seq(Path) /\ answered \subseteq Path
      /\ Held \subseteq Path
  BY DEF TypeInv, TodoOK, QueueTypeOK, SlotOK, HeldOK, Held
<1>2. Range(solo) \subseteq Path
  BY <1>1 DEF Range
<1>3. inbox \in Seq(Path) /\ batch \in Seq(Path) /\ kept \in Seq(Path)
  BY JobPaths DEF TypeInv, ResolverTypeOK
<1> QED BY <1>1, <1>2, <1>3 DEF Pool

LEMMA SortedStays ==
  ASSUME Sorted, Stays, answered \subseteq Path,
         \A q \in Path : IsListing(q) => jobs'[q] = jobs[q]
  PROVE  Sorted'
<1>1. \A c \in Path : Discovered(c)' <=> Discovered(c)
  BY DEF Discovered, Stays
<1> QED BY <1>1 DEF Sorted, Stays

LEMMA SortedSettles ==
  ASSUME Sorted, NEW p \in Path, Settles(p), answered \subseteq Path,
         \A q \in Path : q # p /\ IsListing(q) => jobs'[q] = jobs[q],
         IsListing(p) => jobs'[p] # "absent"
  PROVE  Sorted'
<1>1. p \notin answered
  BY DEF Sorted, Settles
<1>2. \A c \in Path : Discovered(c)' <=> Discovered(c)
  BY <1>1 DEF Discovered, Settles
<1> QED BY <1>1, <1>2 DEF Sorted, Settles

(* The members of a set were not met before.                               *)
LEMMA MembersAreNew ==
  ASSUME Sorted, NEW p \in Path, p \in Pool, answered \subseteq Path
  PROVE  /\ p \notin answered /\ p \notin ChildPaths(p)
         /\ ChildPaths(p) \cap (Pool \cup answered) = {}
<1>1. p \notin answered /\ Discovered(p)
  BY DEF Sorted
<1>2. \A c \in ChildPaths(p) : c \in Path /\ ~Discovered(c)
  <2> SUFFICES ASSUME NEW c \in ChildPaths(p) PROVE c \in Path /\ ~Discovered(c)
    OBVIOUS
  <2>1. c \in Path
    BY TreeFacts
  <2>2. c # Root /\ \A q \in answered : c \in ChildPaths(q) => q = p
    BY ChildrenDiffer
  <2> QED BY <1>1, <2>1, <2>2 DEF Discovered
<1> QED BY <1>1, <1>2 DEF Sorted

LEMMA SortedLists ==
  ASSUME Sorted, NEW p \in Path, Lists(p), answered \subseteq Path,
         IsListing(p), jobs[p] = "absent", jobs' = jobs
  PROVE  Sorted'
<1>1. /\ p \in Pool /\ p \notin answered /\ p \notin ChildPaths(p)
      /\ ChildPaths(p) \cap (Pool \cup answered) = {}
  BY MembersAreNew DEF Lists
<1>2. \A c \in Path :
        Discovered(c)' <=> Discovered(c) \/ c \in ChildPaths(p)
  BY DEF Discovered, Lists
<1>3. Pool' \cap answered' = {}
  BY <1>1 DEF Sorted, Lists
<1> QED BY <1>1, <1>2, <1>3 DEF Sorted, Lists

(* What the slots hold when one of them takes a path or lets go of it.     *)
LEMMA HeldSame ==
  ASSUME Running' = Running, \A w \in Running : attrPath'[w] = attrPath[w]
  PROVE  Held' = Held
  BY DEF Held

LEMMA HeldTaken ==
  ASSUME Apart, NEW w, w \notin Running, Running' = Running \cup {w},
         NEW p, attrPath'[w] = p, p \notin Held,
         \A v \in Running : attrPath'[v] = attrPath[v]
  PROVE  /\ Held' = Held \cup {p}
         /\ \A u, v \in Running' : attrPath'[u] = attrPath'[v] => u = v
  BY DEF Held, Apart

LEMMA HeldDropped ==
  ASSUME Apart, NEW w, w \in Running, Running' = Running \ {w},
         \A v \in Running : v # w => attrPath'[v] = attrPath[v]
  PROVE  /\ attrPath[w] \in Held /\ Held' = Held \ {attrPath[w]}
         /\ \A u, v \in Running' : attrPath'[u] = attrPath'[v] => u = v
  BY DEF Held, Apart

(* A step that moves nothing.                                              *)
LEMMA ApartStays ==
  ASSUME UNCHANGED <<todo, solo, answered>>, Running' = Running,
         \A w \in Running : attrPath'[w] = attrPath[w]
  PROVE  Stays /\ (Apart => Apart')
<1>1. Held' = Held
  BY HeldSame
<1> QED BY <1>1 DEF Stays, Pool, Apart

-----------------------------------------------------------------------------
(* The steps that move paths.                                              *)

(* dispatch() hands a path out. *)
LEMMA HandOutPlaces ==
  ASSUME TypeInv, Apart, DispatchSolo \/ DispatchTodo
  PROVE  Apart' /\ Stays
<1>0. PICK w \in Worker : w = cur
  BY DEF TypeInv, LocalTypeOK
<1>1. /\ phase[w] = "Idle" /\ phase' = [phase EXCEPT ![w] = "Busy"]
      /\ phase \in [Worker -> Phase]
      /\ attrPath \in [Worker -> Path \cup {NoPath}]
      /\ answered' = answered
  BY <1>0 DEF IsFree, DispatchSolo, DispatchTodo, HandOut, TypeInv, SlotOK,
              SlotTypeOK
<1>2. w \notin Running /\ Running' = Running \cup {w}
  BY <1>1 DEF Running, InPhase
<1>3. PICK p \in Path :
        /\ attrPath' = [attrPath EXCEPT ![w] = p]
        /\ \/ /\ p \in todo /\ todo' = todo \ {p} /\ solo' = solo
           \/ /\ solo # <<>> /\ p = Last(solo)
              /\ solo' = Front(solo) /\ todo' = todo
  BY <1>0, PoolTypes, PathsFront DEF DispatchSolo, DispatchTodo, HandOut
<1>4. solo # <<>> =>
        /\ Last(solo) \in Range(solo)
        /\ Range(solo) = {Last(solo)} \cup Range(Front(solo))
        /\ IsInjective(Front(solo)) /\ Last(solo) \notin Range(Front(solo))
  BY PoolTypes, PathsFront DEF Apart
<1>5. p \notin Held
  BY <1>3, <1>4 DEF Apart
<1>6. /\ Held' = Held \cup {p}
      /\ \A u, v \in Running' : attrPath'[u] = attrPath'[v] => u = v
  <2>1. /\ attrPath'[w] = p
        /\ \A v \in Running : attrPath'[v] = attrPath[v]
    BY <1>1, <1>2, <1>3 DEF Running, InPhase
  <2> QED BY <1>2, <1>5, <2>1, HeldTaken
<1>7. CASE p \in todo /\ todo' = todo \ {p} /\ solo' = solo
  <2>1. Apart'
    BY <1>6, <1>7 DEF Apart
  <2> QED BY <1>1, <1>6, <1>7, <2>1 DEF Stays, Pool
<1>8. CASE /\ solo # <<>> /\ p = Last(solo)
           /\ solo' = Front(solo) /\ todo' = todo
  <2>1. /\ IsInjective(solo') /\ p \notin Range(solo')
        /\ Range(solo) = {p} \cup Range(solo')
    BY <1>4, <1>8
  <2>2. Apart'
    BY <1>6, <1>8, <2>1 DEF Apart
  <2>3. Pool' = Pool
    BY <1>6, <1>8, <2>1 DEF Pool
  <2> QED BY <1>1, <2>2, <2>3 DEF Stays
<1> QED BY <1>3, <1>7, <1>8

(* onKilled: the path of a running slot waits for Solo, or is given up.    *)
LEMMA OnKilledPlaces ==
  ASSUME TypeInv, Apart, NEW w \in Worker, OnKilled(w)
  PROVE  /\ Apart'
         /\ ~GivesUp(w) => Stays
         /\ GivesUp(w) => Settles(attrPath[w])
<1>1. /\ phase' = [v \in Worker |-> IF v \in {w} THEN "None" ELSE phase[v]]
      /\ attrPath' = [v \in Worker |-> IF v \in {w} THEN NoPath
                                                    ELSE attrPath[v]]
      /\ todo' = todo
  BY DEF OnKilled, ResetWorkers
<1>2. /\ Running' = Running \ {w}
      /\ \A v \in Running : v # w => attrPath'[v] = attrPath[v]
  BY <1>1 DEF Running, InPhase
<1>3. CASE w \notin Running
  <2>1. UNCHANGED <<todo, solo, answered>> /\ ~GivesUp(w)
    BY <1>1, <1>3 DEF OnKilled, GivesUp, QueueRetry
  <2>2. /\ Running' = Running
        /\ \A v \in Running : attrPath'[v] = attrPath[v]
    BY <1>2, <1>3
  <2> QED BY <2>1, <2>2, ApartStays
<1>4. CASE w \in Running
  <2> DEFINE p == attrPath[w]
  <2>1. /\ p \in Held /\ Held' = Held \ {p}
        /\ \A u, v \in Running' : attrPath'[u] = attrPath'[v] => u = v
    BY <1>2, <1>4, HeldDropped
  <2>2. p \in Path
    BY <2>1, PoolTypes
  <2> HIDE DEF p
  <2>3. CASE GivesUp(w)
    <3>1. solo' = solo /\ answered' = answered \cup {p}
      BY <2>3 DEF OnKilled, p
    <3>2. Apart'
      BY <1>1, <2>1, <3>1 DEF Apart
    <3>3. Settles(p)
      BY <1>1, <2>1, <3>1 DEF Settles, Pool, Apart
    <3> QED BY <2>3, <3>2, <3>3 DEF p
  <2>4. CASE ~GivesUp(w)
    <3>1. solo' = Append(solo, p) /\ answered' = answered
      BY <1>4, <2>4 DEF OnKilled, QueueRetry, p
    <3>2. /\ Range(solo') = Range(solo) \cup {p}
          /\ IsInjective(solo')
      BY <2>1, <2>2, <3>1, PoolTypes, PathsAppend DEF Apart
    <3>3. Apart'
      BY <1>1, <2>1, <3>2 DEF Apart
    <3>4. Pool' = Pool
      BY <1>1, <2>1, <3>2 DEF Pool
    <3> QED BY <2>4, <3>1, <3>3, <3>4 DEF Stays
  <2> QED BY <2>3, <2>4
<1> QED BY <1>3, <1>4

(* onEof, when no exception is thrown. *)
LEMMA OnEofPlaces ==
  ASSUME TypeInv, Apart, NEW w \in Worker, OnEof(w, TRUE), pc' # "throw"
  PROVE  /\ Apart'
         /\ \/ Stays /\ UNCHANGED outputVars
            \/ /\ Settles(attrPath[w])
               /\ EmitResponse(attrPath[w], "memory") /\ ~EmitThrows("memory")
<1>1. CASE phase[w] = "Exiting"
  <2>1. /\ phase' = [v \in Worker |-> IF v \in {w} THEN "None" ELSE phase[v]]
        /\ attrPath' = [v \in Worker |-> IF v \in {w} THEN NoPath
                                                      ELSE attrPath[v]]
        /\ UNCHANGED <<todo, solo, answered, outputVars>>
    BY <1>1 DEF OnEof, ResetWorkers, queueVars
  <2>2. /\ Running' = Running
        /\ \A v \in Running : attrPath'[v] = attrPath[v]
    BY <1>1, <2>1 DEF Running, InPhase
  <2> QED BY <2>1, <2>2, ApartStays
<1>2. CASE phase[w] # "Exiting"
  <2>1. OnKilled(w) /\ (GivesUp(w) => ~EmitThrows("memory"))
    BY <1>2 DEF OnEof, Throw
  <2> QED BY <2>1, OnKilledPlaces DEF OnKilled
<1> QED BY <1>1, <1>2

(* The answer to the job of slot cur. *)
LEMMA ResponsePlaces ==
  ASSUME TypeInv, Apart, LineIs("Busy", "response"), JobFinished(cur),
         NEW p, p = attrPath[cur], Head(lines).attrPath = p, solo' = solo
  PROVE  /\ p \in Pool
         /\ todo' = todo => Apart' /\ Settles(p)
         /\ /\ p \notin ChildPaths(p) /\ ChildPaths(p) \cap Pool = {}
            /\ todo' = todo \cup ChildPaths(p)
            => Apart' /\ Lists(p)
<1>0. PICK w \in Worker : w = cur
  BY DEF TypeInv, LocalTypeOK
<1>1. /\ phase[w] = "Busy" /\ phase' = [phase EXCEPT ![w] = "Starting"]
      /\ phase \in [Worker -> Phase]
      /\ attrPath' = [attrPath EXCEPT ![w] = NoPath]
      /\ attrPath \in [Worker -> Path \cup {NoPath}]
      /\ answered' = answered \cup {p}
  BY <1>0 DEF LineIs, JobFinished, TypeInv, SlotOK, SlotTypeOK
<1>2. /\ w \in Running /\ Running' = Running \ {w}
      /\ \A v \in Running : v # w => attrPath'[v] = attrPath[v]
  BY <1>1 DEF Running, InPhase
<1>3. /\ p \in Held /\ Held' = Held \ {p}
      /\ \A u, v \in Running' : attrPath'[u] = attrPath'[v] => u = v
  BY <1>0, <1>2, HeldDropped
<1>4. p \in Pool
  BY <1>3 DEF Pool
<1>5. todo' = todo => Apart' /\ Settles(p)
  <2> SUFFICES ASSUME todo' = todo PROVE Apart' /\ Settles(p)
    OBVIOUS
  <2>1. Apart'
    BY <1>3 DEF Apart
  <2> QED BY <1>1, <1>3, <2>1 DEF Settles, Pool, Apart
<1>6. ASSUME p \notin ChildPaths(p), ChildPaths(p) \cap Pool = {},
             todo' = todo \cup ChildPaths(p)
      PROVE  Apart' /\ Lists(p)
  <2>1. Apart'
    BY <1>3, <1>6 DEF Apart, Pool
  <2> QED BY <1>1, <1>3, <1>6, <2>1 DEF Lists, Pool, Apart
<1> QED BY <1>4, <1>5, <1>6

-----------------------------------------------------------------------------
(* What a step does to the reports and to the lists of the thread.         *)

LEMMA OutputTypes ==
  ASSUME TypeInv
  PROVE  /\ jobs \in [Path -> Reported \cup {"absent"}]
         /\ printed \in [Path -> Nat]
  BY DEF TypeInv, OutputTypeOK

(* Nothing is reported: a path that is answered may be a listing, or a job *)
(* that goes to the thread.                                                *)
LEMMA ReportsQuiet ==
  ASSUME AllReports, UNCHANGED <<jobs, printed, exc>>,
         pc # "exit0" /\ pc' # "exit0",
         answered \subseteq answered',
         \A p \in Path : p \in answered' /\ p \notin answered =>
           IsListing(p) \/ (CheckCacheStatus /\ IsJob(p))
  PROVE  AllReports'
  BY DEF AllReports, Reports, Due

(* A path that was not reported is.                                        *)
LEMMA ReportsEmitted ==
  ASSUME TypeInv, AllReports, NEW p \in Path,
         NEW what \in Reported \ {"fatal"}, jobs[p] = "absent",
         EmitResponse(p, what), exc => exc', ~exc' => ~EmitThrows(what),
         pc # "exit0" /\ pc' # "exit0",
         answered' = answered \cup {p}
  PROVE  AllReports'
<1>1. /\ jobs' = [jobs EXCEPT ![p] = what]
      /\ printed' = [printed EXCEPT ![p] =
                       IF what = "aggregate" \/ ~stdoutOpen THEN @ ELSE @ + 1]
      /\ jobs \in [Path -> Reported \cup {"absent"}]
      /\ printed \in [Path -> Nat]
      /\ what # "absent" /\ what # "fatal"
  BY OutputTypes DEF EmitResponse, HasPendingConstituents, Reported
<1>2. /\ jobs'[p] = what
      /\ printed'[p] = IF what = "aggregate" \/ ~stdoutOpen THEN printed[p]
                                                           ELSE printed[p] + 1
      /\ \A q \in Path : q # p => jobs'[q] = jobs[q] /\ printed'[q] = printed[q]
  BY <1>1
<1>3. printed[p] = 0
  <2>1. printed[p] <= 0 /\ printed[p] \in Nat
    BY <1>1 DEF AllReports, Reports, Due
  <2> QED BY <2>1
<1>4. ~exc' => stdoutOpen \/ what = "aggregate"
  BY DEF EmitThrows, HasPendingConstituents
<1>5. Reports(p)'
  BY <1>1, <1>2, <1>3, <1>4 DEF Reports, Due
<1>6. ASSUME NEW q \in Path, q # p PROVE Reports(q)'
  BY <1>2, <1>6 DEF AllReports, Reports, Due
<1>7. \A q \in Path : Reports(q)'
  BY <1>5, <1>6
<1> QED BY <1>7 DEF AllReports

(* handleConstituents prints what was held back.                           *)
LEMMA ReportsAggregates ==
  ASSUME TypeInv, AllReports, EmitAggregates(AwaitingConstituents), ~exc,
         UNCHANGED exc, pc # "exit0", pc' = "exit0", answered' = answered
  PROVE  AllReports'
<1>1. /\ jobs' = jobs /\ printed \in [Path -> Nat]
      /\ printed' = [p \in Path |-> IF jobs[p] = "aggregate" THEN printed[p] + 1
                                                           ELSE printed[p]]
  BY OutputTypes DEF EmitAggregates, AwaitingConstituents,
                     HasPendingConstituents
<1>2. ASSUME NEW p \in Path PROVE Reports(p)'
  <2>1. printed[p] = Due(p) /\ Reports(p)
    BY <1>2 DEF AllReports, Reports
  <2>2. printed'[p] = IF jobs[p] = "aggregate" THEN printed[p] + 1
                                              ELSE printed[p]
    BY <1>1
  <2> QED BY <1>1, <2>1, <2>2 DEF Reports, Due
<1>3. \A p \in Path : Reports(p)'
  BY <1>2
<1> QED BY <1>3 DEF AllReports

(* The lists of the thread are left alone, and nothing is answered that it *)
(* should have had.                                                        *)
LEMMA QueuesQuiet ==
  ASSUME UNCHANGED <<inbox, batch, kept>>,
         \A p \in answered' : p \in answered \/ ~IsJob(p) \/ jobs'[p] # "absent",
         \A p \in answered : jobs[p] # "absent" => jobs'[p] # "absent",
         exc => exc', aborted => aborted', pc = "gone" => pc' = "gone"
  PROVE  /\ QueuesApart => QueuesApart'
         /\ PushedNotLost => PushedNotLost'
  BY DEF QueuesApart, PushedNotLost, InResolver

LEMMA AwaitedQuiet ==
  ASSUME Awaited, UNCHANGED <<inbox, batch, kept>>, answered \subseteq answered',
         \A p \in answered : jobs[p] = "absent" => jobs'[p] = "absent"
  PROVE  Awaited'
  BY DEF Awaited, InResolver

(* push: the job is new to the thread.                                     *)
LEMMA QueuesPushed ==
  ASSUME TypeInv, QueuesApart, PushedNotLost, Awaited, NEW p \in JobPath,
         p \notin answered, jobs[p] = "absent", Push(p),
         ~closed, exc => aborted,
         answered' = answered \cup {p}, UNCHANGED <<jobs, pc>>
  PROVE  /\ QueuesApart' /\ PushedNotLost'
         /\ Awaited'
<1>0. p \in Path
  BY DEF JobPath
<1>1. p \notin InResolver
  BY DEF Awaited
<1>2. CASE exc
  <2>1. UNCHANGED <<inbox, batch, kept, exc, aborted>>
    BY <1>2 DEF Push, resolverVars
  <2> QED BY <1>2, <2>1 DEF QueuesApart, PushedNotLost, InResolver, Awaited
<1>3. CASE ~exc
  <2>1. inbox' = Append(inbox, p) /\ UNCHANGED <<batch, kept, exc, aborted>>
    BY <1>3 DEF Push
  <2>2. /\ Range(inbox') = Range(inbox) \cup {p}
        /\ IsInjective(inbox) => IsInjective(inbox')
    BY <1>0, <1>1, <2>1, PoolTypes, PathsAppend DEF InResolver
  <2>3. QueuesApart'
    BY <1>1, <2>1, <2>2 DEF QueuesApart, InResolver
  <2>4. InResolver' = InResolver \cup {p}
    BY <2>1, <2>2 DEF InResolver
  <2>5. PushedNotLost'
    BY <2>1, <2>4 DEF PushedNotLost
  <2> QED BY <2>3, <2>4, <2>5 DEF Awaited
<1> QED BY <1>2, <1>3

-----------------------------------------------------------------------------
(* The thread.                                                             *)

(* The thread takes the inbox: nothing is left where it takes it to.       *)
LEMMA TakeInboxQueues ==
  ASSUME TypeInv, QueuesApart, batch = <<>>, NEW next, TakeInbox(next)
  PROVE  QueuesApart' /\ InResolver' = InResolver
<1>1. batch' = kept \o inbox /\ kept' = <<>> /\ inbox' = <<>>
  BY DEF TakeInbox
<1>2. /\ Range(batch') = Range(kept) \cup Range(inbox) /\ IsInjective(batch')
  BY <1>1, PoolTypes, PathsConcat DEF QueuesApart
<1> QED BY <1>1, <1>2, PathsEmpty DEF QueuesApart, InResolver

(* The job at the head is tried.                                           *)
LEMMA HeadTried ==
  ASSUME TypeInv, QueuesApart, batch # <<>>
  PROVE  /\ Head(batch) \in JobPath /\ Head(batch) \in Path
         /\ Head(batch) \in InResolver
         /\ Range(batch) = {Head(batch)} \cup Range(Tail(batch))
         /\ IsInjective(Tail(batch)) /\ Head(batch) \notin Range(Tail(batch))
         /\ Head(batch) \notin Range(kept) /\ Head(batch) \notin Range(inbox)
<1>1. Head(batch) \in JobPath
  BY JobSeqs DEF TypeInv, ResolverTypeOK
<1>2. /\ Head(batch) \in Range(batch)
      /\ Range(batch) = {Head(batch)} \cup Range(Tail(batch))
      /\ IsInjective(Tail(batch)) /\ Head(batch) \notin Range(Tail(batch))
  BY PoolTypes, PathsTail DEF QueuesApart
<1> QED BY <1>1, <1>2 DEF QueuesApart, InResolver, JobPath

(* What a step of the thread does: the jobs in its hands stay the same, or *)
(* the head of its batch is reported, or all of them are lost.             *)
Keeps == InResolver' = InResolver /\ UNCHANGED <<outputVars, exc, aborted>>

Resolves(p) ==
  /\ p \in InResolver /\ InResolver' = InResolver \ {p}
  /\ EmitResponse(p, Kind[p]) /\ ~EmitThrows(Kind[p])
  /\ UNCHANGED <<exc, aborted>>

Loses ==
  /\ InResolver' \subseteq InResolver /\ exc' /\ aborted'
  /\ \/ UNCHANGED outputVars
     \/ \E p \in InResolver \cap JobPath :
          p \notin InResolver' /\ EmitResponse(p, Kind[p])

LEMMA ThreadQueues ==
  ASSUME TypeInv, QueuesApart, ThreadInv, ResolverStep
  PROVE  /\ QueuesApart'
         /\ Keeps \/ Loses \/ \E p \in JobPath : Resolves(p)
<1>1. CASE WaitInbox \/ BeginRound \/ EndPass \/ ResolveWanted
  <2>1. UNCHANGED <<inbox, batch, kept, exc, aborted, outputVars>>
    BY <1>1 DEF WaitInbox, BeginRound, EndPass, ResolveWanted
  <2> QED BY <2>1 DEF QueuesApart, Keeps, InResolver
<1>2. CASE FirstTake \/ TakeLate
  <2>1. PICK next : batch = <<>> /\ TakeInbox(next)
    BY <1>2 DEF FirstTake, TakeLate, ThreadInv
  <2> QED BY <2>1, TakeInboxQueues DEF Keeps, TakeInbox
<1>3. CASE ResolveJob
  <2> DEFINE p == Head(batch)
  <2>0. batch # <<>> /\ EmitResponse(p, Kind[p])
    BY <1>3 DEF ResolveJob
  <2>1. /\ p \in JobPath /\ p \in InResolver
        /\ Range(batch) = {p} \cup Range(Tail(batch))
        /\ IsInjective(Tail(batch)) /\ p \notin Range(Tail(batch))
        /\ p \notin Range(kept) /\ p \notin Range(inbox)
    BY <2>0, HeadTried
  <2> HIDE DEF p
  <2>2. CASE EmitThrows(Kind[p])
    <3>1. /\ exc' /\ aborted' /\ batch' = <<>> /\ kept' = <<>> /\ inbox' = inbox
      BY <1>3, <2>2 DEF ResolveJob, ThreadThrows, p
    <3>2. QueuesApart'
      BY <3>1, PathsEmpty DEF QueuesApart
    <3>3. InResolver' = Range(inbox)
      BY <3>1, PathsEmpty DEF InResolver
    <3>4. Loses
      BY <2>0, <2>1, <3>1, <3>3 DEF Loses, InResolver
    <3> QED BY <3>2, <3>4
  <2>3. CASE ~EmitThrows(Kind[p])
    <3>1. batch' = Tail(batch) /\ UNCHANGED <<inbox, kept, exc, aborted>>
      BY <1>3, <2>3 DEF ResolveJob, p
    <3>2. QueuesApart'
      BY <2>1, <3>1 DEF QueuesApart
    <3>3. InResolver' = InResolver \ {p}
      BY <2>1, <3>1 DEF InResolver
    <3>4. Resolves(p)
      BY <2>0, <2>1, <2>3, <3>1, <3>3 DEF Resolves
    <3> QED BY <2>1, <3>2, <3>4
  <2> QED BY <2>2, <2>3
<1>4. CASE PostponeJob
  <2> DEFINE p == Head(batch)
  <2>0. /\ batch # <<>> /\ kept' = Append(kept, p) /\ batch' = Tail(batch)
        /\ UNCHANGED <<inbox, exc, aborted, outputVars>>
    BY <1>4 DEF PostponeJob
  <2>1. /\ p \in Path
        /\ Range(batch) = {p} \cup Range(Tail(batch))
        /\ IsInjective(Tail(batch)) /\ p \notin Range(Tail(batch))
        /\ p \notin Range(kept) /\ p \notin Range(inbox)
    BY <2>0, HeadTried
  <2> HIDE DEF p
  <2>2. Range(kept') = Range(kept) \cup {p} /\ IsInjective(kept')
    BY <2>0, <2>1, PoolTypes, PathsAppend DEF QueuesApart
  <2>3. QueuesApart'
    BY <2>0, <2>1, <2>2 DEF QueuesApart
  <2>4. InResolver' = InResolver
    BY <2>0, <2>1, <2>2 DEF InResolver
  <2> QED BY <2>0, <2>3, <2>4 DEF Keeps
<1>5. CASE StoreThrows \/ ThreadInterrupted
  <2>1. /\ exc' /\ aborted' /\ batch' = <<>> /\ kept' = <<>>
        /\ inbox' = inbox /\ UNCHANGED outputVars
    BY <1>5 DEF StoreThrows, ThreadInterrupted, ThreadThrows
  <2>2. QueuesApart'
    BY <2>1, PathsEmpty DEF QueuesApart
  <2>3. InResolver' = Range(inbox)
    BY <2>1, PathsEmpty DEF InResolver
  <2>4. Loses
    BY <2>1, <2>3 DEF Loses, InResolver
  <2> QED BY <2>2, <2>4
<1> QED BY <1>1, <1>2, <1>3, <1>4, <1>5 DEF ResolverStep, ResolverProgram

-----------------------------------------------------------------------------
(* The event loop.                                                         *)

Placed == Apart /\ Sorted /\ AllReports /\ Awaited
Queues  == QueuesApart /\ PushedNotLost

(* What a step of a run that may still succeed does to the places. *)
Walks == Stays \/ \E p \in Path : Settles(p) \/ (IsListing(p) /\ Lists(p))

(* Nothing is moved and nothing is said. *)
Quiet ==
  /\ UNCHANGED <<todo, solo, answered, resolverVars, outputVars>>
  /\ Running' = Running /\ \A w \in Running : attrPath'[w] = attrPath[w]

LEMMA StaysKeeps ==
  ASSUME TypeInv, Stays, Apart => Apart', UNCHANGED <<resolverVars, outputVars>>,
         pc # "exit0" /\ pc' # "exit0", pc # "gone"
  PROVE  /\ Placed => Placed'
         /\ Queues => Queues'
<1>1. UNCHANGED <<answered, jobs, printed, exc, inbox, batch, kept, aborted>>
  BY DEF Stays, resolverVars, outputVars
<1>2. Sorted => Sorted'
  BY <1>1, SortedStays, PoolTypes
<1>3. AllReports => AllReports'
  BY <1>1, ReportsQuiet
<1>4. Awaited => Awaited'
  BY <1>1, AwaitedQuiet
<1>5. Queues => Queues'
  BY <1>1, QueuesQuiet DEF Queues
<1> QED BY <1>2, <1>3, <1>4, <1>5 DEF Placed

LEMMA LoopQuiet ==
  ASSUME TypeInv, SlotInv,
         \/ LoopExit \/ BeginSolo \/ BeginDispatch
         \/ DispatchExit \/ DispatchSpawn \/ DispatchNothing
         \/ PollWorkers
         \/ LineNext \/ LineRestart \/ LineIgnored \/ EndLines
  PROVE  Quiet /\ pc \in LoopPc /\ pc' \in LoopPc \cup {"finish"}
<1>0. /\ phase \in [Worker -> Phase] /\ cur \in Worker /\ victim \in Worker
      /\ attrPath \in [Worker -> Path \cup {NoPath}]
  BY DEF TypeInv, SlotOK, SlotTypeOK, LocalTypeOK
<1> USE DEF Quiet, LoopPc, Running, InPhase, queueVars, slotVars
<1>1. CASE LoopExit \/ BeginDispatch
  BY <1>1 DEF LoopExit, BeginDispatch, LoopGoesOn
<1>2. CASE BeginSolo
  <2>1. /\ Running = {} /\ pc = "top" /\ pc' = "dispatch"
        /\ UNCHANGED <<todo, solo, answered, resolverVars, outputVars>>
        /\ phase' = [w \in Worker |-> "None"]
    BY <1>2 DEF BeginSolo, LoopGoesOn, MustEnterSolo, ResetWorkers,
                SlotsDroppedForSolo
  <2> QED BY <2>1
<1>3. CASE DispatchExit
  BY <1>0, <1>3 DEF DispatchExit, IsFree, NextSlot
<1>4. CASE DispatchSpawn
  BY <1>0, <1>4 DEF DispatchSpawn, MaySpawn, NextSlot
<1>5. CASE DispatchNothing
  BY <1>5 DEF DispatchNothing, NextSlot
<1>6. CASE Poll \/ EndPoll \/ Fill
  BY <1>6 DEF Poll, EndPoll, Fill
<1>7. CASE SampleMemory
  BY <1>7 DEF SampleMemory
<1>8. CASE KillVictim
  <2>1. phase[victim] = "Busy"
    BY <1>8 DEF KillVictim, SlotInv, InLoop
  <2> QED BY <1>0, <1>8, <2>1 DEF KillVictim
<1>9. CASE LineNext
  BY <1>0, <1>9 DEF LineNext, LineIs
<1>10. CASE LineRestart
  BY <1>0, <1>10 DEF LineRestart, LineIs, ResetWorkers
<1>11. CASE LineIgnored \/ EndLines
  BY <1>11 DEF LineIgnored, EndLines
<1> QED BY <1>1, <1>2, <1>3, <1>4, <1>5, <1>6, <1>7, <1>8, <1>9, <1>10, <1>11
        DEF PollWorkers

(* onEof and what follows it: the path of the slot stays, waiting for      *)
(* Solo, or has been reported as given up.                                 *)
LEMMA LoopEof ==
  ASSUME TypeInv, Placed, Queues, SendFailed \/ EofAfterLines,
         pc' \in LoopPc
  PROVE  Placed' /\ Queues' /\ Walks
<1>0. PICK w \in Worker : w = cur
  BY DEF TypeInv, LocalTypeOK
<1>1. /\ OnEof(w, TRUE) /\ pc' # "throw" /\ resolverVars' = resolverVars
      /\ pc # "exit0" /\ pc' # "exit0" /\ pc # "gone"
  BY <1>0 DEF SendFailed, EofAfterLines, OnEof, LoopPc
<1>2. /\ Apart'
      /\ \/ Stays /\ UNCHANGED outputVars
         \/ /\ Settles(attrPath[w])
            /\ EmitResponse(attrPath[w], "memory") /\ ~EmitThrows("memory")
  BY <1>1, OnEofPlaces DEF Placed
<1>3. CASE Stays /\ UNCHANGED outputVars
  BY <1>1, <1>2, <1>3, StaysKeeps DEF Walks
<1>4. CASE /\ Settles(attrPath[w])
           /\ EmitResponse(attrPath[w], "memory") /\ ~EmitThrows("memory")
  <2> DEFINE p == attrPath[w]
  <2>1. p \in Path /\ p \notin answered /\ answered \subseteq Path
    BY <1>4, PoolTypes DEF Settles, Placed, Sorted
  <2> HIDE DEF p
  <2>2. /\ jobs[p] = "absent" /\ jobs' = [jobs EXCEPT ![p] = "memory"]
        /\ jobs \in [Path -> Reported \cup {"absent"}]
        /\ answered' = answered \cup {p} /\ exc' = exc /\ Settles(p)
        /\ UNCHANGED <<inbox, batch, kept, aborted>>
    BY <1>1, <1>4, <2>1, OutputTypes DEF Placed, AllReports, Reports,
       EmitResponse, Settles, resolverVars, p
  <2>3. AllReports'
    BY <1>1, <1>4, <2>1, <2>2, ReportsEmitted DEF Reported, Placed, p
  <2>4. /\ jobs'[p] = "memory"
        /\ \A q \in Path : q # p => jobs'[q] = jobs[q]
    BY <2>1, <2>2
  <2>5. Sorted'
    BY <2>1, <2>2, <2>4, SortedSettles DEF Placed
  <2>6. Awaited'
    BY <2>1, <2>2, <2>4, AwaitedQuiet DEF Placed
  <2>7. Queues'
    BY <1>1, <2>1, <2>2, <2>4, QueuesQuiet DEF Queues
  <2> QED BY <1>2, <2>1, <2>2, <2>3, <2>5, <2>6, <2>7 DEF Placed, Walks
<1> QED BY <1>2, <1>3, <1>4

(* onResponse. *)
LEMMA LoopResponse ==
  ASSUME TypeInv, ProtocolInv, ThreadInv, Placed, Queues,
         ResponseAttrs \/ ResponseJobPushed \/ ResponseEmitted
  PROVE  Placed' /\ Queues' /\ Walks
<1> DEFINE p == Head(lines).attrPath
<1>1. /\ LineIs("Busy", "response") /\ JobFinished(cur) /\ PopLine
      /\ UNCHANGED <<workerVars, pc, cur, solo>>
  BY DEF ResponseAttrs, ResponseJobPushed, ResponseEmitted
<1>2. p = attrPath[cur]
  BY <1>1, JobFinishedProtocol
<1>3. /\ pc = "lines" /\ pc' = "lines" /\ answered' = answered \cup {p}
      /\ ~closed /\ (exc => aborted)
  BY <1>1 DEF LineIs, JobFinished, ThreadInv, InLoop, LoopPc
<1>4. /\ ResponseAttrs => /\ IsListing(p) /\ todo' = todo \cup ChildPaths(p)
                          /\ UNCHANGED <<resolverVars, outputVars>>
      /\ ResponseJobPushed => /\ CheckCacheStatus /\ IsJob(p) /\ Push(p)
                              /\ UNCHANGED <<todo, outputVars>>
      /\ ResponseEmitted => /\ EmittedHere(p) /\ EmitResponse(p, Kind[p])
                            /\ ~EmitThrows(Kind[p]) /\ Kind[p] # "fatal"
                            /\ UNCHANGED <<todo, resolverVars>>
  BY DEF ResponseAttrs, ResponseJobPushed, ResponseEmitted
<1>5. /\ p \in Pool
      /\ todo' = todo => Apart' /\ Settles(p)
      /\ /\ p \notin ChildPaths(p) /\ ChildPaths(p) \cap Pool = {}
         /\ todo' = todo \cup ChildPaths(p)
         => Apart' /\ Lists(p)
  BY <1>1, <1>2, ResponsePlaces DEF Placed
<1> HIDE DEF p
<1>6. /\ p \in Path /\ p \notin answered /\ answered \subseteq Path
      /\ jobs[p] = "absent"
  BY <1>5, PoolTypes DEF Placed, Sorted, AllReports, Reports
<1>7. CASE ResponseAttrs
  <2>1. /\ IsListing(p) /\ ~IsJob(p)
        /\ UNCHANGED <<jobs, printed, exc, inbox, batch, kept, aborted>>
    BY <1>4, <1>7 DEF resolverVars, outputVars, IsListing, IsJob
  <2>2. Apart' /\ Lists(p)
    BY <1>4, <1>5, <1>6, <1>7, MembersAreNew DEF Placed
  <2>3. Sorted'
    BY <1>6, <2>1, <2>2, SortedLists DEF Placed
  <2>4. AllReports'
    BY <1>3, <2>1, ReportsQuiet DEF Placed
  <2>5. Awaited'
    BY <1>3, <2>1, AwaitedQuiet DEF Placed
  <2>6. Queues'
    BY <1>3, <2>1, QueuesQuiet DEF Queues
  <2> QED BY <1>6, <2>1, <2>2, <2>3, <2>4, <2>5, <2>6 DEF Placed, Walks
<1>8. CASE ResponseJobPushed
  <2>1. /\ CheckCacheStatus /\ IsJob(p) /\ p \in JobPath /\ ~IsListing(p)
        /\ Push(p) /\ UNCHANGED <<jobs, printed>> /\ exc' = exc
    BY <1>4, <1>6, <1>8 DEF outputVars, IsListing, IsJob, JobPath, Push,
                            resolverVars
  <2>2. Apart' /\ Settles(p)
    BY <1>4, <1>5, <1>8
  <2>3. Sorted'
    BY <1>6, <2>1, <2>2, SortedSettles DEF Placed
  <2>4. AllReports'
    BY <1>3, <2>1, ReportsQuiet DEF Placed
  <2>5. QueuesApart' /\ PushedNotLost' /\ Awaited'
    BY <1>3, <1>6, <2>1, QueuesPushed DEF Placed, Queues
  <2> QED BY <1>6, <2>2, <2>3, <2>4, <2>5 DEF Placed, Walks, Queues
<1>9. CASE ResponseEmitted
  <2>1. /\ ~IsListing(p) /\ ~(CheckCacheStatus /\ IsJob(p))
        /\ EmitResponse(p, Kind[p]) /\ ~EmitThrows(Kind[p])
        /\ UNCHANGED <<exc, inbox, batch, kept, aborted>>
    BY <1>4, <1>9 DEF resolverVars, EmittedHere
  <2>2. Kind[p] \in Reported \ {"fatal"} /\ Kind[p] # "absent"
    BY <1>4, <1>6, <1>9, <2>1, TreeAssumption
       DEF IsListing, TreeAssumption, PayloadKind, Reported
  <2>3. Apart' /\ Settles(p)
    BY <1>4, <1>5, <1>9
  <2>4. AllReports'
    BY <1>3, <1>6, <2>1, <2>2, ReportsEmitted DEF Placed
  <2>5. /\ jobs'[p] = Kind[p]
        /\ \A q \in Path : q # p => jobs'[q] = jobs[q]
    BY <1>6, <2>1, OutputTypes DEF EmitResponse
  <2>6. Sorted'
    BY <1>6, <2>1, <2>3, <2>5, SortedSettles DEF Placed
  <2>7. Awaited'
    BY <1>3, <1>6, <2>1, <2>5, AwaitedQuiet DEF Placed
  <2>8. Queues'
    BY <1>3, <1>6, <2>1, <2>2, <2>5, QueuesQuiet DEF Queues
  <2> QED BY <1>6, <2>3, <2>4, <2>6, <2>7, <2>8 DEF Placed, Walks
<1> QED BY <1>7, <1>8, <1>9

LEMMA LoopKeeps ==
  ASSUME TypeInv, SlotInv, ProtocolInv, ThreadInv, Placed, Queues,
         SchedulerStep, pc' \in LoopPc \cup {"finish"}
  PROVE  Placed' /\ Queues' /\ Walks
<1>1. CASE \/ LoopExit \/ BeginSolo \/ BeginDispatch
           \/ DispatchExit \/ DispatchSpawn \/ DispatchNothing
           \/ PollWorkers
           \/ LineNext \/ LineRestart \/ LineIgnored \/ EndLines
  <2>1. Quiet /\ pc \in LoopPc /\ pc' \in LoopPc \cup {"finish"}
    BY <1>1, LoopQuiet
  <2>2. Stays /\ (Apart => Apart')
    BY <2>1, ApartStays DEF Quiet
  <2> QED BY <2>1, <2>2, StaysKeeps DEF Quiet, Walks, LoopPc
<1>2. CASE DispatchSolo \/ DispatchTodo
  <2>1. Apart' /\ Stays
    BY <1>2, HandOutPlaces DEF Placed
  <2>2. UNCHANGED <<resolverVars, outputVars>> /\ pc = "dispatch"
    BY <1>2 DEF DispatchSolo, DispatchTodo, HandOut
  <2> QED BY <2>1, <2>2, StaysKeeps DEF Walks, LoopPc
<1>3. CASE SendFailed \/ EofAfterLines
  <2>1. pc' # "finish"
    BY <1>3 DEF SendFailed, EofAfterLines, OnEof, NextSlot, Throw
  <2> QED BY <1>3, <2>1, LoopEof
<1>4. CASE ResponseAttrs \/ ResponseJobPushed \/ ResponseEmitted
  BY <1>4, LoopResponse
<1>5. CASE \/ Interrupt \/ SpawnThrows \/ LineUnexpected \/ ResponseThrows
           \/ DestroyScheduler
  BY <1>5 DEF Interrupt, SpawnThrows, LineUnexpected, ResponseThrows,
     JustThrow, Throw, DestroyScheduler, LoopPc
<1> QED BY <1>1, <1>2, <1>3, <1>4, <1>5 DEF SchedulerStep, Dispatch, OnLine

(* An exception, and ~Scheduler: the thread keeps what it has.             *)
LEMMA ThrowKeepsQueues ==
  ASSUME TypeInv, Queues, SchedulerStep, pc' \notin LoopPc \cup {"finish"}
  PROVE  Queues' /\ answered' = answered
<1>1. /\ \/ Interrupt \/ SpawnThrows \/ LineUnexpected \/ ResponseThrows
         \/ DestroyScheduler \/ SendFailed \/ EofAfterLines
      /\ pc' \in {"throw", "unwind"} /\ pc # "gone"
  BY SchedulerLeavesThread
     DEF SchedulerStep, Dispatch, PollWorkers, OnLine, LoopExit,
     BeginSolo, BeginDispatch, DispatchExit, DispatchSolo, DispatchTodo,
     HandOut, DispatchSpawn, DispatchNothing, Poll, SampleMemory, KillVictim,
     EndPoll, Fill, LineNext, LineRestart, LineIgnored, LineIs,
     ResponseAttrs, ResponseJobPushed, ResponseEmitted, EndLines, NextSlot,
     LoopPc
<1>2. UNCHANGED resolverVars
  BY <1>1 DEF Interrupt, SpawnThrows, LineUnexpected, ResponseThrows,
     JustThrow, Throw, DestroyScheduler, SendFailed, EofAfterLines
<1>3. /\ answered' = answered
      /\ \A p \in answered : jobs[p] # "absent" => jobs'[p] # "absent"
  <2>1. CASE Interrupt \/ SpawnThrows \/ LineUnexpected \/ DestroyScheduler
    BY <2>1 DEF Interrupt, SpawnThrows, LineUnexpected, JustThrow,
       DestroyScheduler, queueVars, outputVars
  <2>2. CASE ResponseThrows
    <3>1. PICK p : jobs' = [jobs EXCEPT ![p] = Kind[p]] /\ answered' = answered
      BY <2>2 DEF ResponseThrows, EmitResponse, queueVars
    <3>2. \A q \in Path : Kind[q] # "absent"
      BY TreeAssumption DEF TreeAssumption, PayloadKind
    <3>3. answered \subseteq Path /\ jobs \in [Path -> Reported \cup {"absent"}]
      BY PoolTypes, OutputTypes
    <3> QED BY <3>1, <3>2, <3>3
  <2>3. CASE SendFailed \/ EofAfterLines
    <3>1. PICK Continue \in BOOLEAN :
            OnEof(cur, Continue) /\ (Continue => pc' \in LoopPc)
      BY <2>3 DEF SendFailed, EofAfterLines, NextSlot, LoopPc, OnEof
    <3>2. /\ answered' = answered
          /\ UNCHANGED jobs \/ EmitResponse(attrPath[cur], "memory")
      BY <1>1, <3>1 DEF OnEof, queueVars, outputVars, LoopPc
    <3>3. answered \subseteq Path /\ jobs \in [Path -> Reported \cup {"absent"}]
      BY PoolTypes, OutputTypes
    <3> QED BY <3>2, <3>3 DEF EmitResponse
  <2> QED BY <1>1, <2>1, <2>2, <2>3
<1> QED BY <1>1, <1>2, <1>3, QueuesQuiet DEF Queues, resolverVars

-----------------------------------------------------------------------------
(* The thread, main, and everything else.                                  *)

(* A step that touches none of this. *)
LEMMA FrameKeeps ==
  ASSUME UNCHANGED <<pc, phase, attrPath, todo, solo, answered, jobs, printed,
                     exc, inbox, batch, kept, aborted>>
  PROVE  /\ Placed => Placed'
         /\ Queues => Queues'
         /\ Stays
<1>1. Held' = Held /\ Running' = Running /\ InResolver' = InResolver
  BY DEF Held, Running, InPhase, InResolver
<1> QED BY <1>1 DEF Placed, Queues, Stays, Pool, Apart, Sorted, Discovered,
     AllReports, Reports, Due, Awaited, QueuesApart, PushedNotLost

LEMMA ThreadKeeps ==
  ASSUME TypeInv, ThreadInv, Queues, Thread \/ ThreadFails
  PROVE  /\ Queues' /\ Stays
         /\ Course /\ Placed => Placed'
<1>1. /\ ResolverStep /\ rpc # "exited" /\ CheckCacheStatus
      /\ UNCHANGED <<pc, phase, attrPath, todo, solo, answered>>
  BY OthersLeaveAlone
     DEF Thread, ThreadFails, ResolverStep, ResolverProgram, ThreadInv,
     schedulerVars, slotVars, queueVars, WaitInbox, FirstTake, BeginRound,
     ResolveJob, PostponeJob, EndPass, TakeLate, ResolveWanted, StoreThrows,
     ThreadInterrupted
<1>2. pc \notin {"constituents", "exit0"}
  BY <1>1 DEF ThreadInv
<1>3. Stays /\ (Apart => Apart')
  <2>1. Running' = Running
    BY <1>1 DEF Running, InPhase
  <2> QED BY <1>1, <2>1, ApartStays
<1>4. /\ QueuesApart'
      /\ Keeps \/ Loses \/ \E p \in JobPath : Resolves(p)
  BY <1>1, ThreadQueues DEF Queues
<1>5. answered \subseteq Path /\ jobs \in [Path -> Reported \cup {"absent"}]
  BY PoolTypes, OutputTypes
<1>6. ASSUME NEW p \in JobPath, EmitResponse(p, Kind[p])
      PROVE  /\ p \in Path /\ ~IsListing(p)
             /\ Kind[p] \in Reported \ {"fatal"} /\ Kind[p] # "absent"
             /\ jobs'[p] = Kind[p]
             /\ \A q \in Path : q # p => jobs'[q] = jobs[q]
  BY <1>5, <1>6 DEF JobPath, IsJob, IsListing, Reported, EmitResponse
<1>7. PushedNotLost'
  <2>1. CASE Keeps
    BY <1>1, <1>4, <2>1 DEF Keeps, Queues, PushedNotLost, outputVars
  <2>2. CASE Loses
    BY <2>2 DEF Loses, PushedNotLost
  <2>3. ASSUME NEW p \in JobPath, Resolves(p) PROVE PushedNotLost'
    <3>1. /\ jobs'[p] # "absent" /\ \A q \in Path : q # p => jobs'[q] = jobs[q]
      BY <1>6, <2>3 DEF Resolves
    <3> QED BY <1>1, <1>5, <2>3, <3>1 DEF Resolves, Queues, PushedNotLost
  <2> QED BY <1>4, <2>1, <2>2, <2>3
<1>8. ASSUME Placed PROVE Placed'
  <2>1. CASE UNCHANGED outputVars /\ (exc' = exc \/ exc')
             /\ InResolver' \subseteq InResolver
    <3>1. UNCHANGED <<jobs, printed>>
      BY <2>1 DEF outputVars
    <3>2. Sorted'
      BY <1>3, <1>5, <1>8, <3>1, SortedStays DEF Placed
    <3>3. AllReports'
      BY <1>1, <1>8, <2>1, <3>1 DEF Placed, AllReports, Reports, Due
    <3>4. Awaited'
      BY <1>1, <1>8, <2>1, <3>1 DEF Placed, Awaited
    <3> QED BY <1>3, <1>8, <3>2, <3>3, <3>4 DEF Placed
  <2>2. ASSUME NEW p \in JobPath, p \in InResolver,
               InResolver' \subseteq InResolver \ {p},
               EmitResponse(p, Kind[p]),
               exc => exc', ~exc' => ~EmitThrows(Kind[p])
        PROVE  Placed'
    <3>1. p \in answered /\ jobs[p] = "absent"
      BY <1>8, <2>2 DEF Placed, Awaited
    <3>2. /\ p \in Path /\ ~IsListing(p)
          /\ Kind[p] \in Reported \ {"fatal"}
          /\ \A q \in Path : q # p => jobs'[q] = jobs[q]
      BY <1>6, <2>2
    <3>3. Sorted'
      BY <1>3, <1>5, <1>8, <3>2, SortedStays DEF Placed
    <3>4. answered' = answered \cup {p}
      BY <1>1, <3>1
    <3>5. AllReports'
      BY <1>1, <1>2, <1>8, <2>2, <3>1, <3>2, <3>4, ReportsEmitted DEF Placed
    <3>6. Awaited'
      BY <1>1, <1>5, <1>8, <2>2, <3>2 DEF Placed, Awaited
    <3> QED BY <1>3, <1>8, <3>3, <3>5, <3>6 DEF Placed
  <2>3. CASE Keeps
    BY <2>1, <2>3 DEF Keeps
  <2>4. CASE Loses
    BY <2>1, <2>2, <2>4 DEF Loses
  <2>5. ASSUME NEW p \in JobPath, Resolves(p) PROVE Placed'
    BY <2>2, <2>5 DEF Resolves
  <2> QED BY <1>4, <2>3, <2>4, <2>5
<1> QED BY <1>3, <1>4, <1>7, <1>8 DEF Queues

(* main: no path moves; handleConstituents prints the aggregates.          *)
LEMMA MainKeeps ==
  ASSUME TypeInv, ThreadInv, Queues, MainStep
  PROVE  /\ Queues'
         /\ Course' => Course
         /\ Course' /\ Placed => Placed' /\ Stays
<1>1. /\ UNCHANGED <<phase, attrPath, todo, solo, answered, jobs, inbox, batch,
                     kept, exc>>
      /\ aborted => aborted'
      /\ pc \notin LoopPc \cup {"exit0", "gone"}
      /\ pc' \notin LoopPc
      /\ pc' \in After => pc \in After
      /\ pc' = "exit0" =>
           pc = "constituents" /\ EmitAggregates(AwaitingConstituents)
      /\ pc' \in After \ {"exit0"} => printed' = printed
  BY DEF MainStep, FinishClose, FinishNotify, FinishJoin, AfterJoin,
     Constituents, ConstituentsThrow, UnwindClose, UnwindDiscard,
     UnwindJoin, MainGoes, After, LoopPc, SetClosed, NotifyClosed, Discard,
     resolverVars, outputVars, EmitAggregates, slotVars, queueVars
<1>2. Queues'
  BY <1>1, QueuesQuiet DEF Queues
<1>3. Stays /\ (Apart => Apart')
  <2>1. Running' = Running
    BY <1>1 DEF Running, InPhase
  <2> QED BY <1>1, <2>1, ApartStays
<1>4. ASSUME Placed, pc' \in After PROVE Placed'
  <2>1. Sorted'
    BY <1>1, <1>3, <1>4, SortedStays, PoolTypes DEF Placed
  <2>2. CASE pc' = "exit0"
    <3>1. AllReports'
      BY <1>1, <1>4, <2>2, ReportsAggregates DEF Placed, ThreadInv
    <3> QED BY <1>1, <1>3, <1>4, <2>1, <3>1, AwaitedQuiet DEF Placed
  <2>3. CASE pc' # "exit0"
    <3>1. AllReports'
      BY <1>1, <1>4, <2>3, ReportsQuiet DEF Placed
    <3> QED BY <1>1, <1>3, <1>4, <2>1, <3>1, AwaitedQuiet DEF Placed
  <2> QED BY <2>2, <2>3
<1> QED BY <1>1, <1>2, <1>3, <1>4 DEF Course

-----------------------------------------------------------------------------
(* The invariant.                                                          *)

(* What a step of the whole program does, as long as it may still end in   *)
(* exit status 0.                                                          *)
LEMMA NextPlaces ==
  ASSUME TypeInv, SlotInv, ProtocolInv, OutcomeInv, [Next]_vars
  PROVE  /\ Queues'
         /\ Course' => Course /\ Placed' /\ Walks
<1> USE DEF OutcomeInv, PlaceInv
<1>0. Queues /\ (Course => Placed)
  BY DEF Queues, Placed
<1>1. CASE SchedulerStep
  <2>1. /\ pc \in LoopPc \cup {"throw"}
        /\ pc' \in LoopPc \cup {"finish", "throw", "unwind"}
        /\ pc = "throw" => pc' = "unwind"
    BY <1>1, SchedulerLeavesThread
  <2>2. CASE pc' \in LoopPc \cup {"finish"}
    <3>1. Course
      BY <2>1, <2>2 DEF Course, LoopPc
    <3> QED BY <1>0, <1>1, <2>2, <3>1, LoopKeeps
  <2>3. CASE pc' \notin LoopPc \cup {"finish"}
    <3>1. ~Course'
      BY <2>1, <2>3 DEF Course, After, LoopPc
    <3> QED BY <1>0, <1>1, <2>3, <3>1, ThrowKeepsQueues
  <2> QED BY <2>2, <2>3
<1>2. CASE MainStep
  BY <1>0, <1>2, MainKeeps DEF Walks
<1>3. CASE Thread \/ ThreadFails
  <2>1. Course' => Course
    BY <1>3, OthersLeaveAlone DEF Course, schedulerVars
  <2> QED BY <1>0, <1>3, <2>1, ThreadKeeps DEF Walks
<1>4. CASE CollectorDies
  <2>1. /\ pc' = "gone" /\ ~Course'
        /\ UNCHANGED <<answered, jobs, exc, inbox, batch, kept, aborted>>
    BY <1>4 DEF CollectorDies, Course, After, LoopPc, queueVars, outputVars
  <2> QED BY <1>0, <2>1, QueuesQuiet DEF Queues
<1>5. CASE \/ \E w \in Worker : ProgramOf(w) \/ KernelOf(w)
           \/ StdoutCloses \/ UNCHANGED vars
  <2>1. UNCHANGED <<pc, phase, attrPath, todo, solo, answered, jobs, printed,
                    exc, inbox, batch, kept, aborted>>
    BY <1>5, OthersLeaveAlone DEF schedulerVars, slotVars, queueVars, vars,
       resolverVars, outputVars
  <2>2. Course' => Course
    BY <2>1 DEF Course
  <2> QED BY <1>0, <2>1, <2>2, FrameKeeps DEF Walks
<1> QED BY <1>1, <1>2, <1>3, <1>4, <1>5 DEF Next, Collector, Terminated

LEMMA NextOutcome ==
  ASSUME TypeInv, SlotInv, ProtocolInv, OutcomeInv, [Next]_vars
  PROVE  OutcomeInv'
<1>1. ThreadInv' /\ EndInv'
  BY NextThread, NextEnd DEF OutcomeInv
<1>2. Queues' /\ (Course' => Placed')
  BY NextPlaces
<1> QED BY <1>1, <1>2 DEF OutcomeInv, PlaceInv, Queues, Placed

LEMMA InitOutcome == Init => OutcomeInv
<1> SUFFICES ASSUME Init PROVE OutcomeInv
  OBVIOUS
<1>1. /\ pc = "top" /\ todo = {Root} /\ solo = <<>> /\ answered = {}
      /\ phase = [w \in Worker |-> "None"]
      /\ rpc = (IF CheckCacheStatus THEN "wait" ELSE "exited")
      /\ inbox = <<>> /\ batch = <<>> /\ kept = <<>>
      /\ ~closed /\ ~aborted /\ ~exc
      /\ jobs = [p \in Path |-> "absent"] /\ printed = [p \in Path |-> 0]
  BY DEF Init, SchedulerInit, ResolverInit, OutputInit
<1>2. Running = {}
  BY <1>1 DEF Running, InPhase
<1>3. Range(<<>>) = {} /\ IsInjective(<<>>)
  BY PathsEmpty
<1>4. ThreadInv /\ EndInv
  BY <1>1 DEF ThreadInv, EndInv, After
<1>5. QueuesApart /\ PushedNotLost /\ Awaited
  BY <1>1, <1>3 DEF QueuesApart, PushedNotLost, Awaited, InResolver
<1>6. Held = {}
  BY <1>2 DEF Held
<1>7. Apart
  BY <1>1, <1>2, <1>3, <1>6 DEF Apart
<1>8. Sorted
  <2>1. Pool = {Root}
    BY <1>1, <1>3, <1>6 DEF Pool
  <2> QED BY <1>1, <2>1 DEF Sorted, Discovered
<1>9. AllReports
  BY <1>1 DEF AllReports, Reports, Due
<1> QED BY <1>4, <1>5, <1>7, <1>8, <1>9 DEF OutcomeInv, PlaceInv

LEMMA OutcomeInvariant == Spec => [](IInv /\ ProtocolInv /\ OutcomeInv)
<1>1. Init => OutcomeInv
  BY InitOutcome
<1>2. IInv /\ ProtocolInv /\ OutcomeInv /\ [Next]_vars => OutcomeInv'
  BY NextOutcome DEF IInv
<1> QED BY <1>1, <1>2, ProtocolInvariant, PTL DEF Spec

-----------------------------------------------------------------------------
(* The theorems.                                                           *)

LEMMA AtMostOne ==
  ASSUME NEW S, \A x, y \in S : x = y
  PROVE  Cardinality(S) = IF S = {} THEN 0 ELSE 1
<1>1. CASE S = {}
  BY <1>1, FS_EmptySet
<1>2. CASE S # {}
  <2>1. PICK x \in S : S = {x}
    BY <1>2
  <2> QED BY <1>2, <2>1, FS_Singleton
<1> QED BY <1>1, <1>2

(* No attribute path is lost and none is evaluated for the report twice,   *)
(* however workers are killed, restarted and retried, whatever fails: a    *)
(* path that was met is in one of todo, solo, a slot and the answered, and *)
(* in that one once; nothing is printed before it is answered, nor twice.  *)
THEOREM NothingIsLostOrDoubled == Spec => []NothingLostOrDoubled
<1>1. IInv /\ OutcomeInv => NothingLostOrDoubled
  <2> SUFFICES ASSUME IInv, OutcomeInv, InLoop \/ pc = "finish", NEW p \in Path
               PROVE  /\ Places(p) = IF Discovered(p) THEN 1 ELSE 0
                      /\ printed[p] <= IF p \in answered THEN 1 ELSE 0
    BY DEF NothingLostOrDoubled
  <2>1. TypeInv /\ Apart /\ Sorted /\ AllReports
    BY DEF IInv, OutcomeInv, PlaceInv, Course, After, InLoop
  <2>2. printed[p] <= IF p \in answered THEN 1 ELSE 0
    <3>1. Reports(p) /\ printed[p] \in Nat
      BY <2>1, OutputTypes DEF AllReports
    <3> QED BY <3>1 DEF Reports, Due
  <2> DEFINE S1 == {i \in DOMAIN solo : solo[i] = p}
             S2 == {w \in Running : attrPath[w] = p}
             S3 == {s \in {"todo", "answered"} :
                      p \in IF s = "todo" THEN todo ELSE answered}
  <2>3. Cardinality(S1) = IF p \in Range(solo) THEN 1 ELSE 0
    <3>1. \A i, j \in S1 : i = j
      BY <2>1 DEF Apart, IsInjective
    <3>2. S1 = {} <=> p \notin Range(solo)
      BY DEF Range
    <3> HIDE DEF S1
    <3> QED BY <3>1, <3>2, AtMostOne
  <2>4. Cardinality(S2) = IF p \in Held THEN 1 ELSE 0
    <3>1. \A v, w \in S2 : v = w
      BY <2>1 DEF Apart
    <3>2. S2 = {} <=> p \notin Held
      BY DEF Held
    <3> HIDE DEF S2
    <3> QED BY <3>1, <3>2, AtMostOne
  <2>5. Cardinality(S3) = IF p \in todo \cup answered THEN 1 ELSE 0
    <3>1. \A s, r \in S3 : s = r
      BY <2>1 DEF Sorted, Pool
    <3>2. S3 = {} <=> p \notin todo \cup answered
      <4>1. "todo" \in S3 <=> p \in todo
        OBVIOUS
      <4>2. "answered" \in S3 <=> p \in answered
        OBVIOUS
      <4>3. S3 \subseteq {"todo", "answered"}
        OBVIOUS
      <4> HIDE DEF S3
      <4> QED BY <4>1, <4>2, <4>3
    <3> HIDE DEF S3
    <3> QED BY <3>1, <3>2, AtMostOne
  <2>6. Places(p) = Cardinality(S1) + Cardinality(S2) + Cardinality(S3)
    BY DEF Places
  <2> HIDE DEF S1, S2, S3
  <2>7. Discovered(p) <=> p \in todo \cup Range(solo) \cup Held \cup answered
    BY <2>1 DEF Sorted, Pool
  <2>8. /\ ~(p \in todo /\ p \in Range(solo)) /\ ~(p \in todo /\ p \in Held)
        /\ ~(p \in Range(solo) /\ p \in Held)
        /\ ~(p \in answered /\ p \in todo \cup Range(solo) \cup Held)
    BY <2>1 DEF Apart, Sorted, Pool
  <2>9. Places(p) = IF Discovered(p) THEN 1 ELSE 0
    BY <2>3, <2>4, <2>5, <2>6, <2>7, <2>8
  <2> QED BY <2>2, <2>9
<1> QED BY <1>1, OutcomeInvariant, PTL

(* Every job that was pushed to the resolver has been emitted or is in the *)
(* thread's hands, unless the thread failed or was told to discard them.   *)
THEOREM NoPushIsLost == Spec => []PushedNotLost
<1>1. OutcomeInv => PushedNotLost
  BY DEF OutcomeInv
<1> QED BY <1>1, OutcomeInvariant, PTL

(* Exit status 0 is a promise: the whole tree has been evaluated, every    *)
(* path that is not a listing has had its one line, nothing fatal was met  *)
(* by the event loop or by the thread, and no process is left.             *)
THEOREM ExitIsAPromise == Spec => []ExitOk
<1>1. IInv /\ OutcomeInv => ExitOk
  <2> SUFFICES ASSUME IInv, OutcomeInv, pc = "exit0"
               PROVE  /\ \A p \in Path :
                           /\ Discovered(p) <=> p \in answered
                           /\ printed[p] = IF p \in answered
                                 /\ ~(IsListing(p) /\ jobs[p] = "absent")
                                           THEN 1 ELSE 0
                           /\ jobs[p] # "fatal"
                      /\ ~exc
                      /\ Alive = {}
    BY DEF ExitOk
  <2>1. Sorted /\ AllReports /\ ~exc /\ ~aborted /\ rpc = "exited"
    BY DEF OutcomeInv, PlaceInv, Course, After, ThreadInv
  <2>2. Finished /\ Alive = {}
    BY DEF OutcomeInv, EndInv, After
  <2>3. Pool = {}
    BY <2>2, PathsEmpty DEF Finished, Pool, Held
  <2>4. CheckCacheStatus => InResolver = {}
    BY <2>1, PathsEmpty DEF OutcomeInv, ThreadInv, InResolver
  <2>5. ASSUME NEW p \in Path
        PROVE  /\ Discovered(p) <=> p \in answered
               /\ printed[p] = IF p \in answered
                                  /\ ~(IsListing(p) /\ jobs[p] = "absent")
                               THEN 1 ELSE 0
               /\ jobs[p] # "fatal"
    <3>1. Discovered(p) <=> p \in answered
      BY <2>1, <2>3 DEF Sorted
    <3>2. Reports(p) /\ printed[p] = Due(p)
      BY <2>1 DEF AllReports, Reports
    <3>3. p \in answered /\ jobs[p] = "absent" => IsListing(p)
      BY <2>1, <2>4, <3>2 DEF Reports, OutcomeInv, PushedNotLost
    <3> QED BY <3>1, <3>2, <3>3 DEF Reports, Due
  <2> QED BY <2>1, <2>2, <2>5
<1> QED BY <1>1, OutcomeInvariant, PTL

(* The steps of a run that fails, or has failed, answer nothing. *)
LEMMA FailingAnswersNothing ==
  ASSUME TypeInv, OutcomeInv, [Next]_vars, ~Course'
  PROVE  answered' = answered /\ pc # "exit0"
<1>1. CASE SchedulerStep
  BY <1>1, SchedulerLeavesThread, ThrowKeepsQueues
     DEF OutcomeInv, Queues, Course, After, LoopPc
<1>2. CASE MainStep
  BY <1>2 DEF MainStep, FinishClose, FinishNotify, FinishJoin, Constituents,
     ConstituentsThrow, UnwindClose, UnwindDiscard, UnwindJoin, MainGoes,
     queueVars
<1>3. CASE CollectorDies
  BY <1>3 DEF CollectorDies, Exited, queueVars
<1>4. CASE \/ \E w \in Worker : ProgramOf(w) \/ KernelOf(w)
           \/ Thread \/ ThreadFails \/ StdoutCloses \/ UNCHANGED vars
  BY <1>4, OthersLeaveAlone DEF Course, After, schedulerVars, queueVars, vars
<1> QED BY <1>1, <1>2, <1>3, <1>4 DEF Next, Collector, Terminated

(* Exit status 0 comes after handleConstituents, and is final. *)
LEMMA SuccessSteps ==
  ASSUME [Next]_vars
  PROVE  /\ pc' = "exit0" /\ pc # "exit0" => pc = "constituents"
         /\ pc = "exit0" => pc' = "exit0"
<1>1. CASE SchedulerStep
  BY <1>1, SchedulerLeavesThread DEF LoopPc
<1>2. CASE MainStep
  BY <1>2 DEF MainStep, FinishClose, FinishNotify, FinishJoin, AfterJoin,
     Constituents, ConstituentsThrow, UnwindClose, UnwindDiscard, UnwindJoin,
     MainGoes
<1>3. CASE CollectorDies
  BY <1>3 DEF CollectorDies, Exited
<1>4. CASE \/ \E w \in Worker : ProgramOf(w) \/ KernelOf(w)
           \/ Thread \/ ThreadFails \/ StdoutCloses \/ UNCHANGED vars
  BY <1>4, OthersLeaveAlone DEF schedulerVars, vars
<1> QED BY <1>1, <1>2, <1>3, <1>4 DEF Next, Collector, Terminated

(* Each step of the program is one of the traversal's, or none of them.    *)
LEMMA StepsWalk ==
  ASSUME TypeInv, TypeInv', SlotInv, ProtocolInv, OutcomeInv, [Next]_vars
  PROVE  [Abstract!TraversalNext]_(Abstract!traversalVars)
<1>1. /\ pc \in Failing <=> ~Course
      /\ pc' \in Failing <=> ~Course'
  BY DEF TypeInv, PcOK, Course, After, LoopPc, MainPc, Failing
<1>2. Course => Pending = Pool
  BY <1>1 DEF Pending, Pool, Held
<1>3. Course' => Pending' = Pool'
  BY <1>1 DEF Pending, Pool, Held
<1>4. CASE Course'
  <2>1. /\ Course /\ Walks /\ Pending = Pool /\ Pending' = Pool'
        /\ Outcome = IF pc = "exit0" THEN "success" ELSE "running"
        /\ Outcome' = IF pc' = "exit0" THEN "success" ELSE "running"
    BY <1>1, <1>2, <1>3, <1>4, NextPlaces DEF Outcome
  <2>2. pc \in After => Pool = {}
    BY PathsEmpty DEF OutcomeInv, EndInv, Finished, Pool, Held
  <2>3. CASE pc' # "exit0"
    <3>1. pc # "exit0"
      BY <2>3, SuccessSteps
    <3>2. CASE Stays
      BY <2>1, <2>3, <3>1, <3>2 DEF Stays, Abstract!traversalVars
    <3>3. ASSUME NEW p \in Path, Settles(p) PROVE Abstract!Report(p)
      BY <2>1, <2>3, <3>1, <3>3 DEF Settles, Abstract!Report
    <3>4. ASSUME NEW p \in Path, IsListing(p), Lists(p) PROVE Abstract!List(p)
      BY <2>1, <2>3, <3>1, <3>4
         DEF Lists, Abstract!List, IsListing, Abstract!IsListing, ChildPaths,
             Abstract!ChildPaths
    <3> QED BY <2>1, <3>2, <3>3, <3>4 DEF Walks, Abstract!TraversalNext
  <2>4. CASE pc' = "exit0"
    <3>1. pc \in {"constituents", "exit0"}
      BY <2>4, SuccessSteps
    <3>2. Pool = {} /\ Stays
      BY <2>1, <2>2, <3>1 DEF After, Walks, Settles, Lists
    <3>3. CASE pc = "exit0"
      BY <2>1, <2>4, <3>2, <3>3 DEF Stays, Abstract!traversalVars
    <3>4. CASE pc = "constituents"
      BY <2>1, <2>4, <3>2, <3>4
         DEF Stays, Abstract!Succeed, Abstract!TraversalNext
    <3> QED BY <3>1, <3>3, <3>4
  <2> QED BY <2>3, <2>4
<1>5. CASE ~Course'
  <2>1. /\ answered' = answered /\ pc # "exit0"
        /\ pc' \in Failing /\ Pending' = {} /\ Outcome' = "failure"
    BY <1>1, <1>5, FailingAnswersNothing DEF Pending, Outcome, Failing
  <2>2. CASE Course
    <3>1. Outcome = "running"
      BY <1>1, <2>1, <2>2 DEF Outcome
    <3> QED BY <2>1, <3>1 DEF Abstract!Fail, Abstract!TraversalNext
  <2>3. CASE ~Course
    <3>1. Pending = {} /\ Outcome = "failure"
      BY <1>1, <2>3 DEF Pending, Outcome, Failing
    <3> QED BY <2>1, <3>1 DEF Abstract!traversalVars
  <2> QED BY <2>2, <2>3
<1> QED BY <1>4, <1>5

(* Refinement, but for its liveness: seen from outside, the collector with *)
(* all its processes and threads does nothing but walk the tree as module  *)
(* Traversal does: kills, restarts and retries are stutters, and it can    *)
(* only succeed when nothing is pending.                                   *)
THEOREM WalksTheTree == Spec => Abstract!TraversalSafety
<1>1. Init => Abstract!TraversalInit
  <2> SUFFICES ASSUME Init PROVE Abstract!TraversalInit
    OBVIOUS
  <2>1. /\ pc = "top" /\ todo = {Root} /\ solo = <<>> /\ answered = {}
        /\ phase = [w \in Worker |-> "None"]
    BY DEF Init, SchedulerInit
  <2>2. Running = {}
    BY <2>1 DEF Running, InPhase
  <2> QED BY <2>1, <2>2, PathsEmpty
          DEF Abstract!TraversalInit, Pending, Outcome, Failing, Root,
              Abstract!Root
<1>2. /\ IInv /\ ProtocolInv /\ OutcomeInv /\ (IInv)' /\ [Next]_vars
      => [Abstract!TraversalNext]_(Abstract!traversalVars)
  BY StepsWalk DEF IInv
<1> QED BY <1>1, <1>2, OutcomeInvariant, PTL DEF Spec, Abstract!TraversalSafety
-----------------------------------------------------------------------------
(* Why a job is given up.                                                  *)

(* Nothing ends a worker but the budget and its own program. *)
Undisturbed == "escapes" \notin Faults /\ oomKills = 0

(* A job that does not fit, even alone with the collector. *)
Huge(p) == CollectorRss + BaseRss + Cost[p] > Budget

(* A process that is found killed was killed for the budget, and one that  *)
(* was killed for it in Solo evaluates a job that does not fit.            *)
HugeSlot(w) ==
  /\ proc[w] = "none" => heap[w] = 0
  /\ proc[w] = "closing" => wpc[w] = "init"
  /\ InLoop /\ proc[w] \in {"dying", "killed"} => phase[w] = "Killed"
  /\ InLoop /\ mode = "Solo" /\ phase[w] = "Killed" => Huge(attrPath[w])

HugeSlots   == \A w \in Worker : HugeSlot(w)
HugeVictim  == pc = "kill" /\ mode = "Solo" => Huge(attrPath[victim])
HugeReports == \A p \in Path : jobs[p] = "memory" => Huge(p)

HugeInv == Undisturbed => HugeSlots /\ HugeVictim /\ HugeReports

(* A step that does not kill the process of slot w, nor end it.            *)
Alike(w) ==
  /\ proc'[w] = proc[w] /\ wpc'[w] = wpc[w] /\ heap'[w] = heap[w]
  /\ InLoop' => InLoop
  /\ InLoop' /\ mode' = "Solo" => mode = "Solo"
  /\ \/ phase'[w] = phase[w] /\ attrPath'[w] = attrPath[w]
     \/ phase[w] # "Killed" /\ phase'[w] # "Killed"

(* A step that destroys, or replaces, it.                                  *)
Renewed(w) ==
  /\ phase'[w] # "Killed" /\ proc'[w] \in {"none", "running"} /\ heap'[w] = 0

LEMMA HugeSlotKept ==
  ASSUME NEW w, Alike(w) \/ Renewed(w), HugeSlot(w)
  PROVE  HugeSlot(w)'
<1>1. CASE Alike(w)
  BY <1>1 DEF Alike, HugeSlot, Huge, Budget
<1>2. CASE Renewed(w)
  BY <1>2 DEF Renewed, HugeSlot
<1> QED BY <1>1, <1>2

LEMMA ResetSlots ==
  ASSUME NEW ws, ResetWorkers(ws), NEW w \in Worker,
         InLoop' => InLoop,
         InLoop' /\ mode' = "Solo" => mode = "Solo" \/ w \in ws
  PROVE  Alike(w) \/ Renewed(w)
  BY DEF ResetWorkers, DestroyAll, Alike, Renewed

(* The event loop, but for the kill. *)
LEMMA HugeSlotsKept ==
  ASSUME TypeInv, SchedulerStep, ~KillVictim, NEW w \in Worker
  PROVE  Alike(w) \/ Renewed(w)
<1>0. /\ phase \in [Worker -> Phase] /\ proc \in [Worker -> ProcState]
      /\ attrPath \in [Worker -> Path \cup {NoPath}]
      /\ wpc \in [Worker -> {"none", "config", "init", "next", "command",
                             "eval", "restart", "return"}]
      /\ heap \in [Worker -> Nat]
  BY DEF TypeInv, SlotOK, SlotTypeOK, ProcInv, ProcTypeOK
<1>a. InLoop' => InLoop
  BY SchedulerLeavesThread DEF InLoop, LoopPc
<1> USE DEF workerVars, procVars, slotVars, queueVars
<1>1. CASE LoopExit \/ Interrupt \/ BeginDispatch
  BY <1>a, <1>1 DEF LoopExit, Interrupt, JustThrow, BeginDispatch, Alike
<1>2. CASE BeginSolo
  BY <1>a, <1>2, ResetSlots DEF BeginSolo, SlotsDroppedForSolo
<1>3. CASE DispatchExit
  BY <1>0, <1>a, <1>3 DEF DispatchExit, IsFree, Alike
<1>4. CASE DispatchSolo \/ DispatchTodo
  BY <1>0, <1>a, <1>4 DEF DispatchSolo, DispatchTodo, HandOut, IsFree, Alike
<1>5. CASE DispatchSpawn
  BY <1>0, <1>a, <1>5 DEF DispatchSpawn, Spawn, Alike, Renewed
<1>6. CASE SpawnThrows \/ DispatchNothing
  BY <1>a, <1>6 DEF SpawnThrows, JustThrow, DispatchNothing, Alike
<1>7. CASE SendFailed \/ EofAfterLines
  <2>1. \/ ResetWorkers({cur}) /\ (mode' = "Solo" => mode = "Solo")
        \/ UNCHANGED <<proc, wpc, heap, phase, attrPath, mode>>
    BY <1>7 DEF SendFailed, EofAfterLines, OnEof, OnKilled, LeaveSolo
  <2> QED BY <1>a, <2>1, ResetSlots DEF Alike
<1>8. CASE Poll \/ SampleMemory \/ EndPoll \/ Fill
  BY <1>a, <1>8 DEF Poll, SampleMemory, EndPoll, Fill, Alike
<1>9. CASE LineNext \/ LineUnexpected \/ LineIgnored \/ EndLines
  BY <1>0, <1>a, <1>9
     DEF LineNext, LineIs, LineUnexpected, JustThrow, LineIgnored, EndLines,
         Alike
<1>10. CASE LineRestart
  BY <1>a, <1>10, ResetSlots DEF LineRestart
<1>11. CASE ResponseAttrs \/ ResponseJobPushed \/ ResponseEmitted
            \/ ResponseThrows
  BY <1>0, <1>a, <1>11
     DEF ResponseAttrs, ResponseJobPushed, ResponseEmitted, ResponseThrows,
         JobFinished, LeaveSolo, LineIs, Alike
<1>12. CASE DestroyScheduler
  BY <1>a, <1>12, ResetSlots DEF DestroyScheduler
<1> QED BY <1>1, <1>2, <1>3, <1>4, <1>5, <1>6, <1>7, <1>8, <1>9, <1>10,
           <1>11, <1>12
        DEF SchedulerStep, Dispatch, PollWorkers, OnLine

(* The worker processes and the kernel.                                    *)
LEMMA ProcessesHuge ==
  ASSUME TypeInv, SlotInv, Undisturbed, Undisturbed', HugeSlots,
         NEW w \in Worker, ProgramOf(w) \/ KernelOf(w)
  PROVE  HugeSlots'
<1>0. /\ proc \in [Worker -> ProcState]
      /\ wpc \in [Worker -> {"none", "config", "init", "next", "command",
                             "eval", "restart", "return"}]
      /\ heap \in [Worker -> Nat] /\ oomKills \in Nat
  BY DEF TypeInv, ProcInv, ProcTypeOK, EnvOK
<1>1. UNCHANGED <<phase, attrPath, mode, pc>>
  BY OthersLeaveAlone DEF schedulerVars, slotVars, queueVars
<1>2. WorkerProgram(w) \/ Kernel(w)
  BY DEF ProgramOf, KernelOf
<1>3. ASSUME NEW v \in Worker, v # w PROVE Alike(v)
  BY <1>0, <1>1, <1>2, <1>3
     DEF WorkerProgram, ReadConfig, InitRoot, InitRootFails, SendNext,
         ReadJob, ReadExit, ReadEof, Respond, SendRestart, Exit, ExitUnwound,
         WriteLine, GoTo, Kernel, Reap, OomKill, Unwind, Crash, SigKill,
         InLoop, Alike
<1>4. HugeSlot(w)'
  <2>1. HugeSlot(w)
    BY DEF HugeSlots
  <2>2. CASE WorkerProgram(w)
    BY <1>0, <1>1, <2>1, <2>2
       DEF WorkerProgram, ReadConfig, InitRoot, InitRootFails, SendNext,
           ReadJob, ReadExit, ReadEof, Respond, SendRestart, Exit,
           ExitUnwound, WriteLine, GoTo, At, InLoop, HugeSlot, Huge, Budget,
           ProcState, Dead
  <2>3. CASE Kernel(w)
    <3>1. ~OomKill(w)
      BY <1>0 DEF OomKill, Undisturbed
    <3> QED BY <1>0, <1>1, <2>1, <2>3, <3>1
            DEF Kernel, Reap, Unwind, Crash, At, InLoop, HugeSlot, Huge,
                Budget, Undisturbed
  <2> QED BY <1>2, <2>2, <2>3
<1> QED BY <1>3, <1>4, HugeSlotKept DEF HugeSlots

(* The victim that is picked in Solo: it is alone with the collector.      *)
LEMMA VictimIsHuge ==
  ASSUME TypeInv, SlotInv, SoloInv, ProtocolInv, HugeSlots, SampleMemory,
         pc' = "kill", mode' = "Solo"
  PROVE  Huge(attrPath[victim])'
<1>0. /\ heap \in [Worker -> Nat] /\ BaseRss \in Nat /\ CollectorRss \in Nat
      /\ Budget \in Nat /\ IsFiniteSet(Worker)
  BY WorkersAssumption, WorkerLimitAssumption, EstimateAssumption, SlotsFinite
     DEF TypeInv, ProcInv, ProcTypeOK, WorkersAssumption,
         WorkerLimitAssumption, EstimateAssumption, Budget
<1>1. /\ InLoop /\ mode = "Solo" /\ UNCHANGED <<phase, attrPath>>
      /\ rss' = [w \in Worker |-> heap[w]]
  BY DEF SampleMemory, InLoop, LoopPc, ResidentMemory
<1>2. PICK v \in Worker : /\ phase[v] = "Busy" /\ victim' = v
                          /\ CollectorRss + SumFunction(rss') > Budget
  BY DEF SampleMemory, IsVictim, Total
<1>3. attrPath[v] \in Path /\ Cost[attrPath[v]] \in Nat
  BY <1>2, WorkersAssumption
     DEF TypeInv, SlotOK, HeldOK, Running, InPhase, WorkersAssumption
<1>4. proc[v] # "none" /\ heap[v] <= BaseRss + Cost[attrPath[v]]
  BY <1>1, <1>2 DEF SlotInv, ProtocolInv, AllFresh, Fresh
<1>5. \A w \in Worker : w # v => heap[w] = 0
  BY <1>1, <1>4 DEF SoloInv, Alive, HugeSlots, HugeSlot
<1>6. SumFunction(rss') = rss'[v]
  <2>1. rss' \in [Worker -> Nat] /\ \A w \in Worker : w # v => rss'[w] = 0
    BY <1>0, <1>1, <1>5
  <2> QED BY <1>0, <2>1, SumOfOne
<1>7. CollectorRss + heap[v] > Budget /\ heap[v] \in Nat
  BY <1>0, <1>1, <1>2, <1>6
<1>8. CollectorRss + BaseRss + Cost[attrPath[v]] > Budget
  BY <1>0, <1>3, <1>4, <1>7
<1>9. victim' = v /\ attrPath' = attrPath
  BY <1>1, <1>2
<1> QED BY <1>8, <1>9 DEF Huge, Budget

(* A job that is given up is one that does not fit. *)
LEMMA GivenUpIsHuge ==
  ASSUME TypeInv, ProtocolInv, Undisturbed, HugeSlots, InLoop,
         NEW w \in Worker, GivesUp(w), EndsAsKilled(w)
  PROVE  Huge(attrPath[w])
<1>1. HugeSlot(w) /\ Agreed(w) /\ mode = "Solo" /\ phase[w] \in {"Busy", "Killed"}
  BY DEF HugeSlots, ProtocolInv, AllAgreed, GivesUp, Running, InPhase
<1>2. CASE phase[w] = "Killed"
  BY <1>1, <1>2 DEF HugeSlot
<1>3. CASE phase[w] = "Busy"
  <2>1. proc[w] = "closing" /\ wpc[w] = "init"
    BY <1>1, <1>3 DEF EndsAsKilled, HugeSlot
  <2> QED BY <1>1, <1>3, <2>1 DEF Agreed, BusyAgreed
<1> QED BY <1>1, <1>2, <1>3

(* What the event loop reports. *)
LEMMA LoopReports ==
  ASSUME TypeInv, ProtocolInv, Undisturbed, HugeSlots, HugeReports,
         SchedulerStep
  PROVE  HugeReports'
<1>0. jobs \in [Path -> Reported \cup {"absent"}]
  BY OutputTypes
<1>1. CASE SendFailed \/ EofAfterLines
  <2>1. /\ InLoop /\ cur \in Worker
        /\ \/ UNCHANGED jobs
           \/ /\ GivesUp(cur) /\ EndsAsKilled(cur)
              /\ jobs' = [jobs EXCEPT ![attrPath[cur]] = "memory"]
    BY <1>1 DEF SendFailed, EofAfterLines, OnEof, OnKilled, EmitResponse,
                outputVars, InLoop, LoopPc, TypeInv, LocalTypeOK
  <2>2. CASE UNCHANGED jobs
    BY <2>2 DEF HugeReports, Huge, Budget
  <2>3. CASE /\ GivesUp(cur) /\ EndsAsKilled(cur)
             /\ jobs' = [jobs EXCEPT ![attrPath[cur]] = "memory"]
    <3>1. Huge(attrPath[cur])
      BY <2>1, <2>3, GivenUpIsHuge
    <3>2. \A p \in Path : p # attrPath[cur] => jobs'[p] = jobs[p]
      BY <1>0, <2>3
    <3> QED BY <3>1, <3>2 DEF HugeReports, Huge, Budget
  <2> QED BY <2>1, <2>2, <2>3
<1>2. CASE ResponseEmitted \/ ResponseThrows
  <2> DEFINE p == Head(lines).attrPath
  <2>1. jobs' = [jobs EXCEPT ![p] = Kind[p]] /\ LineIs("Busy", "response")
    BY <1>2 DEF ResponseEmitted, ResponseThrows, EmitResponse
  <2>2. p \in Path => Kind[p] # "memory"
    BY TreeFacts DEF PayloadKind
  <2>3. \A q \in Path : jobs'[q] = "memory" => jobs[q] = "memory"
    BY <1>0, <2>1, <2>2
  <2> QED BY <2>3 DEF HugeReports, Huge, Budget
<1>3. CASE ~(SendFailed \/ EofAfterLines \/ ResponseEmitted \/ ResponseThrows)
  <2>1. UNCHANGED jobs
    BY <1>3
       DEF SchedulerStep, LoopExit, Interrupt, JustThrow, BeginSolo,
           BeginDispatch, Dispatch, DispatchExit, DispatchSolo, DispatchTodo,
           HandOut, DispatchSpawn, SpawnThrows, DispatchNothing, PollWorkers,
           Poll, SampleMemory, KillVictim, EndPoll, Fill, OnLine, LineNext,
           LineRestart, LineUnexpected, LineIgnored, ResponseAttrs,
           ResponseJobPushed, EndLines, DestroyScheduler, outputVars
  <2> QED BY <2>1 DEF HugeReports, Huge, Budget
<1> QED BY <1>1, <1>2, <1>3

LEMMA SchedulerHuge ==
  ASSUME IInv, ProtocolInv, Undisturbed, HugeSlots, HugeVictim, HugeReports,
         SchedulerStep
  PROVE  HugeSlots' /\ HugeVictim' /\ HugeReports'
<1>0. TypeInv /\ SlotInv /\ SoloInv
  BY DEF IInv
<1>1. HugeReports'
  BY <1>0, LoopReports
<1>2. CASE KillVictim
  <2>1. /\ proc \in [Worker -> ProcState] /\ phase \in [Worker -> Phase]
        /\ victim \in Worker /\ pc = "kill" /\ pc' = "read"
        /\ InLoop /\ UNCHANGED <<wpc, heap, attrPath, mode>>
    BY <1>0, <1>2 DEF TypeInv, ProcInv, ProcTypeOK, SlotOK, SlotTypeOK,
                      LocalTypeOK, KillVictim, InLoop, LoopPc, queueVars
  <2>2. ASSUME NEW w \in Worker, w # victim PROVE Alike(w)
    BY <1>2, <2>1, <2>2 DEF KillVictim, SigKill, Alike
  <2>3. HugeSlot(victim)'
    <3>1. phase'[victim] = "Killed"
      BY <1>2, <2>1 DEF KillVictim
    <3>2. proc'[victim] \in {"none", "closing"} => proc'[victim] = proc[victim]
                                                /\ proc[victim] # "closing"
      BY <1>2, <2>1 DEF KillVictim, SigKill
    <3>3. mode = "Solo" => Huge(attrPath[victim])
      BY <2>1 DEF HugeVictim
    <3>4. HugeSlot(victim)
      BY <2>1 DEF HugeSlots
    <3>5. UNCHANGED victim
      BY <1>2 DEF KillVictim, localVars
    <3> QED BY <2>1, <3>1, <3>2, <3>3, <3>4, <3>5 DEF HugeSlot, Huge, Budget
  <2>4. UNCHANGED victim
    BY <1>2 DEF KillVictim, localVars
  <2>5. HugeSlots'
    BY <2>2, <2>3, <2>4, HugeSlotKept DEF HugeSlots
  <2> QED BY <1>1, <2>1, <2>5 DEF HugeVictim
<1>3. CASE ~KillVictim
  <2>1. HugeSlots'
    BY <1>0, <1>3, HugeSlotsKept, HugeSlotKept DEF HugeSlots
  <2>2. CASE SampleMemory
    BY <1>0, <1>1, <2>1, <2>2, VictimIsHuge DEF HugeVictim
  <2>3. CASE ~SampleMemory
    <3>1. pc' # "kill"
      BY <1>3, <2>3
         DEF SchedulerStep, LoopExit, Interrupt, JustThrow, Throw, BeginSolo,
             BeginDispatch, Dispatch, DispatchExit, DispatchSolo,
             DispatchTodo, HandOut, NextSlot, DispatchSpawn, SpawnThrows,
             DispatchNothing, SendFailed, OnEof, PollWorkers, Poll, EndPoll,
             Fill, OnLine, LineNext, LineIs, LineRestart, LineUnexpected,
             LineIgnored, ResponseAttrs, ResponseJobPushed, ResponseEmitted,
             ResponseThrows, EndLines, EofAfterLines, DestroyScheduler
    <3> QED BY <1>1, <2>1, <3>1 DEF HugeVictim
  <2> QED BY <2>2, <2>3
<1> QED BY <1>2, <1>3

LEMMA NextHuge ==
  ASSUME IInv, ProtocolInv, HugeInv, [Next]_vars
  PROVE  HugeInv'
<1>0. /\ jobs \in [Path -> Reported \cup {"absent"}] /\ oomKills \in Nat
      /\ TypeInv /\ SlotInv
  BY OutputTypes DEF IInv, TypeInv, EnvOK
<1>1. CASE SchedulerStep
  <2>1. UNCHANGED oomKills
    BY <1>1
       DEF SchedulerStep, LoopExit, Interrupt, JustThrow, BeginSolo,
           BeginDispatch, Dispatch, DispatchExit, DispatchSolo, DispatchTodo,
           HandOut, DispatchSpawn, SpawnThrows, DispatchNothing, SendFailed,
           PollWorkers, Poll, SampleMemory, KillVictim, EndPoll, Fill, OnLine,
           LineNext, LineRestart, LineUnexpected, LineIgnored, ResponseAttrs,
           ResponseJobPushed, ResponseEmitted, ResponseThrows, EndLines,
           EofAfterLines, DestroyScheduler, workerVars
  <2> QED BY <1>1, <2>1, SchedulerHuge DEF HugeInv, Undisturbed
<1>2. CASE \E w \in Worker : ProgramOf(w) \/ KernelOf(w)
  <2>1. PICK w \in Worker : ProgramOf(w) \/ KernelOf(w)
    BY <1>2
  <2>2. UNCHANGED <<mode, pc, attrPath, victim, jobs>>
    BY <2>1, OthersLeaveAlone
       DEF schedulerVars, queueVars, slotVars, localVars, outputVars
  <2>3. oomKills' = 0 => oomKills = 0
    BY <1>0, <2>1
       DEF ProgramOf, KernelOf, WorkerProgram, ReadConfig, InitRoot,
           InitRootFails, SendNext, ReadJob, ReadExit, ReadEof, Respond,
           SendRestart, Exit, ExitUnwound, Kernel, Reap, OomKill, Unwind,
           Crash
  <2>4. Undisturbed' => HugeSlots'
    BY <1>0, <2>1, <2>3, ProcessesHuge DEF HugeInv, Undisturbed
  <2> QED BY <2>2, <2>3, <2>4 DEF HugeInv, Undisturbed, HugeVictim,
                                  HugeReports, Huge, Budget
<1>3. ASSUME UNCHANGED <<proc, wpc, heap, phase, attrPath, mode, victim,
                         oomKills>>,
             InLoop' => InLoop, pc' = "kill" => pc = "kill",
             \A p \in Path : jobs'[p] = "memory" => jobs[p] = "memory"
      PROVE  HugeInv'
  <2>1. \A w \in Worker : Alike(w)
    BY <1>3 DEF Alike
  <2>2. Undisturbed' => HugeSlots' /\ Undisturbed
    BY <1>3, <2>1, HugeSlotKept DEF HugeSlots, HugeInv, Undisturbed
  <2> QED BY <1>3, <2>2 DEF HugeInv, HugeVictim, HugeReports, Huge, Budget
<1>4. CASE MainStep \/ CollectorDies
  <2>1. /\ UNCHANGED <<proc, wpc, heap, phase, attrPath, mode, victim,
                       oomKills, jobs>>
        /\ pc' \in MainPc
    BY <1>4 DEF MainStep, FinishClose, FinishNotify, FinishJoin, AfterJoin,
       Constituents, EmitAggregates, ConstituentsThrow, UnwindClose,
       UnwindDiscard, UnwindJoin, MainGoes, CollectorDies, MainPc, workerVars,
       procVars, slotVars, queueVars, localVars, outputVars
  <2> QED BY <1>3, <2>1 DEF InLoop, LoopPc, MainPc
<1>5. CASE Thread \/ ThreadFails
  <2>1. UNCHANGED <<workerVars, schedulerVars>>
    BY <1>5, OthersLeaveAlone
  <2>2. \/ UNCHANGED jobs
        \/ \E p \in Path : jobs' = [jobs EXCEPT ![p] = Kind[p]]
    <3>1. ResolverTypeOK
      BY <1>0 DEF TypeInv
    <3>2. CASE ResolveJob
      <4>1. Head(batch) \in Path
        BY <3>1, <3>2, JobSeqs, JobPathKind DEF ResolveJob, ResolverTypeOK
      <4> QED BY <3>2, <4>1 DEF ResolveJob, EmitResponse
    <3> QED BY <1>5, <3>2
            DEF Thread, ThreadFails, ResolverProgram, WaitInbox, FirstTake,
                TakeLate, TakeInbox, BeginRound, PostponeJob, EndPass,
                ResolveWanted, StoreThrows, ThreadInterrupted, outputVars
  <2>3. \A p \in Path : Kind[p] # "memory"
    BY TreeFacts DEF PayloadKind
  <2>4. \A p \in Path : jobs'[p] = "memory" => jobs[p] = "memory"
    BY <1>0, <2>2, <2>3
  <2> QED BY <1>3, <2>1, <2>4
          DEF workerVars, procVars, schedulerVars, slotVars, queueVars,
              localVars, InLoop
<1>6. CASE StdoutCloses \/ UNCHANGED vars
  BY <1>3, <1>6, OthersLeaveAlone
     DEF vars, workerVars, procVars, schedulerVars, slotVars, queueVars,
         localVars, outputVars, InLoop
<1> QED BY <1>1, <1>2, <1>4, <1>5, <1>6 DEF Next, Collector, Terminated

LEMMA InitHuge == Init => HugeInv
  BY DEF Init, WorkerInit, ProcInit, SchedulerInit, OutputInit, HugeInv,
         HugeSlots, HugeSlot, HugeVictim, HugeReports

(* A job is given up only when it could never have run.  As long as the    *)
(* kernel kills no worker and no exception leaves one, the error that      *)
(* onKilled makes up is reported only for a job that exceeds the whole     *)
(* budget alone with the collector: a job that is killed next to others,   *)
(* or by mistake, gets its retry in Solo, and survives it if it can.       *)
THEOREM OnlyHugeJobsAreGivenUp == Spec => []GivesUpOnlyHugeJobs
<1>1. HugeInv => GivesUpOnlyHugeJobs
  BY DEF HugeInv, Undisturbed, HugeReports, Huge, GivesUpOnlyHugeJobs
<1>2. Init => HugeInv
  BY InitHuge
<1>3. IInv /\ ProtocolInv /\ HugeInv /\ [Next]_vars => HugeInv'
  BY NextHuge
<1> QED BY <1>1, <1>2, <1>3, ProtocolInvariant, PTL DEF Spec
=============================================================================
