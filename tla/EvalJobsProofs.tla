--------------------------- MODULE EvalJobsProofs ---------------------------
(***************************************************************************)
(* Proofs about EvalJobs, for any number of workers, any expression, any   *)
(* cost of its attributes and any set of faults: first the slots, the      *)
(* processes and the signals, then the protocol on the pipes.              *)
(***************************************************************************)
EXTENDS EvalJobs, SequenceLemmas

-----------------------------------------------------------------------------
(* Constants, and the operators the actions are made of.                   *)

LEMMA WorkersExist ==
  /\ 1 \in Worker /\ NrWorkers \in Worker /\ NrWorkers \in Nat
  /\ \A w \in Worker : w # NrWorkers => w + 1 \in Worker
  BY WorkersAssumption DEF WorkersAssumption, Worker

LEMMA TreeFacts ==
  /\ Root \in Path
  /\ \A p \in Path : ChildPaths(p) \subseteq Path
  /\ \A p \in Path : IsFiniteSet(Attrs[p])
  /\ \A p \in Path : Kind[p] \in PayloadKind
  BY TreeAssumption DEF TreeAssumption, Root, ChildPaths

LEMMA ChildPathsFinite ==
  ASSUME NEW p \in Path PROVE IsFiniteSet(ChildPaths(p))
<1> DEFINE f == [a \in Attrs[p] |-> Append(p, a)]
<1>1. f \in Surjection(Attrs[p], ChildPaths(p))
  BY DEF Surjection, ChildPaths
<1> QED BY <1>1, TreeFacts, FS_Surjection

LEMMA LinesAreLines ==
  /\ {ConfigLine, MsgExit, MsgNext, MsgRestart, InitErrorLine} \subseteq Line
  /\ \A p \in Path : MsgDo(p) \in Line /\ ResponseLine(p) \in Line
  /\ \A l \in Line : l.type \in {"do", "response"} => l.attrPath \in Path
  BY DEF Line, LineType, ConfigLine, MsgExit, MsgNext, MsgRestart,
         InitErrorLine, MsgDo, ResponseLine

LEMMA DecayedNat ==
  ASSUME NEW e \in Nat PROVE Decayed(e) \in Nat
<1>1. DecayPercent \in Nat
  BY EstimateAssumption DEF EstimateAssumption
<1>2. \A d \in Nat : e * d \in Nat
  OBVIOUS
<1>3. \A n \in Nat : n \div 100 \in Nat
  OBVIOUS
<1> QED BY <1>1, <1>2, <1>3 DEF Decayed

-----------------------------------------------------------------------------
(* The inductive invariant.                                                *)

(* Slots and processes: the three parts of SlotsInUse hold of every point  *)
(* of pollWorkers from which they are reached.                             *)
SlotInv ==
  InLoop =>
    /\ \A w \in Worker : phase[w] = "None" <=> proc[w] = "none"
    /\ pc = "sendFailed" => phase[cur] = "Busy"
    /\ pc = "kill" => phase[victim] = "Busy"
    /\ pc \in {"sample", "kill", "read", "lines"} => ready \subseteq Alive
    /\ pc = "lines" => cur \notin ready

(* Solo: whoever is alive is alone, and dispatch() may only create a       *)
(* process when there is none.                                             *)
SoloInv ==
  InLoop /\ mode = "Solo" =>
    /\ \A v, w \in Alive : v = w
    /\ Running = {} => solo # <<>>
    /\ pc = "dispatch" => spawnable = 0 \/ (spawnable = 1 /\ Alive = {})

(* Only a worker that was given a path evaluates. *)
EvalOK == \A w \in Worker : wpc[w] = "eval" => wpath[w] \in Path

(* Only a slot that holds a path is running. *)
HeldOK == \A w \in Running : attrPath[w] \in Path

ProcInv == ProcTypeOK /\ EvalOK
EnvOK   == oomKills \in Nat /\ parentAlive \in BOOLEAN
SlotOK  == SlotTypeOK /\ HeldOK
TodoOK  == QueueTypeOK /\ IsFiniteSet(todo)
PcOK    == pc \in LoopPc \cup MainPc

TypeInv ==
  /\ ProcInv /\ EnvOK
  /\ SlotOK /\ TodoOK /\ LocalTypeOK
  /\ ResolverTypeOK /\ OutputTypeOK
  /\ PcOK

IInv == TypeInv /\ SlotInv /\ SoloInv /\ ExitingOnlyWhenFinished

-----------------------------------------------------------------------------
(* Types.                                                                  *)

(* Proc::Proc starts a process that evaluates nothing. *)
LEMMA SpawnType ==
  ASSUME ProcInv, NEW w \in Worker, Spawn(w) PROVE ProcInv'
<1>1. <<ConfigLine>> \in Seq(Line) /\ <<>> \in Seq(Line)
  BY LinesAreLines
<1> QED BY <1>1 DEF ProcInv, ProcTypeOK, EvalOK, Spawn, ProcState

LEMMA DestroyAllType ==
  ASSUME ProcInv, NEW ws, DestroyAll(ws) PROVE ProcInv'
  BY DEF ProcInv, ProcTypeOK, EvalOK, DestroyAll, ProcState

LEMMA ResetWorkersType ==
  ASSUME ProcInv, SlotOK, NEW ws, ResetWorkers(ws) PROVE ProcInv' /\ SlotOK'
<1>1. ProcInv'
  BY DestroyAllType DEF ResetWorkers
<1>2. SlotTypeOK'
  BY DEF SlotOK, SlotTypeOK, ResetWorkers, Phase
<1>3. HeldOK'
  BY DEF SlotOK, SlotTypeOK, HeldOK, ResetWorkers, Running, InPhase
<1> QED BY <1>1, <1>2, <1>3 DEF SlotOK

LEMMA SendLineType ==
  ASSUME ProcTypeOK, NEW w \in Worker, NEW line \in Line, SendLine(w, line)
  PROVE  toWorker' \in [Worker -> Seq(Line)]
<1>1. \A s \in Seq(Line) : Append(s, line) \in Seq(Line)
  OBVIOUS
<1> QED BY <1>1 DEF ProcTypeOK, SendLine

LEMMA WriteLineType ==
  ASSUME ProcTypeOK, NEW w \in Worker, NEW line \in Line,
         NEW to \in {"next", "command", "restart", "return"},
         WriteLine(w, line, to)
  PROVE  /\ fromWorker' \in [Worker -> Seq(Line)]
         /\ wpc' \in [Worker -> {"none", "config", "init", "next", "command",
                                 "eval", "restart", "return"}]
         /\ \A v \in Worker : wpc'[v] = "eval" => v # w /\ wpc[v] = "eval"
<1>1. \A s \in Seq(Line) : Append(s, line) \in Seq(Line)
  OBVIOUS
<1> QED BY <1>1 DEF ProcTypeOK, WriteLine, GoTo

(* The worker processes. *)
LEMMA WorkerProgramType ==
  ASSUME WorkerTypeOK, EvalOK, NEW w \in Worker, WorkerProgram(w)
  PROVE  WorkerTypeOK' /\ EvalOK'
<1> USE DEF WorkerTypeOK, ProcTypeOK, EvalOK, At, GoTo
<1>0. \A s \in Seq(Line) : s # <<>> =>
        Head(s) \in Line /\ Tail(s) \in Seq(Line)
  OBVIOUS
<1>1. CASE ReadConfig(w) BY <1>0, <1>1 DEF ReadConfig
<1>2. CASE InitRoot(w)
  BY <1>2, WorkersAssumption DEF InitRoot, WorkersAssumption
<1>3. CASE InitRootFails(w)
  BY <1>3, WriteLineType, LinesAreLines DEF InitRootFails
<1>4. CASE SendNext(w)
  BY <1>4, WriteLineType, LinesAreLines DEF SendNext
<1>5. CASE ReadJob(w)
  <2>1. Head(toWorker[w]) \in Line /\ Tail(toWorker[w]) \in Seq(Line)
    BY <1>0, <1>5 DEF ReadJob
  <2>2. Head(toWorker[w]).attrPath \in Path
    BY <2>1, <1>5, LinesAreLines DEF ReadJob
  <2>3. heap[w] + Cost[Head(toWorker[w]).attrPath] \in Nat
    BY <2>2, WorkersAssumption DEF WorkersAssumption
  <2> QED BY <1>5, <2>1, <2>2, <2>3 DEF ReadJob
<1>6. CASE ReadExit(w) BY <1>0, <1>6 DEF ReadExit
<1>7. CASE ReadEof(w) BY <1>7 DEF ReadEof
<1>8. CASE Respond(w)
  <2>1. ResponseLine(wpath[w]) \in Line
    BY <1>8, LinesAreLines DEF Respond
  <2> QED BY <1>8, <2>1, WriteLineType DEF Respond
<1>9. CASE SendRestart(w)
  BY <1>9, WriteLineType, LinesAreLines DEF SendRestart
<1>10. CASE Exit(w) BY <1>10 DEF Exit, ProcState, Dead
<1>11. CASE ExitUnwound(w) BY <1>11 DEF ExitUnwound, ProcState, Dead
<1> QED BY <1>1, <1>2, <1>3, <1>4, <1>5, <1>6, <1>7, <1>8, <1>9, <1>10, <1>11
        DEF WorkerProgram

LEMMA SigKillType ==
  ASSUME proc \in [Worker -> ProcState], NEW w \in Worker, SigKill(w)
  PROVE  proc' \in [Worker -> ProcState]
  BY DEF SigKill, ProcState

LEMMA KernelType ==
  ASSUME WorkerTypeOK, EvalOK, NEW w \in Worker, Kernel(w)
  PROVE  WorkerTypeOK' /\ EvalOK'
<1> USE DEF WorkerTypeOK, ProcTypeOK, EvalOK
<1>1. CASE Reap(w) /\ UNCHANGED <<oomKills, parentAlive>>
  BY <1>1 DEF Reap, ProcState, Dead
<1>2. CASE OomKill(w) BY <1>2, SigKillType DEF OomKill
<1>3. CASE \E status \in {"exit1", "signaled"} : Crash(w, status)
  BY <1>3 DEF Crash, ProcState, Dead
<1>4. CASE Unwind(w) BY <1>4 DEF Unwind, ProcState
<1> QED BY <1>1, <1>2, <1>3, <1>4 DEF Kernel

(* A part of the state that a step leaves alone keeps its types. *)
LEMMA SameTypes ==
  /\ ProcInv /\ UNCHANGED procVars => ProcInv'
  /\ ProcInv /\ UNCHANGED workerVars => ProcInv'
  /\ EnvOK /\ UNCHANGED workerVars => EnvOK'
  /\ EnvOK /\ UNCHANGED <<oomKills, parentAlive>> => EnvOK'
  /\ SlotOK /\ UNCHANGED slotVars => SlotOK'
  /\ TodoOK /\ UNCHANGED queueVars => TodoOK'
  /\ LocalTypeOK /\ UNCHANGED localVars => LocalTypeOK'
  /\ ResolverTypeOK /\ UNCHANGED resolverVars => ResolverTypeOK'
  /\ OutputTypeOK /\ UNCHANGED outputVars => OutputTypeOK'
  /\ PcOK /\ UNCHANGED pc => PcOK'
  BY DEF ProcInv, ProcTypeOK, EvalOK, procVars, workerVars, EnvOK, SlotOK,
         SlotTypeOK, HeldOK, Running, InPhase, slotVars, TodoOK,
         QueueTypeOK, queueVars, LocalTypeOK, localVars, ResolverTypeOK,
         resolverVars,
         OutputTypeOK, outputVars, PcOK

(* emitResponse. *)
LEMMA EmitResponseType ==
  ASSUME OutputTypeOK, NEW p \in Path, NEW what \in Reported,
         EmitResponse(p, what)
  PROVE  OutputTypeOK'
  BY DEF OutputTypeOK, EmitResponse

LEMMA JobPathKind ==
  /\ \A p \in JobPath : p \in Path /\ Kind[p] \in Reported
  /\ \A p \in Path : ~IsListing(p) => Kind[p] \in Reported
  BY TreeFacts DEF JobPath, IsJob, IsListing, Reported, PayloadKind

(* Sequences of jobs. *)
LEMMA JobSeqs ==
  /\ <<>> \in Seq(JobPath)
  /\ \A s \in Seq(JobPath) : s # <<>> =>
       Head(s) \in JobPath /\ Tail(s) \in Seq(JobPath)
  /\ \A s \in Seq(JobPath), p \in JobPath : Append(s, p) \in Seq(JobPath)
  /\ \A s, t \in Seq(JobPath) : s \o t \in Seq(JobPath)
  OBVIOUS

(* The calls of the event loop and of main. *)
LEMMA ResolverCallType ==
  ASSUME ResolverTypeOK,
         \/ \E p \in JobPath : Push(p)
         \/ SetClosed \/ NotifyClosed \/ Discard
  PROVE  ResolverTypeOK'
<1> USE DEF ResolverTypeOK
<1>1. \A x : Notify(x) \in {x, "wait"}
  BY DEF Notify
<1>2. CASE \E p \in JobPath : Push(p)
  <2>1. PICK p \in JobPath : Push(p)
    BY <1>2
  <2>2. CASE closed \/ exc
    BY <2>1, <2>2 DEF Push, resolverVars
  <2>3. CASE ~(closed \/ exc)
    BY <1>1, <2>1, <2>3, JobSeqs DEF Push
  <2> QED BY <2>2, <2>3
<1>3. CASE SetClosed BY <1>3 DEF SetClosed
<1>4. CASE NotifyClosed BY <1>1, <1>4 DEF NotifyClosed
<1>5. CASE Discard BY <1>1, <1>5 DEF Discard
<1> QED BY <1>2, <1>3, <1>4, <1>5

(* The first of the rounds that are not answered is one of them.           *)
LEMMA FirstOpenIsOpen ==
  ASSUME NEW p, OpenRounds(p) # {}, Probes[p] \in Seq(SUBSET Probe)
  PROVE  FirstOpen(p) \in OpenRounds(p)
<1>1. OpenRounds(p) \in SUBSET (1 .. Len(Probes[p])) /\ Len(Probes[p]) \in Nat
  BY DEF OpenRounds
<1>2. \E i \in OpenRounds(p) : \A j \in OpenRounds(p) : i <= j
  BY <1>1, LeastMember
<1> QED BY <1>2 DEF FirstOpen

(* The thread. *)
LEMMA ThreadType ==
  ASSUME ResolverTypeOK, OutputTypeOK, ResolverStep
  PROVE  ResolverTypeOK' /\ OutputTypeOK'
<1> USE DEF ResolverTypeOK
<1>0. UNCHANGED outputVars => OutputTypeOK'
  BY SameTypes
<1>1. CASE WaitInbox BY <1>0, <1>1 DEF WaitInbox
<1>2. CASE FirstTake BY <1>0, <1>2, JobSeqs DEF FirstTake, TakeInbox
<1>3. CASE BeginRound BY <1>0, <1>3 DEF BeginRound
<1>4. CASE ResolveJob
  <2> DEFINE p == Head(batch)
  <2>1. p \in Path /\ Kind[p] \in Reported /\ Tail(batch) \in Seq(JobPath)
    BY <1>4, JobSeqs, JobPathKind DEF ResolveJob
  <2>2. OutputTypeOK'
    BY <1>4, <2>1, EmitResponseType DEF ResolveJob
  <2>3. ResolverTypeOK'
    BY <1>4, <2>1, JobSeqs DEF ResolveJob, ThreadThrows
  <2> QED BY <2>2, <2>3
<1>5. CASE PostponeJob
  <2> DEFINE p == Head(batch)
  <2>1. p \in JobPath /\ p \in Path /\ Tail(batch) \in Seq(JobPath)
    BY <1>5, JobSeqs, JobPathKind DEF PostponeJob
  <2>2. MissingProbes(p) \subseteq Probe
    <3>1. OpenRounds(p) # {} /\ OpenRounds(p) \subseteq DOMAIN Probes[p]
      BY <1>5 DEF PostponeJob, OpenRounds
    <3>2. Probes[p] \in Seq(SUBSET Probe)
      BY <2>1, ProbeAssumption DEF ProbeAssumption
    <3>3. \A i \in DOMAIN Probes[p] : Probes[p][i] \subseteq Probe
      BY <3>2
    <3>4. FirstOpen(p) \in OpenRounds(p)
      BY <3>1, <3>2, FirstOpenIsOpen
    <3> QED BY <3>1, <3>3, <3>4 DEF MissingProbes
  <2> QED BY <1>0, <1>5, <2>1, <2>2, JobSeqs DEF PostponeJob
<1>6. CASE EndPass BY <1>0, <1>6 DEF EndPass
<1>7. CASE TakeLate BY <1>0, <1>7, JobSeqs DEF TakeLate, TakeInbox
<1>8. CASE ResolveWanted BY <1>0, <1>8 DEF ResolveWanted
<1>9. CASE StoreThrows \/ ThreadInterrupted
  BY <1>0, <1>9, JobSeqs DEF StoreThrows, ThreadInterrupted, ThreadThrows
<1> QED BY <1>1, <1>2, <1>3, <1>4, <1>5, <1>6, <1>7, <1>8, <1>9
        DEF ResolverStep, ResolverProgram

(* onKilled. *)
LEMMA OnKilledType ==
  ASSUME TypeInv, NEW w \in Worker, OnKilled(w)
  PROVE  ProcInv' /\ SlotOK' /\ TodoOK' /\ OutputTypeOK'
<1>1. ProcInv' /\ SlotOK'
  BY ResetWorkersType DEF TypeInv, OnKilled
<1>2. CASE GivesUp(w)
  <2>1. attrPath[w] \in Path /\ "memory" \in Reported
    BY <1>2 DEF TypeInv, SlotOK, HeldOK, GivesUp, Reported
  <2>2. OutputTypeOK'
    BY <1>2, <2>1, EmitResponseType DEF TypeInv, OnKilled
  <2>3. TodoOK'
    BY <1>2, <2>1 DEF TypeInv, OnKilled, TodoOK, QueueTypeOK, LeaveSolo
  <2> QED BY <1>1, <2>2, <2>3
<1>3. CASE ~GivesUp(w)
  <2>1. w \in Running => attrPath[w] \in Path
    BY DEF TypeInv, SlotOK, HeldOK
  <2>2. w \in Running => Append(solo, attrPath[w]) \in Seq(Path)
    BY <2>1 DEF TypeInv, TodoOK, QueueTypeOK
  <2>3. TodoOK'
    BY <1>3, <2>2 DEF TypeInv, OnKilled, TodoOK, QueueTypeOK, QueueRetry,
                      LeaveSolo
  <2>4. OutputTypeOK'
    BY <1>3, SameTypes DEF TypeInv, OnKilled
  <2> QED BY <1>1, <2>3, <2>4
<1> QED BY <1>2, <1>3

(* onEof, whatever is done after the call. *)
LEMMA OnEofType ==
  ASSUME TypeInv, NEW w \in Worker, OnEof(w, TRUE)
  PROVE  ProcInv' /\ SlotOK' /\ TodoOK' /\ OutputTypeOK'
<1>1. CASE /\ ResetWorkers({w}) /\ UNCHANGED <<queueVars, outputVars>>
  BY <1>1, ResetWorkersType, SameTypes DEF TypeInv
<1>2. CASE OnKilled(w)
  BY <1>2, OnKilledType
<1>3. CASE /\ GivesUp(w) /\ EmitResponse(attrPath[w], "memory")
           /\ UNCHANGED <<slotVars, queueVars, procVars>>
  <2>1. attrPath[w] \in Path /\ "memory" \in Reported
    BY <1>3 DEF TypeInv, SlotOK, HeldOK, GivesUp, Reported
  <2> QED BY <1>3, <2>1, EmitResponseType, SameTypes DEF TypeInv
<1>4. CASE UNCHANGED <<slotVars, queueVars, procVars, outputVars>>
  BY <1>4, SameTypes DEF TypeInv
<1> QED BY <1>1, <1>2, <1>3, <1>4 DEF OnEof

(* Where control goes. *)
LEMMA NextSlotType ==
  ASSUME cur \in Worker, NextSlot
  PROVE  cur' \in Worker /\ pc' \in {"poll", "dispatch"}
  BY WorkersExist DEF NextSlot

LEMMA JustThrowType ==
  ASSUME TypeInv, JustThrow PROVE TypeInv'
<1>1. PcOK'
  BY DEF JustThrow, Throw, PcOK, MainPc
<1> QED BY <1>1, SameTypes DEF TypeInv, JustThrow

(* The subtraction in dispatch() cannot wrap around, because it is only    *)
(* done when there are more jobs than waiting workers.                     *)
LEMMA SpawnableNat ==
  ASSUME TodoOK PROVE Spawnable \in Nat
<1>1. IsFiniteSet(Waiting)
  <2>1. IsFiniteSet(Worker)
    BY WorkersAssumption, FS_Interval DEF Worker, WorkersAssumption
  <2> QED BY <2>1, FS_Subset DEF Waiting, InPhase
<1>2. Cardinality(todo) \in Nat /\ Cardinality(Waiting) \in Nat
  BY <1>1, FS_CardinalityType DEF TodoOK
<1> QED BY <1>2 DEF Spawnable

(* run() and dispatch(). *)
LEMMA DispatchType ==
  ASSUME TypeInv,
         LoopExit \/ Interrupt \/ BeginSolo \/ BeginDispatch \/ Dispatch
  PROVE  TypeInv'
<1> USE DEF TypeInv
<1>0. cur \in Worker /\ 1 \in Worker
  BY WorkersExist DEF LocalTypeOK
<1>1. CASE LoopExit
  <2>1. PcOK' BY <1>1 DEF LoopExit, PcOK, MainPc
  <2> QED BY <1>1, <2>1, SameTypes DEF LoopExit
<1>2. CASE Interrupt BY <1>2, JustThrowType DEF Interrupt
<1>3. CASE BeginSolo
  <2>1. ProcInv' /\ SlotOK'
    BY <1>3, ResetWorkersType DEF BeginSolo
  <2>2. TodoOK' /\ LocalTypeOK' /\ PcOK'
    BY <1>0, <1>3 DEF BeginSolo, TodoOK, QueueTypeOK, LocalTypeOK, PcOK, LoopPc
  <2> QED BY <1>3, <2>1, <2>2, SameTypes DEF BeginSolo
<1>4. CASE BeginDispatch
  <2>1. Spawnable \in Nat
    BY SpawnableNat
  <2>2. LocalTypeOK' /\ PcOK'
    BY <1>0, <1>4, <2>1 DEF BeginDispatch, LocalTypeOK, PcOK, LoopPc
  <2> QED BY <1>4, <2>2, SameTypes DEF BeginDispatch
<1>5. CASE DispatchExit
  <2>1. toWorker' \in [Worker -> Seq(Line)]
    BY <1>0, <1>5, SendLineType, LinesAreLines DEF DispatchExit, ProcInv
  <2>2. ProcInv'
    BY <1>5, <2>1 DEF DispatchExit, ProcInv, ProcTypeOK, EvalOK
  <2>3. SlotOK'
    BY <1>0, <1>5 DEF DispatchExit, SlotOK, SlotTypeOK, HeldOK, Running,
                      InPhase, Phase
  <2>4. LocalTypeOK' /\ PcOK'
    BY <1>0, <1>5, NextSlotType DEF DispatchExit, LocalTypeOK, PcOK, LoopPc
  <2> QED BY <1>5, <2>2, <2>3, <2>4, SameTypes DEF DispatchExit
<1>6. ASSUME NEW p \in Path, HandOut(p)
      PROVE  /\ ProcInv' /\ EnvOK' /\ SlotOK' /\ LocalTypeOK'
             /\ ResolverTypeOK' /\ OutputTypeOK' /\ PcOK'
  <2>1. toWorker' \in [Worker -> Seq(Line)]
    BY <1>0, <1>6, SendLineType, LinesAreLines DEF HandOut, ProcInv
  <2>2. ProcInv'
    BY <1>6, <2>1 DEF HandOut, ProcInv, ProcTypeOK, EvalOK
  <2>3. SlotOK'
    BY <1>0, <1>6 DEF HandOut, SlotOK, SlotTypeOK, HeldOK, Running, InPhase,
                      Phase
  <2>4. LocalTypeOK' /\ PcOK'
    BY <1>0, <1>6, NextSlotType DEF HandOut, LocalTypeOK, PcOK, LoopPc
  <2> QED BY <1>6, <2>2, <2>3, <2>4, SameTypes DEF HandOut
<1>7. CASE DispatchSolo
  <2>1. Last(solo) \in Path /\ Front(solo) \in Seq(Path)
    BY <1>7, LastAndFront DEF DispatchSolo, TodoOK, QueueTypeOK
  <2>2. TodoOK'
    BY <1>7, <2>1 DEF DispatchSolo, HandOut, TodoOK, QueueTypeOK
  <2> QED BY <1>6, <1>7, <2>1, <2>2 DEF DispatchSolo
<1>8. CASE DispatchTodo
  <2>1. PICK p \in todo : HandOut(p) /\ todo' = todo \ {p}
    BY <1>8 DEF DispatchTodo
  <2>2. p \in Path
    BY DEF TodoOK, QueueTypeOK
  <2>3. TodoOK'
    BY <1>8, <2>1, FS_RemoveElement
       DEF DispatchTodo, HandOut, TodoOK, QueueTypeOK
  <2> QED BY <1>6, <2>1, <2>2, <2>3
<1>9. CASE DispatchSpawn
  <2>1. ProcInv'
    BY <1>0, <1>9, SpawnType DEF DispatchSpawn
  <2>2. SlotOK'
    BY <1>0, <1>9 DEF DispatchSpawn, SlotOK, SlotTypeOK, HeldOK, Running,
                      InPhase, Phase
  <2>3. LocalTypeOK' /\ PcOK'
    BY <1>0, <1>9, NextSlotType DEF DispatchSpawn, MaySpawn, LocalTypeOK,
                                    PcOK, LoopPc
  <2> QED BY <1>9, <2>1, <2>2, <2>3, SameTypes DEF DispatchSpawn
<1>10. CASE SpawnThrows BY <1>10, JustThrowType DEF SpawnThrows
<1>11. CASE DispatchNothing
  <2>1. LocalTypeOK' /\ PcOK'
    BY <1>0, <1>11, NextSlotType DEF DispatchNothing, LocalTypeOK, PcOK, LoopPc
  <2> QED BY <1>11, <2>1, SameTypes DEF DispatchNothing
<1>12. CASE SendFailed
  <2>1. OnEof(cur, TRUE)
    BY <1>12 DEF SendFailed, OnEof
  <2>2. ProcInv' /\ SlotOK' /\ TodoOK' /\ OutputTypeOK'
    BY <1>0, <2>1, OnEofType
  <2>3. NextSlot \/ (Throw /\ UNCHANGED cur)
    BY <1>12 DEF SendFailed, OnEof
  <2>4. LocalTypeOK' /\ PcOK'
    BY <1>0, <1>12, <2>3, NextSlotType
       DEF SendFailed, LocalTypeOK, PcOK, LoopPc, MainPc, Throw
  <2> QED BY <1>12, <2>2, <2>4, SameTypes DEF SendFailed
<1> QED BY <1>1, <1>2, <1>3, <1>4, <1>5, <1>7, <1>8, <1>9, <1>10, <1>11,
           <1>12 DEF Dispatch

LEMMA GrowthNat ==
  /\ \A a, b \in Nat : Growth(a, b) \in Nat
  /\ \A a, b \in Nat : Larger(a, b) \in Nat
  BY DEF Growth, Larger

LEMMA ResidentMemoryNat ==
  ASSUME ProcTypeOK, NEW w \in Worker PROVE ResidentMemory(w) \in Nat
  BY DEF ProcTypeOK, ResidentMemory

(* pollWorkers() and sampleMemory(); that the victim holds a path is a     *)
(* matter of control.                                                      *)
LEMMA PollType ==
  ASSUME TypeInv, SlotInv, PollWorkers PROVE TypeInv'
<1> USE DEF TypeInv
<1>1. CASE Poll
  <2>1. LocalTypeOK' /\ PcOK'
    BY <1>1 DEF Poll, LocalTypeOK, PcOK, LoopPc
  <2> QED BY <1>1, <2>1, SameTypes DEF Poll
<1>2. CASE SampleMemory
  <2>1. \A w \in Worker : Growth(ResidentMemory(w), startRss[w]) \in Nat
    BY GrowthNat, ResidentMemoryNat DEF SlotOK, SlotTypeOK, ProcInv
  <2>2. estimate' \in Nat
    BY <1>2, <2>1 DEF SampleMemory, Running, InPhase, TodoOK, QueueTypeOK
  <2>3. TodoOK'
    BY <1>2, <2>2 DEF SampleMemory, TodoOK, QueueTypeOK
  <2>4. rss' \in [Worker -> Nat]
    BY <1>2, ResidentMemoryNat DEF SampleMemory, ProcInv
  <2>5. SlotOK'
    BY <1>2, <2>4 DEF SampleMemory, SlotOK, SlotTypeOK, HeldOK, Running,
                      InPhase
  <2>6. LocalTypeOK' /\ PcOK'
    BY <1>2 DEF SampleMemory, LocalTypeOK, PcOK, LoopPc
  <2> QED BY <1>2, <2>3, <2>5, <2>6, SameTypes DEF SampleMemory
<1>3. CASE KillVictim
  <2>1. victim \in Worker
    BY DEF LocalTypeOK
  <2>2. proc' \in [Worker -> ProcState]
    BY <1>3, <2>1, SigKillType DEF KillVictim, ProcInv, ProcTypeOK
  <2>3. ProcInv'
    BY <1>3, <2>2 DEF KillVictim, ProcInv, ProcTypeOK, EvalOK
  <2>4. SlotTypeOK'
    BY <1>3, <2>1 DEF KillVictim, SlotOK, SlotTypeOK, Phase
  <2>5. PcOK'
    BY <1>3 DEF KillVictim, PcOK, LoopPc
  <2>6. phase[victim] = "Busy"
    BY <1>3 DEF KillVictim, SlotInv, InLoop, LoopPc
  <2>7. HeldOK'
    BY <1>3, <2>1, <2>6 DEF KillVictim, SlotOK, SlotTypeOK, HeldOK, Running,
                            InPhase
  <2>8. LocalTypeOK' /\ TodoOK' /\ EnvOK' /\ ResolverTypeOK' /\ OutputTypeOK'
    BY <1>3, SameTypes DEF KillVictim
  <2> QED BY <2>3, <2>4, <2>5, <2>7, <2>8 DEF SlotOK
<1>4. CASE EndPoll
  <2>1. PcOK' BY <1>4 DEF EndPoll, PcOK, LoopPc
  <2> QED BY <1>4, <2>1, SameTypes DEF EndPoll
<1>5. CASE Fill
  <2>1. cur' \in Worker /\ ready' \subseteq Worker
    BY <1>5 DEF Fill, LocalTypeOK
  <2>2. ProcInv'
    BY <1>5, <2>1 DEF Fill, ProcInv, ProcTypeOK, EvalOK
  <2>3. lines' \in Seq(Line)
    BY <1>5, <2>1 DEF Fill, ProcInv, ProcTypeOK
  <2>4. LocalTypeOK' /\ PcOK'
    BY <1>5, <2>1, <2>3 DEF Fill, LocalTypeOK, PcOK, LoopPc, AtEof,
       HungUp
  <2> QED BY <1>5, <2>2, <2>4, SameTypes DEF Fill
<1> QED BY <1>1, <1>2, <1>3, <1>4, <1>5 DEF PollWorkers

(* The end of a job, whatever its answer is; a line that is handled. *)
LEMMA JobFinishedType ==
  ASSUME TypeInv, NEW w \in Worker, JobFinished(w), PopLine,
         LineIs("Busy", "response")
  PROVE  /\ SlotOK' /\ lines' \in Seq(Line)
         /\ Head(lines).attrPath \in Path
         /\ mode' \in {"Parallel", "Solo"} /\ estimate' \in Nat
         /\ answered' \subseteq Path
<1>1. Head(lines) \in Line /\ Tail(lines) \in Seq(Line)
  BY DEF TypeInv, LocalTypeOK, LineIs
<1>2. Head(lines).attrPath \in Path
  BY <1>1, LinesAreLines DEF LineIs
<1>3. /\ ResidentMemory(w) \in Nat
      /\ Growth(ResidentMemory(w), startRss[w]) \in Nat
  BY ResidentMemoryNat, GrowthNat DEF TypeInv, ProcInv, SlotOK, SlotTypeOK
<1>4. estimate' \in Nat
  BY <1>3, DecayedNat, GrowthNat DEF TypeInv, TodoOK, QueueTypeOK, JobFinished
<1>5. SlotTypeOK'
  BY <1>3 DEF TypeInv, SlotOK, SlotTypeOK, JobFinished, Phase
<1>6. HeldOK'
  BY DEF TypeInv, SlotOK, SlotTypeOK, HeldOK, Running, InPhase, JobFinished
<1>7. mode' \in {"Parallel", "Solo"} /\ answered' \subseteq Path
  BY <1>2 DEF TypeInv, TodoOK, QueueTypeOK, JobFinished, LeaveSolo
<1> QED BY <1>1, <1>2, <1>4, <1>5, <1>6, <1>7 DEF SlotOK, PopLine

(* onLine and onResponse. *)
LEMMA OnLineType ==
  ASSUME TypeInv, OnLine PROVE TypeInv'
<1> USE DEF TypeInv
<1>0. cur \in Worker
  BY DEF LocalTypeOK
<1>1. CASE LineNext
  <2>1. SlotOK'
    BY <1>0, <1>1 DEF LineNext, LineIs, SlotOK, SlotTypeOK, HeldOK, Running,
                      InPhase, Phase
  <2>2. LocalTypeOK'
    BY <1>1 DEF LineNext, LineIs, PopLine, LocalTypeOK
  <2> QED BY <1>1, <2>1, <2>2, SameTypes DEF LineNext
<1>2. CASE LineRestart
  <2>1. ProcInv' /\ SlotOK'
    BY <1>2, ResetWorkersType DEF LineRestart
  <2>2. LocalTypeOK'
    BY <1>2 DEF LineRestart, LocalTypeOK
  <2> QED BY <1>2, <2>1, <2>2, SameTypes DEF LineRestart
<1>3. CASE LineUnexpected BY <1>3, JustThrowType DEF LineUnexpected
<1>4. CASE LineIgnored
  <2>1. LocalTypeOK'
    BY <1>4 DEF LineIgnored, PopLine, LocalTypeOK
  <2> QED BY <1>4, <2>1, SameTypes DEF LineIgnored
<1>5. CASE ResponseAttrs
  <2> DEFINE p == Head(lines).attrPath
  <2>1. /\ SlotOK' /\ lines' \in Seq(Line) /\ p \in Path
        /\ mode' \in {"Parallel", "Solo"} /\ estimate' \in Nat
        /\ answered' \subseteq Path
    BY <1>0, <1>5, JobFinishedType DEF ResponseAttrs
  <2>2. todo' \subseteq Path /\ IsFiniteSet(todo')
    BY <1>5, <2>1, TreeFacts, ChildPathsFinite, FS_Union
       DEF ResponseAttrs, TodoOK, QueueTypeOK
  <2>3. TodoOK'
    BY <1>5, <2>1, <2>2 DEF ResponseAttrs, TodoOK, QueueTypeOK
  <2>4. LocalTypeOK'
    BY <1>5, <2>1 DEF ResponseAttrs, LocalTypeOK
  <2> QED BY <1>5, <2>1, <2>3, <2>4, SameTypes DEF ResponseAttrs
<1>6. CASE ResponseJobPushed
  <2> DEFINE p == Head(lines).attrPath
  <2>1. /\ SlotOK' /\ lines' \in Seq(Line) /\ p \in Path
        /\ mode' \in {"Parallel", "Solo"} /\ estimate' \in Nat
        /\ answered' \subseteq Path
    BY <1>0, <1>6, JobFinishedType DEF ResponseJobPushed
  <2>2. TodoOK'
    BY <1>6, <2>1 DEF ResponseJobPushed, TodoOK, QueueTypeOK
  <2>3. LocalTypeOK'
    BY <1>6, <2>1 DEF ResponseJobPushed, LocalTypeOK
  <2>4. p \in JobPath /\ Push(p)
    BY <1>6, <2>1 DEF ResponseJobPushed, JobPath
  <2>5. ResolverTypeOK'
    BY <2>4, ResolverCallType
  <2> QED BY <1>6, <2>1, <2>2, <2>3, <2>5, SameTypes DEF ResponseJobPushed
<1>7. CASE ResponseEmitted
  <2> DEFINE p == Head(lines).attrPath
  <2>1. /\ SlotOK' /\ lines' \in Seq(Line) /\ p \in Path
        /\ mode' \in {"Parallel", "Solo"} /\ estimate' \in Nat
        /\ answered' \subseteq Path
    BY <1>0, <1>7, JobFinishedType DEF ResponseEmitted
  <2>2. TodoOK'
    BY <1>7, <2>1 DEF ResponseEmitted, TodoOK, QueueTypeOK
  <2>3. LocalTypeOK'
    BY <1>7, <2>1 DEF ResponseEmitted, LocalTypeOK
  <2>4. OutputTypeOK'
    BY <1>7, <2>1, JobPathKind, EmitResponseType
       DEF ResponseEmitted, EmittedHere
  <2> QED BY <1>7, <2>1, <2>2, <2>3, <2>4, SameTypes DEF ResponseEmitted
<1>8. CASE ResponseThrows
  <2> DEFINE p == Head(lines).attrPath
  <2>1. Head(lines) \in Line
    BY <1>8 DEF ResponseThrows, LineIs, LocalTypeOK
  <2>2. p \in Path
    BY <1>8, <2>1, LinesAreLines DEF ResponseThrows, LineIs
  <2>3. OutputTypeOK'
    BY <1>8, <2>2, JobPathKind, EmitResponseType
       DEF ResponseThrows, EmittedHere
  <2>4. PcOK'
    BY <1>8 DEF ResponseThrows, Throw, PcOK, MainPc
  <2> QED BY <1>8, <2>3, <2>4, SameTypes DEF ResponseThrows
<1> QED BY <1>1, <1>2, <1>3, <1>4, <1>5, <1>6, <1>7, <1>8 DEF OnLine

(* The rest of readWorker(), and the end of the Scheduler. *)
LEMMA AfterLinesType ==
  ASSUME TypeInv, EndLines \/ EofAfterLines \/ DestroyScheduler
  PROVE  TypeInv'
<1> USE DEF TypeInv
<1>1. CASE EndLines
  <2>1. PcOK' BY <1>1 DEF EndLines, PcOK, LoopPc
  <2> QED BY <1>1, <2>1, SameTypes DEF EndLines
<1>2. CASE EofAfterLines
  <2>1. OnEof(cur, TRUE) /\ cur \in Worker
    BY <1>2 DEF EofAfterLines, OnEof, LocalTypeOK
  <2>2. ProcInv' /\ SlotOK' /\ TodoOK' /\ OutputTypeOK'
    BY <2>1, OnEofType
  <2>3. pc' \in {"read", "throw"} /\ UNCHANGED cur
    BY <1>2 DEF EofAfterLines, OnEof, Throw
  <2>4. LocalTypeOK' /\ PcOK'
    BY <1>2, <2>3 DEF EofAfterLines, LocalTypeOK, PcOK, LoopPc, MainPc
  <2> QED BY <1>2, <2>2, <2>4, SameTypes DEF EofAfterLines
<1>3. CASE DestroyScheduler
  <2>1. ProcInv' /\ SlotOK'
    BY <1>3, ResetWorkersType DEF DestroyScheduler
  <2>2. TodoOK' /\ PcOK'
    BY <1>3, FS_EmptySet
       DEF DestroyScheduler, TodoOK, QueueTypeOK, PcOK, MainPc
  <2> QED BY <1>3, <2>1, <2>2, SameTypes DEF DestroyScheduler
<1> QED BY <1>1, <1>2, <1>3

(* main. *)
LEMMA MainType ==
  ASSUME TypeInv, MainStep PROVE TypeInv'
<1> USE DEF TypeInv
<1>1. \A from, to : to \in MainPc /\ MainGoes(from, to) =>
        PcOK' /\ UNCHANGED <<slotVars, queueVars, localVars, workerVars>>
  BY DEF MainGoes, PcOK
<1>2. /\ PcOK'
      /\ UNCHANGED <<slotVars, queueVars, localVars, workerVars>>
  BY <1>1 DEF MainStep, FinishClose, FinishNotify, FinishJoin, AfterJoin,
              Constituents, ConstituentsThrow, UnwindClose, UnwindDiscard,
              UnwindJoin, MainPc
<1>3. ResolverTypeOK'
  <2>1. SetClosed \/ NotifyClosed \/ Discard \/ UNCHANGED resolverVars
    BY DEF MainStep, FinishClose, FinishNotify, FinishJoin, Constituents,
           ConstituentsThrow, UnwindClose, UnwindDiscard, UnwindJoin
  <2> QED BY <2>1, ResolverCallType, SameTypes
<1>4. OutputTypeOK'
  <2>1. (\E those : EmitAggregates(those)) \/ UNCHANGED outputVars
    BY DEF MainStep, FinishClose, FinishNotify, FinishJoin, Constituents,
           ConstituentsThrow, UnwindClose, UnwindDiscard, UnwindJoin
  <2>2. (\E those : EmitAggregates(those)) => OutputTypeOK'
    BY DEF EmitAggregates, OutputTypeOK
  <2> QED BY <2>1, <2>2, SameTypes
<1> QED BY <1>2, <1>3, <1>4, SameTypes

LEMMA InitType == Init => TypeInv
<1> SUFFICES ASSUME Init PROVE TypeInv
  OBVIOUS
<1> USE DEF Init
<1>1. ProcInv /\ EnvOK
  BY DEF WorkerInit, ProcInit, ProcInv, ProcTypeOK, EvalOK, EnvOK, ProcState
<1>2. SlotOK
  BY DEF SchedulerInit, SlotOK, SlotTypeOK, HeldOK, Running, InPhase, Phase
<1>3. TodoOK
  <2>1. Root \in Path /\ IsFiniteSet({Root})
    BY TreeFacts, FS_Singleton
  <2>2. InitialEstimate \in Nat
    BY EstimateAssumption DEF EstimateAssumption
  <2> QED BY <2>1, <2>2 DEF SchedulerInit, TodoOK, QueueTypeOK
<1>4. LocalTypeOK /\ PcOK
  <2>1. <<>> \in Seq(Line)
    OBVIOUS
  <2>2. LocalTypeOK
    BY <2>1, WorkersExist DEF SchedulerInit, LocalTypeOK
  <2>3. PcOK
    BY DEF SchedulerInit, PcOK, LoopPc
  <2> QED BY <2>2, <2>3
<1>5. ResolverTypeOK
  <2>1. CheckCacheStatus \in BOOLEAN
    BY ProbeAssumption DEF ProbeAssumption
  <2>2. <<>> \in Seq(SUBSET Probe)
    OBVIOUS
  <2> QED BY <2>1, <2>2, JobSeqs DEF ResolverInit, ResolverTypeOK
<1>6. OutputTypeOK
  BY DEF OutputInit, OutputTypeOK
<1> QED BY <1>1, <1>2, <1>3, <1>4, <1>5, <1>6 DEF TypeInv

LEMMA NextType ==
  ASSUME TypeInv, SlotInv, [Next]_vars PROVE TypeInv'
<1> USE DEF TypeInv
<1>1. CASE SchedulerStep
  BY <1>1, DispatchType, PollType, OnLineType, AfterLinesType
     DEF SchedulerStep
<1>2. CASE MainStep BY <1>2, MainType
<1>3. CASE \E w \in Worker : ProgramOf(w) \/ KernelOf(w)
  <2>1. PICK w \in Worker : ProgramOf(w) \/ KernelOf(w)
    BY <1>3
  <2>2. WorkerTypeOK' /\ EvalOK'
    BY <2>1, WorkerProgramType, KernelType
       DEF ProgramOf, KernelOf, WorkerTypeOK, ProcInv, EnvOK
  <2>3. ProcInv' /\ EnvOK'
    BY <2>2 DEF WorkerTypeOK, ProcInv, EnvOK
  <2>4. UNCHANGED <<schedulerVars, resolverVars, outputVars>>
    BY <2>1 DEF ProgramOf, KernelOf
  <2>5. UNCHANGED <<slotVars, queueVars, pc, localVars>>
    BY <2>4 DEF schedulerVars
  <2> QED BY <2>3, <2>4, <2>5, SameTypes
<1>4. CASE Thread \/ ThreadFails
  <2>1. ResolverTypeOK' /\ OutputTypeOK'
    BY <1>4, ThreadType DEF Thread, ThreadFails, ResolverStep
  <2>2. UNCHANGED <<workerVars, slotVars, queueVars, pc, localVars>>
    BY <1>4 DEF Thread, ThreadFails, schedulerVars
  <2> QED BY <2>1, <2>2, SameTypes
<1>5. CASE StdoutCloses
  <2>1. OutputTypeOK'
    BY <1>5 DEF StdoutCloses, OutputTypeOK
  <2>2. UNCHANGED <<workerVars, slotVars, queueVars, pc, localVars,
                    resolverVars>>
    BY <1>5 DEF StdoutCloses, schedulerVars
  <2> QED BY <2>1, <2>2, SameTypes
<1>6. CASE CollectorDies
  <2>1. EnvOK' /\ PcOK'
    BY <1>6 DEF CollectorDies, EnvOK, PcOK, MainPc
  <2>2. ResolverTypeOK'
    BY <1>6 DEF CollectorDies, ResolverTypeOK
  <2> QED BY <1>6, <2>1, <2>2, SameTypes DEF CollectorDies
<1>7. CASE UNCHANGED vars
  BY <1>7, SameTypes DEF vars, schedulerVars
<1> QED BY <1>1, <1>2, <1>3, <1>4, <1>5, <1>6, <1>7
        DEF Next, Collector, Terminated

-----------------------------------------------------------------------------
(* Control.                                                                *)

Control == SlotInv /\ SoloInv /\ ExitingOnlyWhenFinished

(* Nothing is claimed of main after run(). *)
LEMMA ControlOutside ==
  ASSUME pc' \in MainPc PROVE Control'
  BY DEF Control, SlotInv, SoloInv, ExitingOnlyWhenFinished, InLoop, LoopPc,
         MainPc

(* A step of somebody else, which neither starts nor destroys a process.   *)
LEMMA ControlFrame ==
  ASSUME Control, UNCHANGED schedulerVars,
         \A w \in Worker : proc'[w] = "none" <=> proc[w] = "none"
  PROVE  Control'
<1>1. UNCHANGED <<phase, todo, solo, mode, pc, cur, spawnable, ready, victim>>
  BY DEF schedulerVars, slotVars, queueVars, localVars
<1>2. Alive' = Alive
  BY DEF Alive
<1>3. Running' = Running /\ InPhase("Exiting")' = InPhase("Exiting")
  BY <1>1 DEF Running, InPhase
<1>4. SlotInv'
  BY <1>1, <1>2 DEF Control, SlotInv, InLoop
<1>5. SoloInv'
  BY <1>1, <1>2, <1>3 DEF Control, SoloInv, InLoop
<1>6. ExitingOnlyWhenFinished'
  BY <1>1, <1>3 DEF Control, ExitingOnlyWhenFinished, InLoop, Finished
<1> QED BY <1>4, <1>5, <1>6 DEF Control

LEMMA WorkerKeepsAlive ==
  ASSUME ProcTypeOK, NEW w \in Worker, WorkerProgram(w) \/ Kernel(w)
  PROVE  \A v \in Worker : proc'[v] = "none" <=> proc[v] = "none"
<1>1. CASE WorkerProgram(w)
  BY <1>1 DEF ProcTypeOK, WorkerProgram, ReadConfig, InitRoot, InitRootFails,
     SendNext, ReadJob, ReadExit, ReadEof, Respond, SendRestart, Exit,
     ExitUnwound, At
<1>2. CASE Kernel(w)
  BY <1>2 DEF ProcTypeOK, Kernel, Reap, OomKill, SigKill, Crash, Unwind, At
<1> QED BY <1>1, <1>2

(* dispatch(): every case but the spawn leaves the processes alone. *)
LEMMA DispatchControl ==
  ASSUME TypeInv, Control, Dispatch, pc = "dispatch" PROVE Control'
<1> USE DEF SlotInv, SoloInv, ExitingOnlyWhenFinished, Control, InLoop,
        LoopPc, Alive, Running, InPhase, Finished
<1>0. /\ cur \in Worker /\ phase \in [Worker -> Phase]
      /\ proc \in [Worker -> ProcState] /\ spawnable \in Nat
  BY DEF TypeInv, LocalTypeOK, SlotOK, SlotTypeOK, ProcInv, ProcTypeOK
<1>1. CASE DispatchExit
  <2>1. /\ phase[cur] = "Idle" /\ Finished
        /\ phase' = [phase EXCEPT ![cur] = "Exiting"]
        /\ UNCHANGED <<proc, ready, spawnable, mode, todo, solo>>
        /\ pc' \in {"poll", "dispatch"}
    BY <1>1 DEF DispatchExit, IsFree, NextSlot, queueVars
  <2>2. Running' = Running /\ Alive' = Alive
    BY <1>0, <2>1
  <2>3. SlotInv'
    BY <1>0, <2>1
  <2>4. mode # "Solo"
    BY <1>1, <2>1 DEF DispatchExit
  <2>5. SoloInv'
    BY <2>1, <2>4
  <2>6. ExitingOnlyWhenFinished'
    BY <2>1, <2>2
  <2> QED BY <2>3, <2>5, <2>6
<1>2. CASE DispatchSolo
  <2>1. /\ phase[cur] = "Idle" /\ mode = "Solo" /\ Running = {}
        /\ phase' = [phase EXCEPT ![cur] = "Busy"]
        /\ UNCHANGED <<proc, ready, spawnable, mode, todo>>
        /\ \/ pc' = "sendFailed" /\ cur' = cur
           \/ pc' \in {"poll", "dispatch"}
    BY <1>0, <1>2 DEF DispatchSolo, HandOut, IsFree, MayTakeSolo, NextSlot
  <2>2. SlotInv'
    BY <1>0, <2>1
  <2>3. cur \in Running' /\ cur \in Alive
    BY <1>0, <2>1
  <2>4. SoloInv'
    BY <1>0, <2>1, <2>3
  <2>5. InPhase("Exiting") = {}
    BY <1>2 DEF DispatchSolo
  <2>6. ExitingOnlyWhenFinished'
    BY <1>0, <2>1, <2>5
  <2> QED BY <2>2, <2>4, <2>6
<1>3. CASE DispatchTodo
  BY <1>0, <1>3 DEF DispatchTodo, HandOut, IsFree, MayTakeTodo, NextSlot
<1>4. CASE DispatchSpawn
  <2>1. /\ phase[cur] = "None" /\ spawnable > 0 /\ ~Finished
        /\ phase' = [phase EXCEPT ![cur] = "Starting"]
        /\ proc' = [proc EXCEPT ![cur] = "running"]
        /\ spawnable' = spawnable - 1
        /\ UNCHANGED <<ready, mode, todo, solo>>
        /\ pc' \in {"poll", "dispatch"}
    BY <1>4 DEF DispatchSpawn, MaySpawn, Spawn, NextSlot, queueVars
  <2>2. SlotInv'
    BY <1>0, <2>1
  <2>3. mode = "Solo" => spawnable = 1 /\ Alive = {}
    BY <1>0, <2>1
  <2>4. Running' = Running
    BY <1>0, <2>1
  <2>5. Alive = {} => Alive' = {cur}
    BY <1>0, <2>1
  <2>6. SoloInv'
    BY <1>0, <2>1, <2>3, <2>4, <2>5
  <2>7. ExitingOnlyWhenFinished'
    BY <1>0, <2>1
  <2> QED BY <2>2, <2>6, <2>7
<1>5. CASE SpawnThrows
  BY <1>5, ControlOutside DEF SpawnThrows, JustThrow, Throw, MainPc
<1>6. CASE DispatchNothing
  BY <1>0, <1>6 DEF DispatchNothing, NextSlot, slotVars, queueVars,
                    workerVars, procVars
<1> QED BY <1>1, <1>2, <1>3, <1>4, <1>5, <1>6 DEF Dispatch, SendFailed

(* The end of a process: its slot is reset, or an exception is thrown.     *)
LEMMA OnEofControl ==
  ASSUME TypeInv, Control, NEW w \in Worker, OnEof(w, TRUE), InLoop,
         phase[w] # "None", pc' # "throw",
         pc' \in {"read", "dispatch", "poll"},
         pc' = "read" => ready \subseteq Alive /\ w \notin ready,
         pc' # "read" => phase[w] # "Exiting",
         UNCHANGED ready
  PROVE  Control'
<1> USE DEF SlotInv, SoloInv, ExitingOnlyWhenFinished, Control, InLoop,
        LoopPc, Alive, Running, InPhase, Finished
<1>0. /\ phase \in [Worker -> Phase] /\ proc \in [Worker -> ProcState]
  BY DEF TypeInv, SlotOK, SlotTypeOK, ProcInv, ProcTypeOK
<1>1. ResetWorkers({w})
  BY DEF OnEof, OnKilled, Throw
<1>2. /\ proc' = [v \in Worker |-> IF v = w THEN "none" ELSE proc[v]]
      /\ phase' = [v \in Worker |-> IF v = w THEN "None" ELSE phase[v]]
  BY <1>1 DEF ResetWorkers, DestroyAll
<1>3. SlotInv'
  BY <1>0, <1>2
<1>4. CASE phase[w] = "Exiting"
  <2>1. UNCHANGED <<todo, solo, mode>>
    BY <1>4 DEF OnEof, queueVars
  <2>2. Running' = Running /\ Alive' \subseteq Alive
    BY <1>0, <1>2, <1>4
  <2>3. SoloInv'
    BY <1>4, <2>1, <2>2
  <2>4. ExitingOnlyWhenFinished'
    BY <1>0, <1>4, <2>1, <2>2
  <2> QED BY <1>3, <2>3, <2>4
<1>5. CASE phase[w] # "Exiting"
  <2>1. OnKilled(w)
    BY <1>5 DEF OnEof, Throw
  <2>2. mode' = "Parallel" /\ todo' = todo
    BY <2>1 DEF OnKilled, LeaveSolo
  <2>3. SoloInv'
    BY <2>2
  <2>4. w \notin Running => solo' = solo
    BY <2>1 DEF OnKilled, GivesUp, QueueRetry
  <2>5. InPhase("Exiting")' = InPhase("Exiting")
    BY <1>0, <1>2, <1>5
  <2>6. Finished => Finished'
    BY <1>0, <1>2, <2>2, <2>4
  <2>7. ExitingOnlyWhenFinished'
    BY <2>5, <2>6
  <2> QED BY <1>3, <2>3, <2>7
<1> QED BY <1>4, <1>5

LEMMA SendFailedControl ==
  ASSUME TypeInv, Control, SendFailed PROVE Control'
<1>1. cur \in Worker /\ phase[cur] = "Busy" /\ InLoop
  BY DEF TypeInv, LocalTypeOK, Control, SlotInv, InLoop, LoopPc, SendFailed
<1>2. OnEof(cur, TRUE) /\ UNCHANGED ready
  BY DEF SendFailed, OnEof
<1>3. CASE pc' = "throw"
  BY <1>3, ControlOutside DEF MainPc
<1>4. CASE pc' # "throw"
  <2>1. pc' \in {"dispatch", "poll"}
    BY <1>4 DEF SendFailed, OnEof, NextSlot, Throw
  <2> QED BY <1>1, <1>2, <1>4, <2>1, OnEofControl
<1> QED BY <1>3, <1>4

LEMMA EofAfterLinesControl ==
  ASSUME TypeInv, Control, EofAfterLines PROVE Control'
<1>1. /\ cur \in Worker /\ phase[cur] # "None" /\ InLoop
      /\ ready \subseteq Alive /\ cur \notin ready
  BY DEF TypeInv, LocalTypeOK, Control, SlotInv, InLoop, LoopPc, EofAfterLines
<1>2. OnEof(cur, TRUE) /\ UNCHANGED ready
  BY DEF EofAfterLines, OnEof
<1>3. CASE pc' = "throw"
  BY <1>3, ControlOutside DEF MainPc
<1>4. CASE pc' # "throw"
  <2>1. pc' = "read"
    BY <1>4 DEF EofAfterLines, OnEof, Throw
  <2> QED BY <1>1, <1>2, <1>4, <2>1, OnEofControl
<1> QED BY <1>3, <1>4

(* The head of the loop: Solo begins with no process at all. *)
LEMMA TopControl ==
  ASSUME TypeInv, Control, LoopExit \/ Interrupt \/ BeginSolo \/ BeginDispatch
  PROVE  Control'
<1> USE DEF SlotInv, SoloInv, ExitingOnlyWhenFinished, Control, InLoop,
        LoopPc, Alive, Running, InPhase, Finished
<1>1. CASE LoopExit
  BY <1>1, ControlOutside DEF LoopExit, MainPc
<1>2. CASE Interrupt
  BY <1>2, ControlOutside DEF Interrupt, JustThrow, Throw, MainPc
<1>3. CASE BeginSolo
  <2>1. /\ phase' = [v \in Worker |-> "None"]
        /\ proc' = [v \in Worker |-> "none"]
    BY <1>3 DEF BeginSolo, ResetWorkers, DestroyAll, SlotsDroppedForSolo
  <2>2. /\ pc' = "dispatch" /\ spawnable' = 1 /\ solo' = solo /\ solo # <<>>
    BY <1>3 DEF BeginSolo, MustEnterSolo
  <2>3. Alive' = {} /\ Running' = {} /\ InPhase("Exiting")' = {}
    BY <2>1
  <2>4. SlotInv'
    BY <2>1, <2>2
  <2>5. SoloInv'
    BY <2>2, <2>3
  <2> QED BY <2>3, <2>4, <2>5
<1>4. CASE BeginDispatch
  <2>1. /\ pc = "top" /\ pc' = "dispatch" /\ spawnable' = Spawnable
        /\ UNCHANGED <<phase, proc, todo, solo, mode>>
    BY <1>4 DEF BeginDispatch, LoopGoesOn, slotVars, queueVars, workerVars,
                procVars
  <2>2. mode = "Solo" => Spawnable = 0 \/ (Spawnable = 1 /\ Alive = {})
    BY DEF Spawnable, AnyWorkerAlive
  <2>3. SlotInv'
    BY <2>1
  <2>4. SoloInv'
    BY <2>1, <2>2
  <2>5. ExitingOnlyWhenFinished'
    BY <2>1
  <2> QED BY <2>3, <2>4, <2>5
<1> QED BY <1>1, <1>2, <1>3, <1>4

(* pollWorkers() up to the lines. *)
LEMMA PollControl ==
  ASSUME TypeInv, Control, PollWorkers PROVE Control'
<1> USE DEF SlotInv, SoloInv, ExitingOnlyWhenFinished, Control, InLoop,
        LoopPc, Alive, Running, InPhase, Finished
<1>0. /\ phase \in [Worker -> Phase] /\ proc \in [Worker -> ProcState]
      /\ victim \in Worker
  BY DEF TypeInv, SlotOK, SlotTypeOK, ProcInv, ProcTypeOK, LocalTypeOK
<1>1. ASSUME UNCHANGED <<phase, proc, todo, solo, mode>>, InLoop,
             pc' \in {"top", "sample", "kill", "read", "lines"},
             pc' = "kill" => phase[victim'] = "Busy",
             pc' # "top" => ready' \subseteq Alive,
             pc' = "lines" => cur' \notin ready'
      PROVE  Control'
  <2>1. SlotInv'
    BY <1>1
  <2>2. SoloInv'
    BY <1>1
  <2>3. ExitingOnlyWhenFinished'
    BY <1>1
  <2> QED BY <2>1, <2>2, <2>3
<1>2. CASE Poll
  BY <1>1, <1>2 DEF Poll, Readable, slotVars, queueVars, workerVars, procVars
<1>3. CASE SampleMemory
  BY <1>1, <1>3 DEF SampleMemory, IsVictim, workerVars, procVars
<1>4. CASE EndPoll
  BY <1>1, <1>4 DEF EndPoll, slotVars, queueVars, workerVars, procVars
<1>5. CASE Fill
  BY <1>1, <1>5 DEF Fill, slotVars, queueVars
<1>6. CASE KillVictim
  <2>1. /\ phase' = [phase EXCEPT ![victim] = "Killed"]
        /\ pc = "kill" /\ pc' = "read"
        /\ UNCHANGED <<todo, solo, mode, ready>>
    BY <1>6 DEF KillVictim, queueVars, localVars
  <2>2. \A w \in Worker : proc'[w] = "none" <=> proc[w] = "none"
    BY <1>0, <1>6 DEF KillVictim, SigKill
  <2>3. phase[victim] = "Busy"
    BY <2>1
  <2>4. /\ Alive' = Alive /\ Running' = Running
        /\ InPhase("Exiting")' = InPhase("Exiting")
    BY <1>0, <2>1, <2>2, <2>3
  <2>5. SlotInv'
    BY <1>0, <2>1, <2>2, <2>3, <2>4
  <2>6. SoloInv'
    BY <2>1, <2>4
  <2>7. ExitingOnlyWhenFinished'
    BY <2>1, <2>4
  <2> QED BY <2>5, <2>6, <2>7
<1> QED BY <1>2, <1>3, <1>4, <1>5, <1>6 DEF PollWorkers

(* The answer to a job ends Solo, and nobody was told to exit before it.   *)
LEMMA JobFinishedControl ==
  ASSUME TypeInv, Control, LineIs("Busy", "response"), JobFinished(cur),
         UNCHANGED <<proc, ready, cur, pc>>
  PROVE  Control'
<1> USE DEF SlotInv, SoloInv, ExitingOnlyWhenFinished, Control, InLoop,
        LoopPc, Alive, Running, InPhase, Finished
<1>1. /\ cur \in Worker /\ phase \in [Worker -> Phase] /\ phase[cur] = "Busy"
      /\ phase' = [phase EXCEPT ![cur] = "Starting"]
      /\ pc = "lines" /\ mode' = "Parallel"
  BY DEF TypeInv, LocalTypeOK, SlotOK, SlotTypeOK, LineIs, JobFinished,
         LeaveSolo
<1>2. SlotInv'
  BY <1>1
<1>3. SoloInv'
  BY <1>1
<1>4. ~Finished
  BY <1>1
<1>5. InPhase("Exiting")' = {}
  BY <1>1, <1>4
<1>6. ExitingOnlyWhenFinished'
  BY <1>5
<1> QED BY <1>2, <1>3, <1>6

LEMMA OnLineControl ==
  ASSUME TypeInv, Control, OnLine PROVE Control'
<1> USE DEF SlotInv, SoloInv, ExitingOnlyWhenFinished, Control, InLoop,
        LoopPc, Alive, Running, InPhase, Finished
<1>0. /\ phase \in [Worker -> Phase] /\ proc \in [Worker -> ProcState]
      /\ cur \in Worker
  BY DEF TypeInv, SlotOK, SlotTypeOK, ProcInv, ProcTypeOK, LocalTypeOK
<1>1. CASE LineNext
  <2>1. /\ phase[cur] = "Starting" /\ pc = "lines"
        /\ phase' = [phase EXCEPT ![cur] = "Idle"]
        /\ UNCHANGED <<proc, ready, todo, solo, mode, pc, cur>>
    BY <1>1 DEF LineNext, LineIs, queueVars, workerVars, procVars
  <2>2. Running' = Running /\ InPhase("Exiting")' = InPhase("Exiting")
    BY <1>0, <2>1
  <2>3. SlotInv'
    BY <1>0, <2>1
  <2>4. SoloInv'
    BY <2>1, <2>2
  <2>5. ExitingOnlyWhenFinished'
    BY <2>1, <2>2
  <2> QED BY <2>3, <2>4, <2>5
<1>2. CASE LineRestart
  <2>1. /\ phase[cur] = "Starting" /\ pc = "lines"
        /\ proc' = [w \in Worker |-> IF w = cur THEN "none" ELSE proc[w]]
        /\ phase' = [w \in Worker |-> IF w = cur THEN "None" ELSE phase[w]]
        /\ UNCHANGED <<ready, todo, solo, mode, pc, cur>>
    BY <1>2 DEF LineRestart, LineIs, ResetWorkers, DestroyAll, queueVars
  <2>2. /\ Running' = Running /\ InPhase("Exiting")' = InPhase("Exiting")
        /\ Alive' \subseteq Alive
    BY <1>0, <2>1
  <2>3. SlotInv'
    BY <1>0, <2>1
  <2>4. SoloInv'
    BY <2>1, <2>2
  <2>5. ExitingOnlyWhenFinished'
    BY <2>1, <2>2
  <2> QED BY <2>3, <2>4, <2>5
<1>3. CASE LineUnexpected
  BY <1>3, ControlOutside DEF LineUnexpected, JustThrow, Throw, MainPc
<1>4. CASE LineIgnored
  <2>1. UNCHANGED <<phase, proc, ready, todo, solo, mode, pc, cur>>
    BY <1>4 DEF LineIgnored, slotVars, queueVars, workerVars, procVars
  <2>2. pc = "lines"
    BY <1>4 DEF LineIgnored
  <2>3. SlotInv'
    BY <2>1, <2>2
  <2>4. SoloInv' /\ ExitingOnlyWhenFinished'
    BY <2>1, <2>2
  <2> QED BY <2>3, <2>4
<1>5. CASE ResponseAttrs
  BY <1>5, JobFinishedControl DEF ResponseAttrs, workerVars, procVars
<1>6. CASE ResponseJobPushed
  BY <1>6, JobFinishedControl DEF ResponseJobPushed, workerVars, procVars
<1>7. CASE ResponseEmitted
  BY <1>7, JobFinishedControl DEF ResponseEmitted, workerVars, procVars
<1>8. CASE ResponseThrows
  BY <1>8, ControlOutside DEF ResponseThrows, Throw, MainPc
<1> QED BY <1>1, <1>2, <1>3, <1>4, <1>5, <1>6, <1>7, <1>8 DEF OnLine

LEMMA NextControl ==
  ASSUME TypeInv, Control, [Next]_vars PROVE Control'
<1>1. CASE SchedulerStep
  <2>1. CASE Dispatch
    <3>1. pc = "dispatch" \/ SendFailed
      BY <2>1 DEF Dispatch, DispatchExit, DispatchSolo, DispatchTodo,
                  DispatchSpawn, SpawnThrows, DispatchNothing
    <3> QED BY <2>1, <3>1, DispatchControl, SendFailedControl
  <2>2. CASE EndLines
    <3>1. /\ pc = "lines" /\ pc' = "read"
          /\ UNCHANGED <<slotVars, queueVars, localVars, workerVars>>
      BY <2>2 DEF EndLines
    <3>2. UNCHANGED <<phase, proc, todo, solo, mode, ready, cur>>
      BY <3>1 DEF slotVars, queueVars, localVars, workerVars, procVars
    <3>3. Alive' = Alive /\ Running' = Running
          /\ InPhase("Exiting")' = InPhase("Exiting")
      BY <3>2 DEF Alive, Running, InPhase
    <3> QED BY <3>1, <3>2, <3>3 DEF Control, SlotInv, SoloInv, InLoop, LoopPc,
               ExitingOnlyWhenFinished, Finished
  <2>3. CASE DestroyScheduler
    BY <2>3, ControlOutside DEF DestroyScheduler, MainPc
  <2> QED BY <1>1, <2>1, <2>2, <2>3, TopControl, PollControl, OnLineControl,
             EofAfterLinesControl DEF SchedulerStep
<1>2. CASE MainStep
  <2>1. pc' \in MainPc
    BY <1>2 DEF MainStep, FinishClose, FinishNotify, FinishJoin, AfterJoin,
                Constituents, ConstituentsThrow, UnwindClose, UnwindDiscard,
                UnwindJoin, MainGoes, MainPc
  <2> QED BY <2>1, ControlOutside
<1>3. CASE \E w \in Worker : ProgramOf(w) \/ KernelOf(w)
  <2>1. PICK w \in Worker : ProgramOf(w) \/ KernelOf(w)
    BY <1>3
  <2>2. \A v \in Worker : proc'[v] = "none" <=> proc[v] = "none"
    BY <2>1, WorkerKeepsAlive DEF ProgramOf, KernelOf, TypeInv, ProcInv
  <2>3. UNCHANGED schedulerVars
    BY <2>1 DEF ProgramOf, KernelOf
  <2> QED BY <2>2, <2>3, ControlFrame
<1>4. CASE Thread \/ ThreadFails \/ StdoutCloses \/ UNCHANGED vars
  <2>1. UNCHANGED <<proc, schedulerVars>>
    BY <1>4 DEF Thread, ThreadFails, StdoutCloses, vars, workerVars, procVars
  <2> QED BY <2>1, ControlFrame
<1>5. CASE CollectorDies
  BY <1>5, ControlOutside DEF CollectorDies, MainPc
<1> QED BY <1>1, <1>2, <1>3, <1>4, <1>5 DEF Next, Collector, Terminated

LEMMA InitControl == Init => Control
<1> SUFFICES ASSUME Init PROVE Control
  OBVIOUS
<1>1. /\ pc = "top" /\ mode = "Parallel"
      /\ phase = [w \in Worker |-> "None"] /\ proc = [w \in Worker |-> "none"]
  BY DEF Init, SchedulerInit, WorkerInit, ProcInit
<1> QED BY <1>1 DEF Control, SlotInv, SoloInv, ExitingOnlyWhenFinished, InPhase

-----------------------------------------------------------------------------
(* Theorems.                                                               *)

LEMMA Invariant == Spec => []IInv
<1>1. Init => IInv
  BY InitType, InitControl DEF IInv, Control
<1>2. IInv /\ [Next]_vars => IInv'
  BY NextType, NextControl DEF IInv, Control
<1> QED BY <1>1, <1>2, PTL DEF Spec

(* Every variable keeps its type; in particular every line that is written *)
(* to a pipe is one of the protocol, every path that is queued, retried,   *)
(* pushed to the resolver or reported is one of the expression, and        *)
(* dispatch()'s unsigned counter of processes to spawn does not wrap       *)
(* around.                                                                 *)
THEOREM TypeCorrect == Spec => []TypeOK
<1>1. IInv => TypeOK
  BY DEF IInv, TypeInv, TypeOK, WorkerTypeOK, SchedulerTypeOK, ProcInv, EnvOK,
         SlotOK, TodoOK, PcOK
<1> QED BY <1>1, Invariant, PTL

(* A slot has a process exactly when it is in use, at every point of the   *)
(* event loop: the process that dispatch, sampleMemory and readWorker      *)
(* follow is there.                                                        *)
THEOREM SlotsAreSound == Spec => []SlotsInUse
<1>1. IInv => SlotsInUse
  <2> SUFFICES ASSUME IInv, InLoop PROVE SlotsInUse
    BY DEF SlotsInUse
  <2>1. SlotInv /\ cur \in Worker
    BY DEF IInv, TypeInv, LocalTypeOK
  <2> QED BY <2>1 DEF SlotInv, SlotsInUse
<1> QED BY <1>1, Invariant, PTL

(* Solo mode is exclusive for any number of workers: also while the kernel *)
(* kills workers and the retried job's worker is restarted or replaced, no *)
(* second process exists.                                                  *)
THEOREM SoloIsAlone == Spec => []SoloAlone
<1>1. IInv => SoloAlone
  <2> SUFFICES ASSUME IInv, InLoop, mode = "Solo"
               PROVE  Cardinality(Alive) <= 1
    BY DEF SoloAlone
  <2>1. \A v, w \in Alive : v = w
    BY DEF IInv, SoloInv
  <2>2. CASE Alive = {}
    BY <2>2, FS_EmptySet
  <2>3. CASE Alive # {}
    <3>1. PICK v : v \in Alive
      BY <2>3
    <3>2. Alive = {v}
      BY <2>1, <3>1
    <3>3. Cardinality(Alive) = 1
      BY <3>2, FS_Singleton
    <3> QED BY <3>3
  <2> QED BY <2>2, <2>3
<1> QED BY <1>1, Invariant, PTL

(* takeJob never calls solo.back() of an empty vector. *)
THEOREM SoloIsSupplied == Spec => []SoloHasWork
<1>1. IInv => SoloHasWork
  BY DEF IInv, SoloInv, SoloHasWork
<1> QED BY <1>1, Invariant, PTL

(* No worker is told to exit while there is work, and none turns up once   *)
(* one has been told.                                                      *)
THEOREM ExitIsFinal == Spec => []ExitingOnlyWhenFinished
<1>1. IInv => ExitingOnlyWhenFinished
  BY DEF IInv
<1> QED BY <1>1, Invariant, PTL

-----------------------------------------------------------------------------
(* "Don't spawn more workers than there are jobs to hand out": spawnable   *)
(* is computed once, before the loop of dispatch() hands out jobs, spawns  *)
(* processes and drops those to which it cannot write.  The proof counts   *)
(* what each of those does to the two sides.                               *)


(* What is left of spawnable is covered by jobs that no waiting worker     *)
(* will take; a worker of a Solo retry leaves nothing of it.               *)
Covered == Cardinality(Waiting) + spawnable <= Cardinality(todo)

SpawnInv ==
  /\ pc \in {"dispatch", "sendFailed"} /\ mode = "Parallel" /\ spawnable > 0
       => Covered
  /\ pc = "sendFailed" /\ mode = "Solo" => spawnable = 0

(* Counting slots and jobs.                                                *)

LEMMA SlotsFinite ==
  /\ IsFiniteSet(Worker)
  /\ \A S \in SUBSET Worker : IsFiniteSet(S) /\ Cardinality(S) \in Nat
<1>1. IsFiniteSet(Worker)
  BY WorkersAssumption, FS_Interval DEF Worker, WorkersAssumption
<1> QED BY <1>1, FS_Subset, FS_CardinalityType

LEMMA Counted ==
  ASSUME TypeInv
  PROVE  /\ Waiting \subseteq Worker /\ IsFiniteSet(Waiting)
         /\ Cardinality(Waiting) \in Nat
         /\ IsFiniteSet(todo) /\ Cardinality(todo) \in Nat
         /\ spawnable \in Nat /\ cur \in Worker
<1>1. Waiting \subseteq Worker
  BY DEF Waiting, InPhase
<1> QED BY <1>1, SlotsFinite, FS_CardinalityType
        DEF TypeInv, TodoOK, LocalTypeOK

(* The steps of dispatch().                                                *)

(* A job is handed out: one job and one waiting worker less.               *)
LEMMA HandOutSpawn ==
  ASSUME TypeInv, IInv, SpawnInv, pc = "dispatch", IsFree(cur),
         DispatchSolo \/ DispatchTodo
  PROVE  SpawnInv'
<1>0. PICK w \in Worker : w = cur
  BY DEF TypeInv, LocalTypeOK
<1>1. /\ phase[w] = "Idle" /\ phase' = [phase EXCEPT ![w] = "Busy"]
      /\ phase \in [Worker -> Phase]
      /\ UNCHANGED <<mode, spawnable>>
  BY <1>0 DEF IsFree, DispatchSolo, DispatchTodo, HandOut, TypeInv, SlotOK,
              SlotTypeOK
<1>2. CASE DispatchSolo
  <2>1. mode = "Solo"
    BY <1>2 DEF DispatchSolo, MayTakeSolo
  <2>2. w \in Alive
    BY <1>1 DEF IInv, SlotInv, InLoop, LoopPc, Alive
  <2>3. spawnable = 0
    BY <2>1, <2>2 DEF IInv, SoloInv, InLoop, LoopPc
  <2> QED BY <1>1, <2>1, <2>3 DEF SpawnInv
<1>3. CASE DispatchTodo
  <2>1. PICK p \in todo : todo' = todo \ {p}
    BY <1>3 DEF DispatchTodo
  <2>2. w \in Waiting /\ Waiting' = Waiting \ {w}
    BY <1>1 DEF Waiting, InPhase
  <2>3. /\ Cardinality(Waiting') = Cardinality(Waiting) - 1
        /\ Cardinality(todo') = Cardinality(todo) - 1
    BY <2>1, <2>2, Counted, FS_RemoveElement
  <2>4. Covered => Covered'
    BY <1>1, <2>3, Counted DEF Covered
  <2>5. mode = "Parallel"
    BY <1>3 DEF DispatchTodo, MayTakeTodo
  <2> QED BY <1>1, <2>4, <2>5 DEF SpawnInv
<1> QED BY <1>2, <1>3

(* A process is spawned: one waiting worker more, one spawnable less.      *)
LEMMA SpawnCounted ==
  ASSUME TypeInv, DispatchSpawn
  PROVE  /\ Waiting' = Waiting \cup {cur} /\ cur \notin Waiting
         /\ Cardinality(Waiting') = Cardinality(Waiting) + 1
         /\ spawnable > 0 /\ spawnable' = spawnable - 1
<1>0. PICK w \in Worker : w = cur
  BY DEF TypeInv, LocalTypeOK
<1>1. /\ phase[w] = "None" /\ phase' = [phase EXCEPT ![w] = "Starting"]
      /\ spawnable > 0 /\ spawnable' = spawnable - 1
      /\ phase \in [Worker -> Phase]
  BY <1>0 DEF DispatchSpawn, MaySpawn, TypeInv, SlotOK, SlotTypeOK
<1>2. Waiting' = Waiting \cup {w} /\ w \notin Waiting
  BY <1>1 DEF Waiting, InPhase
<1>3. Cardinality(Waiting') = Cardinality(Waiting) + 1
  BY <1>2, Counted, FS_AddElement
<1> QED BY <1>0, <1>1, <1>2, <1>3

(* A worker that is gone was busy, not waiting.                            *)
LEMMA SendFailedSpawn ==
  ASSUME TypeInv, IInv, SpawnInv, SendFailed
  PROVE  SpawnInv'
<1>0. PICK w \in Worker : w = cur
  BY DEF TypeInv, LocalTypeOK
<1>1. phase[w] = "Busy" /\ pc = "sendFailed" /\ spawnable' = spawnable
  BY <1>0 DEF IInv, SlotInv, InLoop, LoopPc, SendFailed
<1>2. CASE pc' = "throw"
  BY <1>2 DEF SpawnInv
<1>3. CASE pc' # "throw"
  <2>1. OnKilled(w)
    BY <1>0, <1>1, <1>3 DEF SendFailed, OnEof, Throw
  <2>2. /\ phase' = [v \in Worker |-> IF v \in {w} THEN "None" ELSE phase[v]]
        /\ mode' = "Parallel" /\ todo' = todo
    BY <2>1 DEF OnKilled, ResetWorkers, LeaveSolo
  <2>3. Waiting' = Waiting
    BY <1>1, <2>2 DEF Waiting, InPhase
  <2>4. Covered => Covered'
    BY <1>1, <2>2, <2>3 DEF Covered
  <2>5. mode \in {"Parallel", "Solo"}
    BY DEF TypeInv, TodoOK, QueueTypeOK
  <2>6. pc' # "sendFailed"
    BY <1>0, <1>1, <1>3 DEF SendFailed, OnEof, NextSlot, Throw
  <2> QED BY <1>1, <2>2, <2>4, <2>5, <2>6 DEF SpawnInv
<1> QED BY <1>2, <1>3

LEMMA NextSpawn ==
  ASSUME IInv, SpawnInv, [Next]_vars
  PROVE  SpawnInv'
<1>0. TypeInv /\ spawnable \in Nat
  BY DEF IInv, TypeInv, LocalTypeOK
<1>1. CASE BeginDispatch
  <2>1. /\ pc' = "dispatch" /\ spawnable' = Spawnable
        /\ UNCHANGED <<phase, todo, mode>>
    BY <1>1 DEF BeginDispatch, slotVars, queueVars
  <2>2. Waiting' = Waiting
    BY <2>1 DEF Waiting, InPhase
  <2>3. mode = "Parallel" /\ Spawnable > 0 =>
          Cardinality(Waiting) + Spawnable <= Cardinality(todo)
    BY <1>0, Counted DEF Spawnable
  <2> QED BY <2>1, <2>2, <2>3 DEF SpawnInv, Covered
<1>2. CASE DispatchExit
  <2>1. todo = {} /\ pc = "dispatch"
    BY <1>2 DEF DispatchExit, Finished
  <2>2. Cardinality(todo) = 0
    BY <2>1, FS_EmptySet
  <2>3. mode = "Parallel" => ~(spawnable > 0)
    BY <1>0, <2>1, <2>2, Counted DEF SpawnInv, Covered
  <2>4. UNCHANGED <<spawnable, mode>> /\ pc' # "sendFailed"
    BY <1>2 DEF DispatchExit, NextSlot, queueVars
  <2> QED BY <2>3, <2>4 DEF SpawnInv
<1>3. CASE DispatchSolo \/ DispatchTodo
  BY <1>0, <1>3, HandOutSpawn DEF DispatchSolo, DispatchTodo
<1>4. CASE DispatchSpawn
  <2>1. /\ Cardinality(Waiting') = Cardinality(Waiting) + 1
        /\ spawnable > 0 /\ spawnable' = spawnable - 1
    BY <1>0, <1>4, SpawnCounted
  <2>2. UNCHANGED <<todo, mode>> /\ pc = "dispatch" /\ pc' # "sendFailed"
    BY <1>4 DEF DispatchSpawn, NextSlot, queueVars
  <2>3. Covered => Covered'
    BY <1>0, <2>1, <2>2, Counted DEF Covered
  <2> QED BY <1>0, <2>1, <2>2, <2>3 DEF SpawnInv
<1>5. CASE DispatchNothing
  <2>1. /\ UNCHANGED <<phase, todo, mode, spawnable>> /\ pc = "dispatch"
        /\ pc' # "sendFailed"
    BY <1>5 DEF DispatchNothing, NextSlot, slotVars, queueVars
  <2>2. Waiting' = Waiting
    BY <2>1 DEF Waiting, InPhase
  <2> QED BY <2>1, <2>2 DEF SpawnInv, Covered
<1>6. CASE SendFailed
  BY <1>0, <1>6, SendFailedSpawn
<1>7. CASE BeginSolo
  BY <1>7 DEF BeginSolo, SpawnInv
<1>8. CASE MainStep
  BY <1>8 DEF MainStep, FinishClose, FinishNotify, FinishJoin, AfterJoin,
     Constituents, ConstituentsThrow, UnwindClose, UnwindDiscard,
     UnwindJoin, MainGoes, SpawnInv
<1>9. CASE LoopExit \/ Interrupt \/ SpawnThrows \/ PollWorkers \/ OnLine
             \/ EndLines \/ EofAfterLines \/ DestroyScheduler \/ CollectorDies
  <2>1. pc' \notin {"dispatch", "sendFailed"}
    BY <1>9 DEF LoopExit, Interrupt, SpawnThrows, JustThrow, Throw,
       PollWorkers, Poll, SampleMemory, KillVictim, EndPoll, Fill, OnLine,
       LineNext, LineRestart, LineUnexpected, LineIgnored, ResponseAttrs,
       ResponseJobPushed, ResponseEmitted, ResponseThrows, LineIs, EndLines,
       EofAfterLines, OnEof, DestroyScheduler, CollectorDies
  <2> QED BY <2>1 DEF SpawnInv
<1>10. CASE \/ \E w \in Worker : ProgramOf(w) \/ KernelOf(w)
            \/ Thread \/ ThreadFails \/ StdoutCloses \/ UNCHANGED vars
  <2>1. UNCHANGED schedulerVars
    BY <1>10 DEF ProgramOf, KernelOf, Thread, ThreadFails, StdoutCloses, vars
  <2>2. UNCHANGED <<phase, todo, mode, spawnable, pc>>
    BY <2>1 DEF schedulerVars, slotVars, queueVars, localVars
  <2>3. Waiting' = Waiting
    BY <2>2 DEF Waiting, InPhase
  <2> QED BY <2>2, <2>3 DEF SpawnInv, Covered
<1> QED BY <1>1, <1>2, <1>3, <1>4, <1>5, <1>6, <1>7, <1>8, <1>9, <1>10
        DEF Next, Collector, SchedulerStep, Dispatch, Terminated

-----------------------------------------------------------------------------
(* Theorem.                                                                *)

(* A process is only created for a job: after a spawn in Parallel no more  *)
(* workers wait than jobs do, and in Solo the new process is the only one. *)
THEOREM SpawnsAreCovered == Spec => SpawnedForAJob
<1> DEFINE waiting == {w \in Worker : phase'[w] \in {"Starting", "Idle"}}
           Wanted == Cardinality(waiting)
                       <= IF mode = "Solo" THEN 1 ELSE Cardinality(todo)
<1>1. Init => SpawnInv
  BY DEF Init, SchedulerInit, SpawnInv
<1>2. IInv /\ SpawnInv /\ [Next]_vars => SpawnInv'
  BY NextSpawn
<1>3. IInv /\ SpawnInv /\ DispatchSpawn => Wanted
  <2> SUFFICES ASSUME IInv, SpawnInv, DispatchSpawn PROVE Wanted
    OBVIOUS
  <2>1. TypeInv /\ pc = "dispatch"
    BY DEF IInv, DispatchSpawn
  <2>2. waiting = Waiting'
    BY DEF Waiting, InPhase
  <2>3. /\ Waiting' = Waiting \cup {cur}
        /\ Cardinality(Waiting') = Cardinality(Waiting) + 1
        /\ spawnable > 0
    BY <2>1, SpawnCounted
  <2>4. CASE mode = "Solo"
    <3>1. Alive = {}
      BY <2>1, <2>3, <2>4 DEF IInv, SoloInv, InLoop, LoopPc
    <3>2. Waiting = {}
      BY <2>1, <3>1 DEF IInv, SlotInv, InLoop, LoopPc, Alive, Waiting, InPhase
    <3>3. Cardinality(Waiting) = 0
      BY <3>2, FS_EmptySet
    <3> QED BY <2>2, <2>3, <2>4, <3>3
  <2>5. CASE mode # "Solo"
    <3>1. mode = "Parallel"
      BY <2>1, <2>5 DEF TypeInv, TodoOK, QueueTypeOK
    <3>2. Cardinality(Waiting) + spawnable <= Cardinality(todo)
      BY <2>1, <2>3, <3>1 DEF SpawnInv, Covered
    <3> QED BY <2>1, <2>2, <2>3, <2>5, <3>2, Counted
  <2> QED BY <2>4, <2>5
<1>4. IInv /\ SpawnInv /\ [Next]_vars => [DispatchSpawn => Wanted]_vars
  BY <1>3
<1> QED BY <1>1, <1>2, <1>4, Invariant, PTL DEF Spec, SpawnedForAJob

-----------------------------------------------------------------------------
(***************************************************************************)
(* The protocol.  The collector and a worker agree on whose turn it is:    *)
(* what follows is about the pipes of a slot, the control of the process   *)
(* behind them and the phase that the slot is in.                          *)
(***************************************************************************)
(* Lines, and short sequences of them.                                     *)

LEMMA LineTypes ==
  /\ MsgNext.type = "next" /\ MsgRestart.type = "restart"
  /\ InitErrorLine.type = "initError"
  /\ ConfigLine.type = "config" /\ MsgExit.type = "exit"
  /\ \A p : /\ MsgDo(p).type = "do" /\ MsgDo(p).attrPath = p
            /\ ResponseLine(p).type = "response"
            /\ ResponseLine(p).attrPath = p
  BY DEF MsgNext, MsgRestart, InitErrorLine, ConfigLine, MsgExit, MsgDo,
         ResponseLine

LEMMA ShortSeqs ==
  ASSUME NEW k, NEW l
  PROVE  /\ <<k>> # <<>> /\ Head(<<k>>) = k /\ Tail(<<k>>) = <<>>
         /\ Append(<<>>, k) = <<k>>
         /\ <<k, l>> # <<>> /\ Head(<<k, l>>) = k /\ Tail(<<k, l>>) = <<l>>
         /\ Append(<<k>>, l) = <<k, l>>
         /\ \A i \in DOMAIN <<k>> : <<k>>[i] = k
         /\ \A i \in DOMAIN <<k, l>> : <<k, l>>[i] \in {k, l}
<1> DEFINE S == {k, l}
<1>1. <<k>> \in Seq(S) /\ <<k, l>> \in Seq(S) /\ k \in S /\ l \in S
  OBVIOUS
<1>2. <<k>> # <<>> /\ <<k, l>> # <<>> /\ Head(<<k>>) = k /\ Head(<<k, l>>) = k
  OBVIOUS
<1>3. Append(<<>>, k) = <<k>>
  OBVIOUS
<1>4. Append(<<k>>, l) = <<k, l>>
  <2> HIDE DEF S
  <2>1. /\ Append(<<k>>, l) \in Seq(S)
        /\ Len(Append(<<k>>, l)) = Len(<<k>>) + 1
        /\ \A i \in 1 .. Len(<<k>>) : Append(<<k>>, l)[i] = <<k>>[i]
        /\ Append(<<k>>, l)[Len(<<k>>) + 1] = l
    BY <1>1, AppendProperties
  <2>2. Len(<<k>>) = 1 /\ Len(<<k, l>>) = 2
    OBVIOUS
  <2>3. \A i \in 1 .. 2 : Append(<<k>>, l)[i] = <<k, l>>[i]
    BY <2>1, <2>2
  <2> DEFINE s == Append(<<k>>, l)
             t == <<k, l>>
  <2>4. /\ s \in Seq(S) /\ t \in Seq(S) /\ Len(s) = Len(t) /\ Len(s) = 2
        /\ \A i \in 1 .. 2 : s[i] = t[i]
    BY <1>1, <2>1, <2>2, <2>3
  <2> HIDE DEF s, t
  <2>5. s = t
    BY <2>4, SeqEqual
  <2> QED BY <2>5 DEF s, t
<1>5. Tail(<<k>>) = <<>>
  OBVIOUS
<1>6. Tail(<<k, l>>) = <<l>>
  OBVIOUS
<1>7. \A i \in DOMAIN <<k>> : <<k>>[i] = k
  OBVIOUS
<1>8. \A i \in DOMAIN <<k, l>> : <<k, l>>[i] \in {k, l}
  OBVIOUS
<1> QED BY <1>2, <1>3, <1>4, <1>5, <1>6, <1>7, <1>8

LEMMA ConcatAppend ==
  ASSUME NEW s \in Seq(Line), NEW t \in Seq(Line), NEW l \in Line
  PROVE  Append(s \o t, l) = s \o Append(t, l)
<1>1. s \o t \in Seq(Line) /\ <<l>> \in Seq(Line)
  BY ConcatProperties
<1>2. Append(s \o t, l) = (s \o t) \o <<l>>
  BY <1>1, AppendIsConcat
<1>3. Append(t, l) = t \o <<l>>
  BY AppendIsConcat
<1>4. (s \o t) \o <<l>> = s \o (t \o <<l>>)
  BY <1>1, ConcatAssociative
<1> QED BY <1>2, <1>3, <1>4, Zenon

(* Lines that were read, followed by those that were not.                  *)
LEMMA ConcatLines ==
  ASSUME NEW s \in Seq(Line), NEW t \in Seq(Line)
  PROVE  /\ s \o <<>> = s /\ <<>> \o t = t
         /\ s # <<>> => /\ s \o t # <<>>
                        /\ Head(s \o t) = Head(s)
                        /\ Tail(s \o t) = Tail(s) \o t
         /\ \A i \in DOMAIN s : i \in DOMAIN (s \o t) /\ (s \o t)[i] = s[i]
         /\ \A i \in DOMAIN t : \E j \in DOMAIN (s \o t) : (s \o t)[j] = t[i]
<1>1. s \o <<>> = s /\ <<>> \o t = t
  BY ConcatEmptySeq
<1>2. /\ s \o t \in Seq(Line) /\ Len(s \o t) = Len(s) + Len(t)
      /\ \A i \in 1 .. Len(s) + Len(t) :
           (s \o t)[i] = IF i <= Len(s) THEN s[i] ELSE t[i - Len(s)]
  BY ConcatProperties
<1>3. Len(s) \in Nat /\ Len(t) \in Nat
  OBVIOUS
<1>5. ASSUME s # <<>>
      PROVE  /\ s \o t # <<>>
             /\ Head(s \o t) = Head(s)
             /\ Tail(s \o t) = Tail(s) \o t
  <2>1. Len(s) > 0
    BY <1>5, EmptySeq, <1>3
  <2>2. s \o t # <<>>
    BY <1>2, <1>3, <2>1, EmptySeq
  <2>3. Head(s \o t) = Head(s)
    BY <1>2, <1>3, <2>1, <2>2
  <2>4. /\ Tail(s \o t) \in Seq(Line) /\ Tail(s) \in Seq(Line)
        /\ Len(Tail(s)) = Len(s) - 1
        /\ Len(Tail(s \o t)) = Len(s) + Len(t) - 1
    BY <1>2, <1>5, <2>2, HeadTailProperties
  <2>5. /\ Tail(s) \o t \in Seq(Line)
        /\ Len(Tail(s) \o t) = Len(Tail(s)) + Len(t)
        /\ \A i \in 1 .. Len(Tail(s)) + Len(t) :
             (Tail(s) \o t)[i] = IF i <= Len(Tail(s)) THEN Tail(s)[i]
                                 ELSE t[i - Len(Tail(s))]
    BY <2>4, ConcatProperties
  <2>6. \A i \in 1 .. Len(Tail(s)) : Tail(s)[i] = s[i + 1]
    BY <1>5, HeadTailProperties
  <2>7. \A i \in 1 .. Len(Tail(s \o t)) : Tail(s \o t)[i] = (s \o t)[i + 1]
    BY <1>2, <2>2, HeadTailProperties
  <2>8. \A i \in 1 .. Len(Tail(s \o t)) : Tail(s \o t)[i] = (Tail(s) \o t)[i]
    <3> SUFFICES ASSUME NEW i \in 1 .. Len(Tail(s \o t))
                 PROVE  Tail(s \o t)[i] = (Tail(s) \o t)[i]
      OBVIOUS
    <3>1. Tail(s \o t)[i] = (s \o t)[i + 1] /\ i + 1 \in 1 .. Len(s) + Len(t)
      BY <1>3, <2>4, <2>7
    <3>2. CASE i <= Len(Tail(s))
      BY <1>2, <1>3, <2>4, <2>5, <2>6, <3>1, <3>2
    <3>3. CASE ~(i <= Len(Tail(s)))
      <4>1. (s \o t)[i + 1] = t[i + 1 - Len(s)]
        BY <1>2, <1>3, <2>4, <3>1, <3>3
      <4>2. (Tail(s) \o t)[i] = t[i - (Len(s) - 1)]
        BY <1>3, <2>4, <2>5, <3>3
      <4>3. i + 1 - Len(s) = i - (Len(s) - 1)
        BY <1>3
      <4> QED BY <3>1, <4>1, <4>2, <4>3
    <3> QED BY <3>2, <3>3
  <2>9. Tail(s \o t) = Tail(s) \o t
    BY <1>3, <2>4, <2>5, <2>8, SeqEqual
  <2> QED BY <2>2, <2>3, <2>9
<1>6. \A i \in DOMAIN s : i \in DOMAIN (s \o t) /\ (s \o t)[i] = s[i]
  BY <1>2, <1>3
<1>7. \A i \in DOMAIN t : \E j \in DOMAIN (s \o t) : (s \o t)[j] = t[i]
  <2> SUFFICES ASSUME NEW i \in DOMAIN t
               PROVE  \E j \in DOMAIN (s \o t) : (s \o t)[j] = t[i]
    OBVIOUS
  <2> DEFINE j == Len(s) + i
  <2>1. i \in 1 .. Len(t)
    OBVIOUS
  <2>2. /\ j \in 1 .. Len(s) + Len(t) /\ ~(j <= Len(s))
        /\ j - Len(s) = i
    BY <1>3, <2>1
  <2>3. j \in DOMAIN (s \o t) /\ (s \o t)[j] = t[j - Len(s)]
    BY <1>2, <1>3, <2>2
  <2> QED BY <2>2, <2>3
<1> QED BY <1>1, <1>5, <1>6, <1>7

-----------------------------------------------------------------------------
(* The inductive invariant.                                                *)

(* The lines of worker w that the collector has not handled.               *)
Unread(w) == IF w = cur THEN lines \o fromWorker[w] ELSE fromWorker[w]

(* A slot in Starting awaits MSG_NEXT or MSG_RESTART, after an error of    *)
(* the root value or after a response that was handled.                    *)
StartingAgreed(w) ==
  \/ wpc[w] = "config" /\ toWorker[w] = <<ConfigLine>> /\ Unread(w) = <<>>
  \/ /\ toWorker[w] = <<>>
     /\ \/ wpc[w] \in {"init", "next", "restart"} /\ Unread(w) = <<>>
        \/ wpc[w] = "command" /\ Unread(w) = <<MsgNext>>
        \/ wpc[w] = "return" /\ Unread(w) = <<MsgRestart>>
        \/ wpc[w] = "restart" /\ Unread(w) = <<InitErrorLine>>
        \/ wpc[w] = "return" /\ Unread(w) = <<InitErrorLine, MsgRestart>>

IdleAgreed(w) ==
  wpc[w] = "command" /\ toWorker[w] = <<>> /\ Unread(w) = <<>>

(* The command is in the pipe (or was not written, for the worker is       *)
(* gone), or it is being carried out, or its response is in the pipe.      *)
BusyAgreed(w) ==
  \/ /\ wpc[w] = "command" /\ Unread(w) = <<>>
     /\ toWorker[w] = <<>> \/ toWorker[w] = <<MsgDo(attrPath[w])>>
  \/ /\ toWorker[w] = <<>>
     /\ \/ wpc[w] = "eval" /\ wpath[w] = attrPath[w] /\ Unread(w) = <<>>
        \/ /\ wpc[w] \in {"next", "restart"}
           /\ Unread(w) = <<ResponseLine(attrPath[w])>>
        \/ /\ wpc[w] = "command"
           /\ Unread(w) = <<ResponseLine(attrPath[w]), MsgNext>>
        \/ /\ wpc[w] = "return"
           /\ Unread(w) = <<ResponseLine(attrPath[w]), MsgRestart>>

Agreed(w) ==
  /\ phase[w] = "None" => Unread(w) = <<>>
  /\ phase[w] = "Starting" => StartingAgreed(w)
  /\ phase[w] = "Idle" => IdleAgreed(w)
  /\ phase[w] = "Busy" => BusyAgreed(w)
  /\ phase[w] = "Killed" => proc[w] \notin {"running", "closing"}

(* Nothing is in Proc::buf but while its lines are handled.                *)
BufferInv == pc # "lines" => lines = <<>>

(* In Solo the process has the memory of the root value, and of its job    *)
(* once it has read the command.                                           *)
Fresh(w) ==
  /\ phase[w] \in {"Starting", "Idle"} => heap[w] <= BaseRss
  /\ phase[w] \in {"Busy", "Killed"} =>
       /\ heap[w] <= BaseRss + Cost[attrPath[w]]
       /\ toWorker[w] # <<>> => heap[w] <= BaseRss

AllAgreed == \A w \in Worker : Agreed(w)
AllFresh  == mode = "Solo" => \A w \in Worker : Fresh(w)

ProtocolInv ==
  InLoop => parentAlive /\ BufferInv /\ AllAgreed /\ AllFresh

-----------------------------------------------------------------------------
(* What a step does to the unread lines.                                   *)

LEMMA UnreadIsSeq ==
  ASSUME TypeInv, NEW w \in Worker
  PROVE  /\ lines \in Seq(Line) /\ fromWorker[w] \in Seq(Line)
         /\ lines = <<>> => Unread(w) = fromWorker[w]
<1>1. lines \in Seq(Line) /\ fromWorker[w] \in Seq(Line)
  BY DEF TypeInv, LocalTypeOK, ProcInv, ProcTypeOK
<1> QED BY <1>1, ConcatLines DEF Unread

LEMMA UnreadSame ==
  ASSUME TypeInv, NEW w \in Worker, fromWorker'[w] = fromWorker[w],
         UNCHANGED <<lines, cur>> \/ (lines = <<>> /\ lines' = <<>>)
  PROVE  Unread(w)' = Unread(w)
<1>1. CASE UNCHANGED <<lines, cur>>
  BY <1>1 DEF Unread
<1>2. CASE lines = <<>> /\ lines' = <<>>
  <2>1. Unread(w) = fromWorker[w]
    BY <1>2, UnreadIsSeq
  <2>2. <<>> \o fromWorker[w] = fromWorker[w]
    BY UnreadIsSeq, ConcatLines
  <2> QED BY <1>2, <2>1, <2>2 DEF Unread
<1> QED BY <1>1, <1>2

(* tryWriteLine of a worker, while the collector reads.                    *)
LEMMA UnreadWritten ==
  ASSUME TypeInv, NEW w \in Worker, NEW line \in Line, NEW to,
         parentAlive, WriteLine(w, line, to), UNCHANGED <<lines, cur>>
  PROVE  /\ wpc'[w] = to
         /\ Unread(w) = <<>> => Unread(w)' = <<line>>
         /\ \A k : Unread(w) = <<k>> => Unread(w)' = <<k, line>>
<1>1. fromWorker'[w] = Append(fromWorker[w], line) /\ wpc'[w] = to
  BY DEF WriteLine, GoTo, TypeInv, ProcInv, ProcTypeOK
<1>2. lines \in Seq(Line) /\ fromWorker[w] \in Seq(Line)
  BY UnreadIsSeq
<1>3. Append(lines \o fromWorker[w], line)
        = lines \o Append(fromWorker[w], line)
  BY <1>2, ConcatAppend, Zenon
<1>4. Unread(w)' = Append(Unread(w), line)
  BY <1>1, <1>3, Zenon DEF Unread
<1>5. /\ Append(<<>>, line) = <<line>>
      /\ \A k : Append(<<k>>, line) = <<k, line>>
  BY ShortSeqs
<1>6. Unread(w) = <<>> => Unread(w)' = <<line>>
  BY <1>4, <1>5, Zenon
<1>7. \A k : Unread(w) = <<k>> => Unread(w)' = <<k, line>>
  BY <1>4, <1>5, Zenon
<1> QED BY <1>1, <1>6, <1>7

(* popLine.                                                                *)
LEMMA UnreadPopped ==
  ASSUME TypeInv, lines # <<>>, PopLine, UNCHANGED <<fromWorker, cur>>
  PROVE  /\ Unread(cur) # <<>>
         /\ \A k : Unread(cur) = <<k>> =>
              Head(lines) = k /\ Unread(cur)' = <<>>
         /\ \A k, l : Unread(cur) = <<k, l>> =>
              Head(lines) = k /\ Unread(cur)' = <<l>>
         /\ \A w \in Worker : w # cur => Unread(w)' = Unread(w)
<1>1. lines \in Seq(Line) /\ fromWorker[cur] \in Seq(Line)
  BY UnreadIsSeq DEF TypeInv, LocalTypeOK
<1>2. /\ lines \o fromWorker[cur] # <<>>
      /\ Head(lines \o fromWorker[cur]) = Head(lines)
      /\ Tail(lines \o fromWorker[cur]) = Tail(lines) \o fromWorker[cur]
  BY <1>1, ConcatLines, Zenon
<1>3. /\ Unread(cur) # <<>> /\ Head(Unread(cur)) = Head(lines)
      /\ Unread(cur)' = Tail(Unread(cur))
  BY <1>2, Zenon DEF Unread, PopLine
<1>4. \A k : /\ Head(<<k>>) = k /\ Tail(<<k>>) = <<>>
             /\ \A l : Head(<<k, l>>) = k /\ Tail(<<k, l>>) = <<l>>
  BY ShortSeqs
<1>5. \A k : Unread(cur) = <<k>> => Head(lines) = k /\ Unread(cur)' = <<>>
  BY <1>3, <1>4, Zenon
<1>6. \A k, l : Unread(cur) = <<k, l>> =>
        Head(lines) = k /\ Unread(cur)' = <<l>>
  BY <1>3, <1>4, Zenon
<1>7. \A w \in Worker : w # cur => Unread(w)' = Unread(w)
  BY DEF Unread
<1> QED BY <1>3, <1>5, <1>6, <1>7

(* A step that leaves everything of slot w alone.                          *)
SameSlot(w) ==
  /\ Unread(w)' = Unread(w)
  /\ proc'[w] = proc[w] /\ wpc'[w] = wpc[w] /\ wpath'[w] = wpath[w]
  /\ heap'[w] = heap[w] /\ toWorker'[w] = toWorker[w]
  /\ phase'[w] = phase[w] /\ attrPath'[w] = attrPath[w]

LEMMA SameSlotKeeps ==
  ASSUME NEW w, SameSlot(w)
  PROVE  (Agreed(w) => Agreed(w)') /\ (Fresh(w) => Fresh(w)')
<1>1. Agreed(w) => Agreed(w)'
  BY DEF SameSlot, Agreed, StartingAgreed, IdleAgreed, BusyAgreed
<1>2. Fresh(w) => Fresh(w)'
  BY DEF SameSlot, Fresh
<1> QED BY <1>1, <1>2

(* A step that is about slot w only.                                       *)
LEMMA OneSlot ==
  ASSUME AllAgreed, AllFresh, NEW w \in Worker,
         \A v \in Worker : v # w => SameSlot(v),
         Agreed(w)', mode' = "Solo" => mode = "Solo" /\ Fresh(w)'
  PROVE  AllAgreed' /\ AllFresh'
<1>1. \A v \in Worker : v # w =>
        Agreed(v)' /\ (mode' = "Solo" => Fresh(v)')
  BY SameSlotKeeps DEF AllAgreed, AllFresh
<1>2. AllAgreed' = \A v \in Worker : Agreed(v)'
  BY DEF AllAgreed
<1>3. AllFresh' = (mode' = "Solo" => \A v \in Worker : Fresh(v)')
  BY DEF AllFresh
<1> QED BY <1>1, <1>2, <1>3

LEMMA NoSlot ==
  ASSUME AllAgreed, AllFresh, \A v \in Worker : SameSlot(v),
         mode' = "Solo" => mode = "Solo"
  PROVE  AllAgreed' /\ AllFresh'
<1>1. 1 \in Worker
  BY WorkersExist
<1>2. Agreed(1)' /\ (mode' = "Solo" => mode = "Solo" /\ Fresh(1)')
  BY <1>1, SameSlotKeeps DEF AllAgreed, AllFresh
<1> QED BY <1>1, <1>2, OneSlot

(* A slot whose Proc a step destroys.                                      *)
LEMMA ResetSlot ==
  ASSUME TypeInv, NEW ws, NEW w \in Worker, ResetWorkers(ws),
         lines' = <<>>
  PROVE  /\ w \in ws => Agreed(w)' /\ Fresh(w)'
         /\ w \notin ws /\ (lines = <<>> \/ cur # w) => SameSlot(w)
<1>1. /\ w \in ws => /\ phase'[w] = "None" /\ fromWorker'[w] = <<>>
      /\ w \notin ws =>
           /\ proc'[w] = proc[w] /\ wpc'[w] = wpc[w] /\ wpath'[w] = wpath[w]
           /\ heap'[w] = heap[w] /\ toWorker'[w] = toWorker[w]
           /\ phase'[w] = phase[w] /\ attrPath'[w] = attrPath[w]
           /\ fromWorker'[w] = fromWorker[w]
  BY DEF ResetWorkers, DestroyAll
<1>2. Unread(w)' = fromWorker'[w]
  <2>1. fromWorker'[w] \in Seq(Line)
    BY ResetWorkersType DEF TypeInv, ProcInv, ProcTypeOK
  <2>2. <<>> \o fromWorker'[w] = fromWorker'[w]
    BY <2>1, ConcatEmptySeq
  <2> QED BY <2>2 DEF Unread
<1>3. w \in ws => Agreed(w)' /\ Fresh(w)'
  BY <1>1, <1>2 DEF Agreed, Fresh
<1>4. lines = <<>> \/ cur # w => Unread(w) = fromWorker[w]
  BY UnreadIsSeq DEF Unread
<1>5. w \notin ws /\ (lines = <<>> \/ cur # w) => SameSlot(w)
  BY <1>1, <1>2, <1>4 DEF SameSlot
<1> QED BY <1>3, <1>5

-----------------------------------------------------------------------------
(* The worker processes and the kernel.                                    *)

(* A step of the worker keeps it in step with the collector.               *)
LEMMA WorkerAgreed ==
  ASSUME TypeInv, parentAlive, NEW w \in Worker, WorkerProgram(w),
         UNCHANGED <<schedulerVars>>, Agreed(w),
         phase[w] = "None" => proc[w] = "none"
  PROVE  Agreed(w)'
<1> USE DEF At, GoTo
<1>0. /\ UNCHANGED <<phase, attrPath, lines, cur>>
      /\ wpc \in [Worker -> {"none", "config", "init", "next", "command",
                             "eval", "restart", "return"}]
      /\ wpath \in [Worker -> Path \cup {NoPath}]
      /\ proc \in [Worker -> ProcState]
      /\ toWorker \in [Worker -> Seq(Line)]
  BY DEF schedulerVars, slotVars, localVars, TypeInv, ProcInv, ProcTypeOK
<1>s. fromWorker' = fromWorker => Unread(w)' = Unread(w)
  BY <1>0, UnreadSame
<1>1. CASE ReadConfig(w)
  <2>1. /\ wpc[w] = "config" /\ wpc'[w] = "init" /\ proc[w] = "running"
        /\ toWorker'[w] = Tail(toWorker[w]) /\ Unread(w)' = Unread(w)
    BY <1>0, <1>1, <1>s DEF ReadConfig
  <2>2. Tail(<<ConfigLine>>) = <<>>
    BY ShortSeqs
  <2> QED BY <1>0, <2>1, <2>2 DEF Agreed, StartingAgreed, IdleAgreed, BusyAgreed
<1>2. CASE InitRoot(w)
  BY <1>0, <1>2, <1>s DEF InitRoot, Agreed, StartingAgreed, IdleAgreed, BusyAgreed
<1>3. CASE InitRootFails(w)
  <2>1. /\ Unread(w) = <<>> => Unread(w)' = <<InitErrorLine>>
        /\ wpc[w] = "init" /\ wpc'[w] = "restart" /\ proc[w] = "running"
        /\ toWorker' = toWorker
    BY <1>0, <1>3, LinesAreLines, UnreadWritten DEF InitRootFails
  <2> QED BY <1>0, <2>1 DEF Agreed, StartingAgreed, IdleAgreed, BusyAgreed
<1>4. CASE SendNext(w)
  <2>1. /\ Unread(w) = <<>> => Unread(w)' = <<MsgNext>>
        /\ \A k : Unread(w) = <<k>> => Unread(w)' = <<k, MsgNext>>
        /\ wpc[w] = "next" /\ wpc'[w] = "command" /\ proc[w] = "running"
        /\ toWorker' = toWorker
    BY <1>0, <1>4, LinesAreLines, UnreadWritten DEF SendNext
  <2> QED BY <1>0, <2>1 DEF Agreed, StartingAgreed, IdleAgreed, BusyAgreed
<1>5. CASE ReadJob(w)
  <2>1. /\ wpc[w] = "command" /\ wpc'[w] = "eval" /\ proc[w] = "running"
        /\ toWorker[w] # <<>> /\ Head(toWorker[w]).type = "do"
        /\ wpath'[w] = Head(toWorker[w]).attrPath
        /\ toWorker'[w] = Tail(toWorker[w]) /\ Unread(w)' = Unread(w)
    BY <1>0, <1>5, <1>s DEF ReadJob
  <2>2. \A p : /\ Tail(<<MsgDo(p)>>) = <<>>
               /\ Head(<<MsgDo(p)>>).attrPath = p
    BY ShortSeqs, LineTypes
  <2>3. phase[w] = "Busy" =>
          /\ toWorker[w] = <<MsgDo(attrPath[w])>> /\ Unread(w) = <<>>
    BY <2>1 DEF Agreed, BusyAgreed
  <2>4. ASSUME phase[w] = "Busy" PROVE BusyAgreed(w)'
    <3>1. toWorker'[w] = <<>> /\ wpath'[w] = attrPath[w]
      BY <2>1, <2>2, <2>3, <2>4
    <3>2. wpc'[w] = "eval" /\ Unread(w)' = <<>> /\ attrPath' = attrPath
      BY <1>0, <2>1, <2>3, <2>4
    <3> QED BY <3>1, <3>2 DEF BusyAgreed
  <2>5. phase[w] \notin {"Starting", "Idle", "Killed"}
    BY <2>1 DEF Agreed, StartingAgreed, IdleAgreed
  <2>6. phase' = phase /\ (phase[w] = "None" => Unread(w) = <<>>)
    BY <1>0 DEF Agreed
  <2> QED BY <2>1, <2>4, <2>5, <2>6 DEF Agreed
<1>6. CASE ReadExit(w)
  <2>1. /\ wpc[w] = "command" /\ proc[w] = "running"
        /\ toWorker[w] # <<>> /\ Head(toWorker[w]).type = "exit"
        /\ Unread(w)' = Unread(w)
    BY <1>0, <1>6, <1>s DEF ReadExit
  <2>2. \A p : Head(<<MsgDo(p)>>).type = "do"
    BY ShortSeqs, LineTypes
  <2> QED BY <1>0, <2>1, <2>2 DEF Agreed, StartingAgreed, IdleAgreed, BusyAgreed
<1>7. CASE ReadEof(w) BY <1>7 DEF ReadEof
<1>8. CASE Respond(w)
  <2>1. ResponseLine(wpath[w]) \in Line
    BY <1>8, LinesAreLines DEF Respond, TypeInv, ProcInv, EvalOK
  <2>2. /\ Unread(w) = <<>> => Unread(w)' = <<ResponseLine(wpath[w])>>
        /\ wpc[w] = "eval" /\ wpc'[w] \in {"restart", "next"}
        /\ proc[w] = "running" /\ toWorker' = toWorker
    BY <1>0, <1>8, <2>1, UnreadWritten DEF Respond
  <2> QED BY <1>0, <2>2 DEF Agreed, StartingAgreed, IdleAgreed, BusyAgreed
<1>9. CASE SendRestart(w)
  <2>1. /\ Unread(w) = <<>> => Unread(w)' = <<MsgRestart>>
        /\ \A k : Unread(w) = <<k>> => Unread(w)' = <<k, MsgRestart>>
        /\ wpc[w] = "restart" /\ wpc'[w] = "return" /\ proc[w] = "running"
        /\ toWorker' = toWorker
    BY <1>0, <1>9, LinesAreLines, UnreadWritten DEF SendRestart
  <2> QED BY <1>0, <2>1 DEF Agreed, StartingAgreed, IdleAgreed, BusyAgreed
<1>10. CASE Exit(w)
  BY <1>0, <1>10, <1>s DEF Exit, Agreed, StartingAgreed, IdleAgreed, BusyAgreed
<1>11. CASE ExitUnwound(w)
  BY <1>0, <1>11, <1>s
     DEF ExitUnwound, Agreed, StartingAgreed, IdleAgreed, BusyAgreed
<1> QED BY <1>1, <1>2, <1>3, <1>4, <1>5, <1>6, <1>7, <1>8, <1>9, <1>10, <1>11
        DEF WorkerProgram

LEMMA KernelAgreed ==
  ASSUME TypeInv, NEW w \in Worker, Kernel(w), UNCHANGED schedulerVars,
         Agreed(w)
  PROVE  Agreed(w)'
<1>1. /\ UNCHANGED <<phase, attrPath, lines, cur, wpc, wpath, toWorker>>
      /\ fromWorker' = fromWorker
      /\ proc'[w] \in {"running", "closing"} => proc[w] \in {"running", "closing"}
  BY DEF Kernel, Reap, OomKill, Unwind, Crash, SigKill, At, schedulerVars,
         slotVars, localVars, TypeInv, ProcInv, ProcTypeOK
<1>2. Unread(w)' = Unread(w)
  BY <1>1, UnreadSame
<1> QED BY <1>1, <1>2 DEF Agreed, StartingAgreed, IdleAgreed, BusyAgreed

(* The memory of the worker, as long as it is in step.                     *)
LEMMA WorkerFresh ==
  ASSUME TypeInv, parentAlive, NEW w \in Worker, WorkerProgram(w),
         UNCHANGED <<schedulerVars>>, Agreed(w), Fresh(w),
         phase[w] = "None" => proc[w] = "none"
  PROVE  Fresh(w)'
<1> USE DEF At, GoTo
<1>0. /\ UNCHANGED <<phase, attrPath>>
      /\ heap \in [Worker -> Nat] /\ toWorker \in [Worker -> Seq(Line)]
      /\ BaseRss \in Nat
      /\ phase[w] \in {"Busy", "Killed"} => Cost[attrPath[w]] \in Nat
  BY WorkersAssumption
     DEF WorkersAssumption, schedulerVars, slotVars, TypeInv, ProcInv,
         ProcTypeOK, SlotOK, HeldOK, Running, InPhase
<1>1. CASE ReadJob(w)
  <2>1. /\ wpc[w] = "command" /\ proc[w] = "running"
        /\ toWorker[w] # <<>>
        /\ heap'[w] = heap[w] + Cost[Head(toWorker[w]).attrPath]
        /\ toWorker'[w] = Tail(toWorker[w])
    BY <1>0, <1>1 DEF ReadJob
  <2>2. \A p : /\ Tail(<<MsgDo(p)>>) = <<>>
               /\ Head(<<MsgDo(p)>>).attrPath = p
    BY ShortSeqs, LineTypes
  <2>3. CASE phase[w] = "Busy"
    <3>1. toWorker[w] = <<MsgDo(attrPath[w])>>
      BY <2>1, <2>3 DEF Agreed, BusyAgreed
    <3>2. /\ Head(toWorker[w]).attrPath = attrPath[w]
          /\ Tail(toWorker[w]) = <<>>
      BY <2>2, <3>1
    <3> QED BY <1>0, <2>1, <2>3, <3>2 DEF Fresh
  <2>4. phase[w] \notin {"Starting", "Idle", "Killed"}
    BY <2>1 DEF Agreed, StartingAgreed, IdleAgreed
  <2> QED BY <1>0, <2>3, <2>4 DEF Fresh
<1>2. CASE ~ReadJob(w)
  <2>1. /\ heap'[w] \in {heap[w], BaseRss, 0}
        /\ toWorker'[w] # <<>> => toWorker[w] # <<>>
    BY <1>0, <1>2 DEF WorkerProgram, ReadConfig, InitRoot, InitRootFails,
         SendNext, ReadExit, ReadEof, Respond, SendRestart, Exit, ExitUnwound
  <2> QED BY <1>0, <2>1 DEF Fresh
<1> QED BY <1>1, <1>2

LEMMA KernelFresh ==
  ASSUME TypeInv, NEW w \in Worker, Kernel(w), UNCHANGED schedulerVars,
         Fresh(w)
  PROVE  Fresh(w)'
<1>1. /\ UNCHANGED <<phase, attrPath, toWorker>>
      /\ heap \in [Worker -> Nat] /\ BaseRss \in Nat
      /\ phase[w] \in {"Busy", "Killed"} => Cost[attrPath[w]] \in Nat
  BY WorkersAssumption
     DEF WorkersAssumption, schedulerVars, slotVars, TypeInv, ProcInv,
         ProcTypeOK, SlotOK, HeldOK, Running, InPhase, Kernel, Reap, OomKill,
         Unwind, Crash
<1>2. heap'[w] \in {heap[w], 0}
  BY <1>1 DEF Kernel, Reap, OomKill, Unwind, Crash
<1> QED BY <1>1, <1>2 DEF Fresh

(* No process interferes with another one.                                 *)
LEMMA OtherWorkers ==
  ASSUME TypeInv, NEW w \in Worker, WorkerProgram(w) \/ Kernel(w),
         UNCHANGED schedulerVars, NEW v \in Worker, v # w
  PROVE  SameSlot(v)
<1>1. /\ UNCHANGED <<phase, attrPath, lines, cur>>
      /\ proc'[v] = proc[v] /\ wpc'[v] = wpc[v] /\ wpath'[v] = wpath[v]
      /\ heap'[v] = heap[v] /\ toWorker'[v] = toWorker[v]
      /\ fromWorker'[v] = fromWorker[v]
  BY DEF WorkerProgram, ReadConfig, InitRoot, InitRootFails, SendNext,
         ReadJob, ReadExit, ReadEof, Respond, SendRestart, Exit, ExitUnwound,
         WriteLine, GoTo, Kernel, Reap, OomKill, Unwind, Crash, SigKill,
         schedulerVars, slotVars, localVars, TypeInv, ProcInv, ProcTypeOK
<1>2. Unread(v)' = Unread(v)
  BY <1>1, UnreadSame
<1> QED BY <1>1, <1>2 DEF SameSlot

LEMMA ProcessesProtocol ==
  ASSUME TypeInv, SlotInv, ProtocolInv, NEW w \in Worker,
         ProgramOf(w) \/ KernelOf(w)
  PROVE  ProtocolInv'
<1>1. /\ WorkerProgram(w) \/ Kernel(w)
      /\ UNCHANGED schedulerVars /\ UNCHANGED <<pc, lines, mode>>
      /\ parentAlive' = parentAlive
  BY DEF ProgramOf, KernelOf, schedulerVars, localVars, queueVars,
         WorkerProgram, ReadConfig, InitRoot, InitRootFails, SendNext,
         ReadJob, ReadExit, ReadEof, Respond, SendRestart, Exit, ExitUnwound,
         Kernel, OomKill, Unwind, Crash
<1> SUFFICES ASSUME InLoop PROVE ProtocolInv'
  BY <1>1 DEF ProtocolInv, InLoop
<1>2. /\ parentAlive /\ BufferInv /\ AllAgreed /\ AllFresh
      /\ phase[w] = "None" => proc[w] = "none"
  BY DEF ProtocolInv, SlotInv
<1>3. Agreed(w)'
  BY <1>1, <1>2, WorkerAgreed, KernelAgreed DEF AllAgreed
<1>4. mode' = "Solo" => mode = "Solo" /\ Fresh(w)'
  BY <1>1, <1>2, WorkerFresh, KernelFresh DEF AllAgreed, AllFresh
<1>5. AllAgreed' /\ AllFresh'
  BY <1>1, <1>2, <1>3, <1>4, OtherWorkers, OneSlot
<1>6. BufferInv'
  BY <1>1, <1>2 DEF BufferInv
<1> QED BY <1>1, <1>2, <1>5, <1>6 DEF ProtocolInv

-----------------------------------------------------------------------------
(* The collector.                                                          *)

LEMMA ProtocolOutside ==
  ASSUME pc' \in MainPc PROVE ProtocolInv'
  BY DEF ProtocolInv, InLoop, LoopPc, MainPc

(* The pipes and the processes are left alone, but for the pipe of slot w; *)
(* nothing is in the buffer.                                               *)
LEMMA ElsewhereSame ==
  ASSUME TypeInv, lines = <<>>, lines' = <<>>, NEW w,
         \A v \in Worker : v # w =>
           /\ proc'[v] = proc[v] /\ wpc'[v] = wpc[v]
           /\ wpath'[v] = wpath[v] /\ heap'[v] = heap[v]
           /\ toWorker'[v] = toWorker[v] /\ fromWorker'[v] = fromWorker[v]
           /\ phase'[v] = phase[v] /\ attrPath'[v] = attrPath[v]
  PROVE  \A v \in Worker : v # w => SameSlot(v)
  BY UnreadSame DEF SameSlot

(* dispatch() gives the path p to the idle worker of slot cur.             *)
LEMMA HandOutProtocol ==
  ASSUME TypeInv, ProtocolInv, pc = "dispatch", IsFree(cur),
         NEW p \in Path, HandOut(p)
  PROVE  ProtocolInv'
<1>0. PICK w \in Worker : w = cur
  BY DEF TypeInv, LocalTypeOK
<1>1. /\ parentAlive /\ lines = <<>> /\ lines' = <<>> /\ AllAgreed /\ AllFresh
      /\ phase[w] = "Idle" /\ Agreed(w)
      /\ mode = "Solo" => Fresh(w)
  BY <1>0 DEF ProtocolInv, BufferInv, InLoop, LoopPc, HandOut, IsFree, TypeInv,
         LocalTypeOK, AllAgreed, AllFresh
<1>2. /\ wpc[w] = "command" /\ toWorker[w] = <<>> /\ Unread(w) = <<>>
  BY <1>1 DEF Agreed, IdleAgreed
<1>3. /\ phase'[w] = "Busy" /\ attrPath'[w] = p
      /\ toWorker'[w] \in {<<>>, <<MsgDo(p)>>}
      /\ UNCHANGED <<proc, wpc, wpath, heap, fromWorker, mode, parentAlive>>
      /\ \A v \in Worker : v # w =>
           /\ toWorker'[v] = toWorker[v] /\ phase'[v] = phase[v]
           /\ attrPath'[v] = attrPath[v]
  BY <1>0, <1>1, <1>2, ShortSeqs
     DEF HandOut, SendLine, TypeInv, SlotOK, SlotTypeOK, ProcInv, ProcTypeOK
<1>4. Unread(w)' = <<>>
  BY <1>1, <1>2, <1>3, UnreadSame
<1>5. Agreed(w)'
  BY <1>2, <1>3, <1>4 DEF Agreed, BusyAgreed
<1>6. mode' = "Solo" => mode = "Solo" /\ Fresh(w)'
  <2>1. Cost[p] \in Nat /\ BaseRss \in Nat /\ heap[w] \in Nat
    BY <1>1, WorkersAssumption
       DEF WorkersAssumption, TypeInv, ProcInv, ProcTypeOK
  <2> QED BY <1>1, <1>3, <2>1 DEF Fresh
<1>7. \A v \in Worker : v # w => SameSlot(v)
  BY <1>1, <1>3, ElsewhereSame
<1>8. AllAgreed' /\ AllFresh'
  BY <1>1, <1>5, <1>6, <1>7, OneSlot
<1> QED BY <1>1, <1>3, <1>8 DEF ProtocolInv, BufferInv

(* The end of file: the slot is reset, or an exception is thrown.          *)
LEMMA OnEofProtocol ==
  ASSUME TypeInv, ProtocolInv, InLoop, NEW w \in Worker, OnEof(w, TRUE),
         lines = <<>>, UNCHANGED <<lines, parentAlive>>, pc' # "throw"
  PROVE  ProtocolInv'
<1>1. ResetWorkers({w}) /\ (mode' = "Solo" => mode = "Solo")
  BY DEF OnEof, OnKilled, Throw, LeaveSolo, queueVars
<1>2. /\ \A v \in Worker : v # w => SameSlot(v)
      /\ Agreed(w)' /\ Fresh(w)'
  <2>1. ResetWorkers({w}) /\ lines = <<>> /\ lines' = <<>>
    BY <1>1
  <2>2. Agreed(w)' /\ Fresh(w)'
    BY <2>1, ResetSlot
  <2>3. ASSUME NEW v \in Worker, v # w PROVE SameSlot(v)
    BY <2>1, <2>3, ResetSlot
  <2> QED BY <2>2, <2>3
<1>3. AllAgreed /\ AllFresh /\ parentAlive
  BY DEF ProtocolInv
<1>4. AllAgreed' /\ AllFresh'
  <2>1. mode' = "Solo" => mode = "Solo" /\ Fresh(w)'
    BY <1>1, <1>2
  <2> QED BY <1>2, <1>3, <2>1, OneSlot
<1> QED BY <1>3, <1>4 DEF ProtocolInv, BufferInv

(* run() and dispatch().                                                   *)
LEMMA DispatchProtocol ==
  ASSUME TypeInv, SlotInv, ProtocolInv,
         LoopExit \/ Interrupt \/ BeginSolo \/ BeginDispatch \/ Dispatch
  PROVE  ProtocolInv'
<1>0. InLoop /\ pc # "lines"
  BY DEF LoopExit, Interrupt, BeginSolo, BeginDispatch, LoopGoesOn, Dispatch,
         DispatchExit, DispatchSolo, DispatchTodo, DispatchSpawn, SpawnThrows,
         DispatchNothing, SendFailed, InLoop, LoopPc
<1>a. /\ parentAlive /\ lines = <<>> /\ AllAgreed /\ AllFresh
      /\ cur \in Worker /\ 1 \in Worker
      /\ phase \in [Worker -> Phase] /\ attrPath \in [Worker -> Path \cup {NoPath}]
      /\ ProcTypeOK
  BY <1>0, WorkersExist DEF ProtocolInv, BufferInv, TypeInv, LocalTypeOK,
     SlotOK, SlotTypeOK, ProcInv
<1>1. CASE LoopExit
  BY <1>1, ProtocolOutside DEF LoopExit, MainPc
<1>2. CASE Interrupt \/ SpawnThrows
  BY <1>2, ProtocolOutside DEF Interrupt, SpawnThrows, JustThrow, Throw, MainPc
<1>3. CASE BeginSolo
  <2>1. ResetWorkers(Worker) /\ lines' = <<>> /\ parentAlive' = parentAlive
    BY <1>a, <1>3 DEF BeginSolo, SlotsDroppedForSolo
  <2>2. \A w \in Worker : Agreed(w)' /\ Fresh(w)'
    BY <1>a, <2>1, ResetSlot
  <2> QED BY <1>a, <2>1, <2>2 DEF ProtocolInv, BufferInv, AllAgreed, AllFresh
<1>4. CASE BeginDispatch \/ DispatchNothing
  <2>1. /\ UNCHANGED <<proc, wpc, wpath, heap, toWorker, fromWorker, phase,
                      attrPath, mode, parentAlive>>
        /\ lines' = <<>>
    BY <1>a, <1>4 DEF BeginDispatch, DispatchNothing, slotVars, queueVars,
                     workerVars, procVars
  <2>2. \A v \in Worker : v # 0 => SameSlot(v)
    BY <1>a, <2>1, ElsewhereSame
  <2>3. \A v \in Worker : SameSlot(v)
    BY <2>2, WorkersAssumption DEF Worker, WorkersAssumption
  <2>4. AllAgreed' /\ AllFresh'
    BY <1>a, <2>1, <2>3, NoSlot
  <2> QED BY <1>a, <2>1, <2>4 DEF ProtocolInv, BufferInv
<1>5. CASE DispatchExit
  <2>0. PICK w \in Worker : w = cur
    BY <1>a
  <2>1. /\ phase'[w] = "Exiting" /\ lines' = <<>>
        /\ UNCHANGED <<proc, wpc, wpath, heap, fromWorker, attrPath, mode,
                      parentAlive>>
        /\ \A v \in Worker : v # w =>
             toWorker'[v] = toWorker[v] /\ phase'[v] = phase[v]
    BY <1>a, <1>5, <2>0 DEF DispatchExit, SendLine, ProcTypeOK, queueVars
  <2>2. Agreed(w)' /\ Fresh(w)'
    BY <2>1 DEF Agreed, Fresh
  <2>3. \A v \in Worker : v # w => SameSlot(v)
    BY <1>a, <2>1, ElsewhereSame
  <2>4. AllAgreed' /\ AllFresh'
    BY <1>a, <2>1, <2>2, <2>3, OneSlot
  <2> QED BY <1>a, <2>1, <2>4 DEF ProtocolInv, BufferInv
<1>6. CASE DispatchSolo
  <2>1. Last(solo) \in Path
    BY <1>6, LastAndFront DEF DispatchSolo, TypeInv, TodoOK, QueueTypeOK
  <2> QED BY <1>6, <2>1, HandOutProtocol DEF DispatchSolo
<1>7. CASE DispatchTodo
  BY <1>7, HandOutProtocol DEF DispatchTodo, TypeInv, TodoOK, QueueTypeOK
<1>8. CASE DispatchSpawn
  <2>0. PICK w \in Worker : w = cur
    BY <1>a
  <2>1. /\ phase'[w] = "Starting" /\ wpc'[w] = "config"
        /\ toWorker'[w] = <<ConfigLine>> /\ fromWorker'[w] = <<>>
        /\ heap'[w] = 0 /\ lines' = <<>>
        /\ UNCHANGED <<attrPath, mode, parentAlive>>
        /\ \A v \in Worker : v # w =>
             /\ proc'[v] = proc[v] /\ wpc'[v] = wpc[v]
             /\ wpath'[v] = wpath[v] /\ heap'[v] = heap[v]
             /\ toWorker'[v] = toWorker[v] /\ fromWorker'[v] = fromWorker[v]
             /\ phase'[v] = phase[v]
    BY <1>a, <1>8, <2>0 DEF DispatchSpawn, Spawn, ProcTypeOK, queueVars
  <2>2. Unread(w)' = <<>>
    <3>1. <<>> \o <<>> = <<>> /\ <<>> \in Seq(Line)
      BY ConcatLines
    <3> QED BY <2>1, <3>1 DEF Unread
  <2>3. Agreed(w)'
    BY <2>1, <2>2 DEF Agreed, StartingAgreed
  <2>4. Fresh(w)'
    BY <2>1, WorkersAssumption DEF Fresh, WorkersAssumption
  <2>5. \A v \in Worker : v # w => SameSlot(v)
    BY <1>a, <2>1, ElsewhereSame
  <2>6. AllAgreed' /\ AllFresh'
    BY <1>a, <2>1, <2>3, <2>4, <2>5, OneSlot
  <2> QED BY <1>a, <2>1, <2>6 DEF ProtocolInv, BufferInv
<1>9. CASE SendFailed
  <2>1. OnEof(cur, TRUE) /\ UNCHANGED <<lines, parentAlive>>
    BY <1>9 DEF SendFailed, OnEof
  <2>2. CASE pc' = "throw"
    BY <2>2, ProtocolOutside DEF MainPc
  <2> QED BY <1>0, <1>a, <2>1, <2>2, OnEofProtocol
<1> QED BY <1>1, <1>2, <1>3, <1>4, <1>5, <1>6, <1>7, <1>8, <1>9 DEF Dispatch

(* pollWorkers() up to the lines.                                          *)
LEMMA PollProtocol ==
  ASSUME TypeInv, SlotInv, ProtocolInv, PollWorkers
  PROVE  ProtocolInv'
<1>0. InLoop /\ pc # "lines"
  BY DEF PollWorkers, Poll, SampleMemory, KillVictim, EndPoll, Fill, InLoop,
         LoopPc
<1>a. /\ parentAlive /\ lines = <<>> /\ AllAgreed /\ AllFresh
      /\ phase \in [Worker -> Phase] /\ ProcTypeOK
  BY <1>0 DEF ProtocolInv, BufferInv, TypeInv, SlotOK, SlotTypeOK, ProcInv
<1>1. CASE Poll \/ SampleMemory \/ EndPoll
  <2>1. /\ UNCHANGED <<proc, wpc, wpath, heap, toWorker, fromWorker, phase,
                      attrPath, mode, parentAlive>>
        /\ lines' = <<>>
    BY <1>a, <1>1 DEF Poll, SampleMemory, EndPoll, slotVars, queueVars,
                     localVars, workerVars, procVars
  <2>2. \A v \in Worker : v # 0 => SameSlot(v)
    BY <1>a, <2>1, ElsewhereSame
  <2>3. \A v \in Worker : SameSlot(v)
    BY <2>2, WorkersAssumption DEF Worker, WorkersAssumption
  <2>4. AllAgreed' /\ AllFresh'
    BY <1>a, <2>1, <2>3, NoSlot
  <2> QED BY <1>a, <2>1, <2>4 DEF ProtocolInv, BufferInv
<1>2. CASE KillVictim
  <2>0. PICK w \in Worker : w = victim
    BY DEF TypeInv, LocalTypeOK
  <2>1. /\ phase[w] = "Busy" /\ phase'[w] = "Killed"
        /\ proc'[w] \notin {"running", "closing"} /\ lines' = <<>>
        /\ UNCHANGED <<wpc, wpath, heap, toWorker, fromWorker, attrPath, mode,
                      parentAlive>>
        /\ \A v \in Worker : v # w =>
             proc'[v] = proc[v] /\ phase'[v] = phase[v]
    BY <1>0, <1>a, <1>2, <2>0
       DEF KillVictim, SigKill, ProcTypeOK, SlotInv, queueVars, localVars
  <2>2. Agreed(w)'
    BY <2>1 DEF Agreed
  <2>3. mode' = "Solo" => mode = "Solo" /\ Fresh(w)'
    BY <1>a, <2>1 DEF AllFresh, Fresh
  <2>4. \A v \in Worker : v # w => SameSlot(v)
    BY <1>a, <2>1, ElsewhereSame
  <2>5. AllAgreed' /\ AllFresh'
    BY <1>a, <2>2, <2>3, <2>4, OneSlot
  <2> QED BY <1>a, <2>1, <2>5 DEF ProtocolInv, BufferInv
<1>3. CASE Fill
  <2>0. PICK w \in Worker : w = cur'
    BY <1>3 DEF Fill, TypeInv, LocalTypeOK
  <2>1. /\ lines' = fromWorker[w] /\ fromWorker'[w] = <<>> /\ pc' = "lines"
        /\ UNCHANGED <<proc, wpc, wpath, heap, toWorker, phase, attrPath, mode,
                      parentAlive>>
        /\ \A v \in Worker : v # w => fromWorker'[v] = fromWorker[v]
    BY <1>a, <1>3, <2>0 DEF Fill, ProcTypeOK, slotVars, queueVars
  <2>2. \A v \in Worker : Unread(v) = fromWorker[v]
    BY <1>a, UnreadIsSeq
  <2>3. Unread(w)' = fromWorker[w]
    <3>1. fromWorker[w] \o <<>> = fromWorker[w]
      BY UnreadIsSeq, ConcatEmptySeq
    <3> QED BY <2>0, <2>1, <3>1 DEF Unread
  <2>4. \A v \in Worker : v # w => Unread(v)' = fromWorker[v]
    BY <2>0, <2>1 DEF Unread
  <2>5. \A v \in Worker : SameSlot(v)
    BY <2>1, <2>2, <2>3, <2>4 DEF SameSlot
  <2>6. AllAgreed' /\ AllFresh'
    BY <1>a, <2>1, <2>5, NoSlot
  <2> QED BY <1>a, <2>1, <2>6 DEF ProtocolInv, BufferInv
<1> QED BY <1>1, <1>2, <1>3 DEF PollWorkers

(* A line that is handled; the slots other than cur do not notice.         *)
LEMMA LineHandled ==
  ASSUME TypeInv, pc = "lines", lines # <<>>, PopLine,
         NEW w \in Worker, w = cur,
         UNCHANGED <<cur, proc, wpc, wpath, heap, toWorker, fromWorker>>,
         \A v \in Worker : v # w =>
           phase'[v] = phase[v] /\ attrPath'[v] = attrPath[v]
  PROVE  \A v \in Worker : v # w => SameSlot(v)
  BY UnreadPopped DEF SameSlot

(* The answer of a busy worker is the one to its job.                      *)
LEMMA JobFinishedProtocol ==
  ASSUME TypeInv, ProtocolInv, LineIs("Busy", "response"), JobFinished(cur),
         PopLine, UNCHANGED <<workerVars, pc, cur>>
  PROVE  ProtocolInv' /\ Head(lines).attrPath = attrPath[cur]
<1>0. PICK w \in Worker : w = cur
  BY DEF TypeInv, LocalTypeOK
<1>1. /\ pc = "lines" /\ InLoop /\ lines # <<>> /\ phase[w] = "Busy"
      /\ Head(lines).type = "response"
      /\ parentAlive /\ AllAgreed /\ AllFresh /\ Agreed(w)
  BY <1>0 DEF LineIs, ProtocolInv, InLoop, LoopPc, AllAgreed
<1>2. /\ Unread(w) # <<>>
      /\ \A k : Unread(w) = <<k>> => Head(lines) = k /\ Unread(w)' = <<>>
      /\ \A k, l : Unread(w) = <<k, l>> =>
           Head(lines) = k /\ Unread(w)' = <<l>>
  BY <1>0, <1>1, UnreadPopped DEF workerVars, procVars
<1>3. /\ phase'[w] = "Starting" /\ mode' = "Parallel"
      /\ UNCHANGED <<proc, wpc, wpath, heap, toWorker, fromWorker, parentAlive>>
      /\ \A v \in Worker : v # w =>
           phase'[v] = phase[v] /\ attrPath'[v] = attrPath[v]
  BY <1>0 DEF JobFinished, LeaveSolo, workerVars, procVars, TypeInv, SlotOK,
              SlotTypeOK
<1>4. /\ Head(lines) = ResponseLine(attrPath[w])
      /\ toWorker[w] = <<>>
      /\ \/ wpc[w] \in {"next", "restart"} /\ Unread(w)' = <<>>
         \/ wpc[w] = "command" /\ Unread(w)' = <<MsgNext>>
         \/ wpc[w] = "return" /\ Unread(w)' = <<MsgRestart>>
  BY <1>1, <1>2 DEF Agreed, BusyAgreed
<1>5. Head(lines).attrPath = attrPath[cur]
  BY <1>0, <1>4, LineTypes
<1>6. Agreed(w)'
  BY <1>3, <1>4 DEF Agreed, StartingAgreed
<1>7. \A v \in Worker : v # w => SameSlot(v)
  BY <1>0, <1>1, <1>3, LineHandled
<1>8. AllAgreed' /\ AllFresh'
  BY <1>1, <1>3, <1>6, <1>7, OneSlot
<1> QED BY <1>1, <1>3, <1>5, <1>8 DEF ProtocolInv, BufferInv

LEMMA OnLineProtocol ==
  ASSUME TypeInv, ProtocolInv, OnLine
  PROVE  ProtocolInv'
<1>0. pc = "lines" /\ lines # <<>> /\ InLoop
  BY DEF OnLine, LineNext, LineRestart, LineUnexpected, LineIgnored,
         ResponseAttrs, ResponseJobPushed, ResponseEmitted, ResponseThrows,
         LineIs, InLoop, LoopPc
<1>a. PICK w \in Worker : w = cur
  BY DEF TypeInv, LocalTypeOK
<1>b. /\ parentAlive /\ AllAgreed /\ AllFresh /\ Agreed(w)
      /\ mode = "Solo" => Fresh(w)
      /\ phase \in [Worker -> Phase]
  BY <1>0 DEF ProtocolInv, AllAgreed, AllFresh, TypeInv, SlotOK, SlotTypeOK
<1>1. CASE LineNext
  <2>1. /\ phase[w] = "Starting" /\ phase'[w] = "Idle"
        /\ Head(lines).type = "next" /\ pc' = pc
        /\ UNCHANGED <<cur, proc, wpc, wpath, heap, toWorker, fromWorker,
                      attrPath, mode, parentAlive>>
        /\ \A v \in Worker : v # w => phase'[v] = phase[v]
    BY <1>a, <1>b, <1>1
       DEF LineNext, LineIs, queueVars, workerVars, procVars
  <2>2. /\ Unread(w) # <<>>
        /\ \A k : Unread(w) = <<k>> => Head(lines) = k /\ Unread(w)' = <<>>
        /\ \A k, l : Unread(w) = <<k, l>> =>
             Head(lines) = k /\ Unread(w)' = <<l>>
    BY <1>0, <1>a, <1>1, <2>1, UnreadPopped DEF LineNext
  <2>3. wpc[w] = "command" /\ toWorker[w] = <<>> /\ Unread(w)' = <<>>
    BY <1>b, <2>1, <2>2, LineTypes DEF Agreed, StartingAgreed
  <2>4. Agreed(w)'
    BY <2>1, <2>3 DEF Agreed, IdleAgreed
  <2>5. mode' = "Solo" => mode = "Solo" /\ Fresh(w)'
    BY <1>b, <2>1 DEF Fresh
  <2>6. \A v \in Worker : v # w => SameSlot(v)
    BY <1>0, <1>a, <1>1, <2>1, LineHandled DEF LineNext
  <2>7. AllAgreed' /\ AllFresh'
    BY <1>b, <2>4, <2>5, <2>6, OneSlot
  <2> QED BY <1>0, <1>b, <2>1, <2>7 DEF ProtocolInv, BufferInv
<1>2. CASE LineRestart
  <2>1. ResetWorkers({w}) /\ lines' = <<>> /\ UNCHANGED <<parentAlive, mode>>
    BY <1>a, <1>2 DEF LineRestart, queueVars
  <2>2. /\ \A v \in Worker : v # w => SameSlot(v)
        /\ Agreed(w)' /\ Fresh(w)'
    BY <1>a, <2>1, ResetSlot
  <2>3. AllAgreed' /\ AllFresh'
    BY <1>b, <2>1, <2>2, OneSlot
  <2> QED BY <1>b, <2>1, <2>3 DEF ProtocolInv, BufferInv
<1>3. CASE LineUnexpected
  BY <1>3, ProtocolOutside DEF LineUnexpected, JustThrow, Throw, MainPc
<1>4. CASE LineIgnored
  <2>1. /\ phase[w] \in {"Killed", "Exiting"} /\ pc' = pc
        /\ UNCHANGED <<cur, proc, wpc, wpath, heap, toWorker, fromWorker,
                      phase, attrPath, mode, parentAlive>>
    BY <1>a, <1>4 DEF LineIgnored, slotVars, queueVars, workerVars, procVars
  <2>2. Agreed(w)'
    BY <1>b, <2>1 DEF Agreed
  <2>3. mode' = "Solo" => mode = "Solo" /\ Fresh(w)'
    BY <1>b, <2>1 DEF Fresh
  <2>4. \A v \in Worker : v # w => SameSlot(v)
    BY <1>0, <1>a, <1>4, <2>1, LineHandled DEF LineIgnored
  <2>5. AllAgreed' /\ AllFresh'
    BY <1>b, <2>2, <2>3, <2>4, OneSlot
  <2> QED BY <1>0, <1>b, <2>1, <2>5 DEF ProtocolInv, BufferInv
<1>5. CASE ResponseAttrs \/ ResponseJobPushed \/ ResponseEmitted
  BY <1>5, JobFinishedProtocol
     DEF ResponseAttrs, ResponseJobPushed, ResponseEmitted
<1>6. CASE ResponseThrows
  BY <1>6, ProtocolOutside DEF ResponseThrows, Throw, MainPc
<1> QED BY <1>1, <1>2, <1>3, <1>4, <1>5, <1>6 DEF OnLine

(* The rest of readWorker().                                               *)
LEMMA AfterLinesProtocol ==
  ASSUME TypeInv, ProtocolInv, EndLines \/ EofAfterLines
  PROVE  ProtocolInv'
<1>0. /\ pc = "lines" /\ lines = <<>> /\ InLoop /\ cur \in Worker
      /\ parentAlive /\ AllAgreed /\ AllFresh
  BY DEF EndLines, EofAfterLines, InLoop, LoopPc, ProtocolInv, TypeInv,
         LocalTypeOK
<1>1. CASE EndLines
  <2>1. /\ UNCHANGED <<proc, wpc, wpath, heap, toWorker, fromWorker, phase,
                      attrPath, mode, parentAlive>>
        /\ lines' = <<>>
    BY <1>0, <1>1 DEF EndLines, slotVars, queueVars, localVars, workerVars,
                     procVars
  <2>2. \A v \in Worker : v # 0 => SameSlot(v)
    BY <1>0, <2>1, ElsewhereSame
  <2>3. \A v \in Worker : SameSlot(v)
    BY <2>2, WorkersAssumption DEF Worker, WorkersAssumption
  <2>4. AllAgreed' /\ AllFresh'
    BY <1>0, <2>1, <2>3, NoSlot
  <2> QED BY <1>0, <2>1, <2>4 DEF ProtocolInv, BufferInv
<1>2. CASE EofAfterLines
  <2>1. OnEof(cur, TRUE) /\ UNCHANGED <<lines, parentAlive>>
    BY <1>2 DEF EofAfterLines, OnEof
  <2>2. CASE pc' = "throw"
    BY <2>2, ProtocolOutside DEF MainPc
  <2> QED BY <1>0, <2>1, <2>2, OnEofProtocol
<1> QED BY <1>1, <1>2

LEMMA NextProtocol ==
  ASSUME TypeInv, SlotInv, ProtocolInv, [Next]_vars
  PROVE  ProtocolInv'
<1>1. CASE SchedulerStep
  <2>1. CASE DestroyScheduler
    BY <2>1, ProtocolOutside DEF DestroyScheduler, MainPc
  <2> QED BY <1>1, <2>1, DispatchProtocol, PollProtocol, OnLineProtocol,
             AfterLinesProtocol DEF SchedulerStep
<1>2. CASE MainStep
  <2>1. pc' \in MainPc
    BY <1>2 DEF MainStep, FinishClose, FinishNotify, FinishJoin, AfterJoin,
                Constituents, ConstituentsThrow, UnwindClose, UnwindDiscard,
                UnwindJoin, MainGoes, MainPc
  <2> QED BY <2>1, ProtocolOutside
<1>3. CASE \E w \in Worker : ProgramOf(w) \/ KernelOf(w)
  BY <1>3, ProcessesProtocol
<1>4. CASE Thread \/ ThreadFails \/ StdoutCloses \/ UNCHANGED vars
  <2>1. UNCHANGED <<workerVars, slotVars, queueVars, pc, localVars>>
    BY <1>4 DEF Thread, ThreadFails, StdoutCloses, vars, schedulerVars
  <2>2. UNCHANGED <<proc, wpc, wpath, heap, toWorker, fromWorker, phase,
                    attrPath, mode, parentAlive, pc, lines, cur>>
    BY <2>1 DEF slotVars, queueVars, localVars, workerVars, procVars
  <2>3. \A v \in Worker : SameSlot(v)
    BY <2>2 DEF SameSlot, Unread
  <2>4. AllAgreed /\ AllFresh => AllAgreed' /\ AllFresh'
    BY <2>2, <2>3, NoSlot
  <2> QED BY <2>2, <2>4 DEF ProtocolInv, BufferInv, InLoop
<1>5. CASE CollectorDies
  BY <1>5, ProtocolOutside DEF CollectorDies, MainPc
<1> QED BY <1>1, <1>2, <1>3, <1>4, <1>5 DEF Next, Collector, Terminated

LEMMA InitProtocol == Init => ProtocolInv
<1> SUFFICES ASSUME Init PROVE ProtocolInv
  OBVIOUS
<1>1. /\ parentAlive /\ lines = <<>> /\ mode = "Parallel"
      /\ fromWorker = [w \in Worker |-> <<>>]
      /\ phase = [w \in Worker |-> "None"]
  BY DEF Init, WorkerInit, ProcInit, SchedulerInit
<1>2. \A w \in Worker : Unread(w) = <<>>
  <2>1. <<>> \o <<>> = <<>>
    BY ConcatLines
  <2> QED BY <1>1, <2>1 DEF Unread
<1>3. AllAgreed
  BY <1>1, <1>2 DEF AllAgreed, Agreed
<1> QED BY <1>1, <1>3 DEF ProtocolInv, BufferInv, AllFresh

LEMMA ProtocolInvariant == Spec => [](IInv /\ ProtocolInv)
<1>1. Init => IInv /\ ProtocolInv
  BY InitType, InitControl, InitProtocol DEF IInv, Control
<1>2. IInv /\ ProtocolInv /\ [Next]_vars => IInv' /\ ProtocolInv'
  BY NextType, NextControl, NextProtocol DEF IInv, Control
<1> QED BY <1>1, <1>2, PTL DEF Spec

-----------------------------------------------------------------------------
(* Theorems.                                                               *)

(* The exceptions of onLine and parseResponse for a line that is not       *)
(* expected are never thrown, except for the error of the root value: when *)
(* a line of a worker is handled, the slot is in the phase in which that   *)
(* line makes sense, whatever was killed, restarted or retried before.     *)
THEOREM LinesAreExpected == Spec => []LinesExpected
<1>1. IInv /\ ProtocolInv => LinesExpected
  <2> SUFFICES ASSUME IInv, ProtocolInv, pc = "lines", lines # <<>>,
                      Unexpected(phase[cur], Head(lines).type)
               PROVE  phase[cur] = "Starting" /\ Head(lines).type = "initError"
    BY DEF LinesExpected
  <2>1. /\ cur \in Worker /\ lines \in Seq(Line)
        /\ fromWorker[cur] \in Seq(Line) /\ Agreed(cur)
    BY UnreadIsSeq
       DEF IInv, TypeInv, LocalTypeOK, ProtocolInv, InLoop, LoopPc, AllAgreed
  <2>2. Unread(cur) # <<>> /\ Head(Unread(cur)) = Head(lines)
    BY <2>1, ConcatLines DEF Unread
  <2>3. \A k : Unread(cur) = <<k>> => Head(lines) = k
    BY <2>2, ShortSeqs
  <2>4. \A k, l : Unread(cur) = <<k, l>> => Head(lines) = k
    BY <2>2, ShortSeqs
  <2>5. phase[cur] = "Busy" => Head(lines).type = "response"
    BY <2>1, <2>2, <2>3, <2>4, LineTypes DEF Agreed, BusyAgreed
  <2>6. phase[cur] = "Starting" =>
          Head(lines).type \in {"next", "restart", "initError"}
    BY <2>1, <2>2, <2>3, <2>4, LineTypes DEF Agreed, StartingAgreed
  <2>7. phase[cur] \notin {"None", "Idle"}
    BY <2>1, <2>2 DEF Agreed, IdleAgreed
  <2> QED BY <2>5, <2>6, <2>7 DEF Unexpected
<1> QED BY <1>1, ProtocolInvariant, PTL

(* An answer is never taken for the answer to another job: the command in  *)
(* the pipe of a busy slot, what its process evaluates and each response   *)
(* that it has written are about the path that the slot holds.             *)
THEOREM AnswersAreAttributed == Spec => []Attribution
<1>1. IInv /\ ProtocolInv => Attribution
  <2> SUFFICES ASSUME IInv, ProtocolInv, InLoop, NEW w \in Worker,
                      phase[w] = "Busy"
               PROVE
    /\ \A i \in DOMAIN toWorker[w] :
         toWorker[w][i].type = "do" => toWorker[w][i].attrPath = attrPath[w]
    /\ proc[w] = "running" /\ wpc[w] = "eval" => wpath[w] = attrPath[w]
    /\ \A i \in DOMAIN fromWorker[w] :
         fromWorker[w][i].type = "response" =>
           fromWorker[w][i].attrPath = attrPath[w]
    /\ pc = "lines" /\ cur = w =>
         \A i \in DOMAIN lines :
           lines[i].type = "response" => lines[i].attrPath = attrPath[w]
    BY DEF Attribution
  <2>1. BusyAgreed(w)
    BY DEF ProtocolInv, AllAgreed, Agreed
  <2>2. \A i \in DOMAIN toWorker[w] : toWorker[w][i].attrPath = attrPath[w]
    <3>1. toWorker[w] = <<>> \/ toWorker[w] = <<MsgDo(attrPath[w])>>
      BY <2>1 DEF BusyAgreed
    <3>2. DOMAIN <<>> = {}
      OBVIOUS
    <3> QED BY <3>1, <3>2, ShortSeqs, LineTypes
  <2>3. wpc[w] = "eval" => wpath[w] = attrPath[w]
    BY <2>1 DEF BusyAgreed
  <2> DEFINE Mine(l) == l.type = "response" => l.attrPath = attrPath[w]
  <2>4. \A i \in DOMAIN Unread(w) : Mine(Unread(w)[i])
    <3> DEFINE r == ResponseLine(attrPath[w])
    <3>1. Mine(r) /\ Mine(MsgNext) /\ Mine(MsgRestart)
      BY LineTypes
    <3>2. \/ Unread(w) = <<>> \/ Unread(w) = <<r>>
          \/ Unread(w) = <<r, MsgNext>> \/ Unread(w) = <<r, MsgRestart>>
      BY <2>1 DEF BusyAgreed
    <3>3. DOMAIN <<>> = {}
      OBVIOUS
    <3> HIDE DEF Mine, r
    <3>4. /\ \A i \in DOMAIN <<r>> : <<r>>[i] = r
          /\ \A i \in DOMAIN <<r, MsgNext>> : <<r, MsgNext>>[i] \in {r, MsgNext}
          /\ \A i \in DOMAIN <<r, MsgRestart>> :
               <<r, MsgRestart>>[i] \in {r, MsgRestart}
      BY ShortSeqs
    <3> QED BY <3>1, <3>2, <3>3, <3>4
  <2>5. lines \in Seq(Line) /\ fromWorker[w] \in Seq(Line)
    BY UnreadIsSeq DEF IInv
  <2> HIDE DEF Mine
  <2>6. \A i \in DOMAIN fromWorker[w] : Mine(fromWorker[w][i])
    <3>1. CASE w # cur
      BY <2>4, <3>1 DEF Unread
    <3>2. CASE w = cur
      <4>1. Unread(w) = lines \o fromWorker[w]
        BY <3>2 DEF Unread
      <4>2. \A i \in DOMAIN fromWorker[w] :
              \E j \in DOMAIN Unread(w) : Unread(w)[j] = fromWorker[w][i]
        <5>1. \A i \in DOMAIN fromWorker[w] :
                \E j \in DOMAIN (lines \o fromWorker[w]) :
                  (lines \o fromWorker[w])[j] = fromWorker[w][i]
          BY <2>5, ConcatLines, Zenon
        <5> QED BY <4>1, <5>1, Zenon
      <4> QED BY <2>4, <4>2
    <3> QED BY <3>1, <3>2
  <2>7. cur = w => \A i \in DOMAIN lines : Mine(lines[i])
    <3> SUFFICES ASSUME cur = w PROVE \A i \in DOMAIN lines : Mine(lines[i])
      OBVIOUS
    <3>1. Unread(w) = lines \o fromWorker[w]
      BY DEF Unread
    <3>2. \A i \in DOMAIN lines :
            i \in DOMAIN Unread(w) /\ Unread(w)[i] = lines[i]
      BY <2>5, <3>1, ConcatLines
    <3> QED BY <2>4, <3>2
  <2> QED BY <2>2, <2>3, <2>6, <2>7 DEF Mine
<1> QED BY <1>1, ProtocolInvariant, PTL

(* The process of a Solo retry holds the memory of the root value and of   *)
(* the retried job at most, also when the worker was restarted, or its     *)
(* first process killed, after enterSolo.                                  *)
THEOREM SoloIsFresh == Spec => []SoloFresh
<1>1. IInv /\ ProtocolInv => SoloFresh
  BY DEF IInv, ProtocolInv, SoloFresh, AllFresh, Fresh, Running, InPhase
<1> QED BY <1>1, ProtocolInvariant, PTL
=============================================================================
