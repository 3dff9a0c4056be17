-------------------------- MODULE CacheStatusProofs --------------------------
(***************************************************************************)
(* Proofs about CacheStatus: for every graph of derivations without a      *)
(* cycle, every order in which jobs arrive and whatever the stores answer. *)
(***************************************************************************)
EXTENDS CacheStatus, SequenceLemmas

-----------------------------------------------------------------------------
(* Derivations, outputs and the stores.                                    *)

StoresTyped ==
  /\ outputs \in OutputMap /\ inputs \in InputGraph
  /\ validCache \in [OutputPath -> Answer]
  /\ probeCache \in [OutputPath -> Answer]

LEMMA Derivations ==
  /\ Drv \subseteq Nat /\ IsFiniteSet(Drv) /\ Job \subseteq Drv
  /\ IsFiniteSet(Job)
<1>1. Drv \subseteq Nat /\ IsFiniteSet(Drv) /\ Job \subseteq Drv
  BY DrvAssumption DEF DrvAssumption
<1> QED BY <1>1, FS_Subset

LEMMA InputsAreGreater ==
  ASSUME inputs \in InputGraph, outputs \in OutputMap, NEW d \in Drv
  PROVE  /\ DOMAIN inputs[d] \subseteq Drv
         /\ \A e \in DOMAIN inputs[d] :
              d < e /\ inputs[d][e] \subseteq DOMAIN outputs[e]
<1>1. /\ DOMAIN inputs[d] \subseteq {e \in Drv : e > d}
      /\ \A e \in DOMAIN inputs[d] : inputs[d][e] \subseteq DOMAIN outputs[e]
  BY GraphAssumption DEF GraphAssumption
<1>2. \A e \in Drv : e > d => d < e
  BY Derivations
<1> QED BY <1>1, <1>2

LEMMA PathsOfOutputs ==
  ASSUME outputs \in OutputMap, NEW d \in Drv
  PROVE  /\ DOMAIN outputs[d] \subseteq Nat
         /\ \A n \in DOMAIN outputs[d] :
              outputs[d][n] \in OutputPath \/ outputs[d][n] = NoPath
         /\ Range(outputs[d]) = {outputs[d][n] : n \in DOMAIN outputs[d]}
<1>1. /\ DOMAIN outputs[d] \subseteq Nat
      /\ Range(outputs[d]) \subseteq OutputPath \cup {NoPath}
  BY DrvAssumption DEF DrvAssumption
<1> QED BY <1>1 DEF Range

(* The paths that a loop over the names of outputs looks at. *)
PathsOf(d, names) == {outputs[d][n] : n \in names}

LEMMA LookedAt ==
  ASSUME outputs \in OutputMap, NEW d \in Drv, NEW names,
         names \subseteq DOMAIN outputs[d]
  PROVE  /\ BeforeUnknown(d, names) \subseteq OutputPath
         /\ Known(d, names) => /\ BeforeUnknown(d, names) = PathsOf(d, names)
                               /\ PathsOf(d, names) \subseteq OutputPath
<1>1. \A n \in names : /\ n \in Nat
                       /\ outputs[d][n] \in OutputPath \/ outputs[d][n] = NoPath
  BY PathsOfOutputs
<1>2. \A n \in names : n <= n
  BY <1>1
<1>3. BeforeUnknown(d, names) \subseteq OutputPath
  BY <1>1, <1>2 DEF BeforeUnknown
<1>4. ASSUME Known(d, names) PROVE BeforeUnknown(d, names) = PathsOf(d, names)
  BY <1>4 DEF Known, BeforeUnknown, PathsOf
<1> QED BY <1>3, <1>4

LEMMA AllNames ==
  ASSUME outputs \in OutputMap, NEW d \in Drv
  PROVE  /\ PathsOf(d, DOMAIN outputs[d]) = Range(outputs[d])
         /\ WantedNames(d, {}) = DOMAIN outputs[d]
  BY PathsOfOutputs DEF PathsOf, WantedNames

LEMMA WantedAreNames ==
  ASSUME NEW d, NEW names, names \subseteq DOMAIN outputs[d]
  PROVE  WantedNames(d, names) \subseteq DOMAIN outputs[d]
  BY DEF WantedNames

-----------------------------------------------------------------------------
(* An attempt.                                                             *)

Frame == [drv : Drv, rest : SUBSET Drv, last : BOOLEAN]

AttemptType ==
  [visited : SUBSET Drv, builds : Seq(Drv), unknown : Seq(Drv),
   substitutes : SUBSET OutputPath, wantedValid : SUBSET OutputPath,
   wanted : SUBSET OutputPath, complete : BOOLEAN, stack : Seq(Frame)]

LEMMA NewAttemptTyped == NewAttempt \in AttemptType
<1>1. <<>> \in Seq(Drv) /\ <<>> \in Seq(Frame)
  OBVIOUS
<1> QED BY <1>1 DEF NewAttempt, AttemptType

(* The calls of probeValidity change two fields. *)
LEMMA Probed ==
  ASSUME NEW a \in AttemptType, NEW paths, paths \subseteq OutputPath
  PROVE  LET b == ProbeValidity(a, paths)
             p == Pending(validCache, paths)
         IN  /\ b \in AttemptType /\ p \subseteq paths
             /\ b.visited = a.visited /\ b.builds = a.builds
             /\ b.unknown = a.unknown /\ b.substitutes = a.substitutes
             /\ b.wanted = a.wanted /\ b.stack = a.stack
             /\ b.wantedValid = a.wantedValid \cup p
             /\ b.complete = (a.complete /\ p = {})
<1> DEFINE p == Pending(validCache, paths)
<1>1. p \subseteq paths
  BY DEF Pending
<1> HIDE DEF p
<1>2. (a.complete /\ p = {}) \in BOOLEAN /\ a.wantedValid \cup p \in SUBSET OutputPath
  BY <1>1 DEF AttemptType
<1> QED BY <1>1, <1>2 DEF ProbeValidity, AttemptType, p

LEMMA Searched ==
  ASSUME NEW a \in AttemptType, NEW paths, paths \subseteq OutputPath
  PROVE  LET b == ProbeSubstitutes(a, paths)
             p == Pending(probeCache, paths)
         IN  /\ b \in AttemptType /\ p \subseteq paths
             /\ b.visited = a.visited /\ b.builds = a.builds
             /\ b.unknown = a.unknown /\ b.substitutes = a.substitutes
             /\ b.wantedValid = a.wantedValid /\ b.stack = a.stack
             /\ b.wanted = a.wanted \cup p
             /\ b.complete = (a.complete /\ p = {})
<1> DEFINE p == Pending(probeCache, paths)
<1>1. p \subseteq paths
  BY DEF Pending
<1> HIDE DEF p
<1>2. (a.complete /\ p = {}) \in BOOLEAN /\ a.wanted \cup p \in SUBSET OutputPath
  BY <1>1 DEF AttemptType
<1> QED BY <1>1, <1>2 DEF ProbeSubstitutes, AttemptType, p
Call(d, last) == [drv |-> d, rest |-> DOMAIN inputs[d], last |-> last]
Pushes(a, b, d, last) == b.stack = Append(a.stack, Call(d, last))

(* What visitDrv(d) may do, from attempt a to attempt b, if d was not      *)
(* visited before; outs are the names of the outputs that are wanted.      *)
FindsUnknown(a, b, d, outs) ==
  /\ ~Known(d, outs)
  /\ b.unknown = Append(a.unknown, d)
  /\ b.builds = a.builds /\ b.substitutes = a.substitutes
  /\ b.stack = a.stack /\ b.wanted = a.wanted
  /\ LET p == Pending(validCache, BeforeUnknown(d, outs))
     IN  /\ b.wantedValid = a.wantedValid \cup p
         /\ b.complete = (a.complete /\ p = {})

FindsPending(a, b, d, outs) ==
  /\ Known(d, outs) /\ ~b.complete
  /\ b.unknown = a.unknown /\ b.builds = a.builds
  /\ b.substitutes = a.substitutes /\ b.wanted = a.wanted
  /\ Pushes(a, b, d, FALSE)
  /\ LET p == Pending(validCache, PathsOf(d, outs))
     IN  p # {} /\ b.wantedValid = a.wantedValid \cup p

FindsValidity(a, b, d, outs) ==
  /\ Known(d, outs) /\ Pending(validCache, PathsOf(d, outs)) = {}
  /\ b.unknown = a.unknown /\ b.builds = a.builds
  /\ b.wantedValid = a.wantedValid
  /\ LET missing == Missing(PathsOf(d, outs))
         p == Pending(probeCache, missing)
     IN  \/ /\ p # {} /\ ~b.complete
            /\ b.wanted = a.wanted \cup p
            /\ b.substitutes = a.substitutes /\ b.stack = a.stack
         \/ /\ p = {} /\ AllSubstitutable(missing)
            /\ b.complete = a.complete /\ b.wanted = a.wanted
            /\ b.substitutes = a.substitutes \cup missing
            /\ b.stack = a.stack
         \/ /\ p = {} /\ ~AllSubstitutable(missing)
            /\ b.complete = a.complete /\ b.wanted = a.wanted
            /\ b.substitutes = a.substitutes
            /\ Pushes(a, b, d, TRUE)

VisitsNew(a, b, d, outs) ==
  /\ d \notin a.visited
  /\ b \in AttemptType /\ b.visited = a.visited \cup {d}
  /\ \/ FindsUnknown(a, b, d, outs)
     \/ FindsPending(a, b, d, outs)
     \/ FindsValidity(a, b, d, outs)

LEMMA Opened ==
  ASSUME StoresTyped, NEW a \in AttemptType, NEW d \in Drv,
         NEW last \in BOOLEAN
  PROVE  LET b == VisitInputs(a, d, last)
         IN  /\ b \in AttemptType /\ b.visited = a.visited
             /\ b.builds = a.builds /\ b.unknown = a.unknown
             /\ b.substitutes = a.substitutes
             /\ b.wantedValid = a.wantedValid /\ b.wanted = a.wanted
             /\ b.complete = a.complete
             /\ b.stack = Append(a.stack, Call(d, last))
<1>1. Call(d, last) \in Frame
  BY InputsAreGreater DEF StoresTyped, Call, Frame
<1>2. Append(a.stack, Call(d, last)) \in Seq(Frame)
  BY <1>1, AppendProperties DEF AttemptType
<1>3. VisitInputs(a, d, last) =
        [a EXCEPT !.stack = Append(@, Call(d, last))]
  BY DEF VisitInputs, Call
<1> HIDE DEF Call, Frame
<1> QED BY <1>2, <1>3 DEF AttemptType

LEMMA VisitDoes ==
  ASSUME StoresTyped, NEW a \in AttemptType, NEW d \in Drv, NEW names,
         names \subseteq DOMAIN outputs[d], d \notin a.visited
  PROVE  VisitsNew(a, VisitDrv(a, d, names), d, WantedNames(d, names))
<1> DEFINE outs == WantedNames(d, names)
           paths == BeforeUnknown(d, outs)
           missing == Missing(paths)
           first == [a EXCEPT !.visited = @ \cup {d}]
           probed == ProbeValidity(first, paths)
           p == Pending(validCache, paths)
           b == VisitDrv(a, d, names)
<1>1. /\ paths \subseteq OutputPath
      /\ Known(d, outs) => paths = PathsOf(d, outs)
  BY WantedAreNames, LookedAt DEF StoresTyped
<1>2. /\ first \in AttemptType /\ first.visited = a.visited \cup {d}
      /\ first.builds = a.builds /\ first.unknown = a.unknown
      /\ first.substitutes = a.substitutes /\ first.wanted = a.wanted
      /\ first.wantedValid = a.wantedValid /\ first.stack = a.stack
      /\ first.complete = a.complete
  BY DEF AttemptType
<1>3. b = IF ~Known(d, outs) THEN [probed EXCEPT !.unknown = Append(@, d)]
          ELSE IF p # {} THEN VisitInputs(probed, d, FALSE)
          ELSE IF missing = {} THEN probed
          ELSE IF Pending(probeCache, missing) # {}
               THEN ProbeSubstitutes(probed, missing)
          ELSE IF AllSubstitutable(missing)
               THEN [probed EXCEPT !.substitutes = @ \cup missing]
          ELSE VisitInputs(probed, d, TRUE)
  BY DEF VisitDrv
<1> HIDE DEF first
<1>4. /\ probed \in AttemptType /\ p \subseteq paths
      /\ probed.visited = a.visited \cup {d} /\ probed.builds = a.builds
      /\ probed.unknown = a.unknown /\ probed.substitutes = a.substitutes
      /\ probed.wanted = a.wanted /\ probed.stack = a.stack
      /\ probed.wantedValid = a.wantedValid \cup p
      /\ probed.complete = (a.complete /\ p = {})
  BY <1>1, <1>2, Probed
<1>5. missing \subseteq paths
  BY DEF Missing
<1> HIDE DEF probed, paths, p, missing, outs, b
<1>6. CASE ~Known(d, outs)
  <2>1. b = [probed EXCEPT !.unknown = Append(@, d)]
    BY <1>3, <1>6
  <2>2. Append(probed.unknown, d) \in Seq(Drv)
    BY <1>4, AppendProperties DEF AttemptType
  <2>3. /\ b \in AttemptType /\ b.unknown = Append(a.unknown, d)
        /\ b.visited = a.visited \cup {d} /\ b.builds = a.builds
        /\ b.substitutes = a.substitutes /\ b.wanted = a.wanted
        /\ b.stack = a.stack /\ b.wantedValid = a.wantedValid \cup p
        /\ b.complete = (a.complete /\ p = {})
    BY <1>4, <2>1, <2>2 DEF AttemptType
  <2>4. FindsUnknown(a, b, d, outs)
    BY <1>6, <2>3 DEF FindsUnknown, p, paths
  <2> QED BY <2>3, <2>4 DEF VisitsNew, b, outs
<1>7. CASE Known(d, outs) /\ p # {}
  <2>1. b = VisitInputs(probed, d, FALSE)
    BY <1>3, <1>7
  <2>0. /\ b \in AttemptType /\ b.visited = probed.visited
       /\ b.builds = probed.builds /\ b.unknown = probed.unknown
       /\ b.substitutes = probed.substitutes
       /\ b.wantedValid = probed.wantedValid /\ b.wanted = probed.wanted
       /\ b.complete = probed.complete
       /\ b.stack = Append(probed.stack, Call(d, FALSE))
    BY <1>4, <2>1, Opened
  <2>2. /\ b \in AttemptType /\ b.unknown = a.unknown
        /\ b.visited = a.visited \cup {d} /\ b.builds = a.builds
        /\ b.substitutes = a.substitutes /\ b.wanted = a.wanted
        /\ b.stack = Append(a.stack, Call(d, FALSE))
        /\ b.wantedValid = a.wantedValid \cup p /\ ~b.complete
    BY <1>4, <1>7, <2>1, <2>0 DEF AttemptType
  <2>3. p = Pending(validCache, PathsOf(d, outs))
    BY <1>1, <1>7 DEF p
  <2>4. FindsPending(a, b, d, outs)
    BY <1>7, <2>2, <2>3 DEF FindsPending, Pushes
  <2> QED BY <2>2, <2>4 DEF VisitsNew, b, outs
<1>8. CASE Known(d, outs) /\ p = {}
  <2>1. /\ missing = Missing(PathsOf(d, outs))
        /\ Pending(validCache, PathsOf(d, outs)) = {}
    BY <1>1, <1>8 DEF missing, p
  <2>2. /\ probed.wantedValid = a.wantedValid
        /\ probed.complete = a.complete /\ a.complete \in BOOLEAN
    BY <1>4, <1>8 DEF AttemptType
  <2>3. CASE Pending(probeCache, missing) # {}
    <3>1. missing # {}
      BY <2>3 DEF Pending
    <3>2. b = ProbeSubstitutes(probed, missing)
      BY <1>3, <1>8, <2>3, <3>1
    <3>0. /\ b \in AttemptType /\ b.visited = probed.visited
          /\ b.builds = probed.builds /\ b.unknown = probed.unknown
          /\ b.substitutes = probed.substitutes
          /\ b.wantedValid = probed.wantedValid /\ b.stack = probed.stack
          /\ b.wanted = probed.wanted \cup Pending(probeCache, missing)
          /\ b.complete = (probed.complete /\ Pending(probeCache, missing) = {})
      <4>1. missing \subseteq OutputPath
        BY <1>1, <1>5
      <4> QED BY <1>4, <3>2, <4>1, Searched
    <3>3. /\ b \in AttemptType /\ b.visited = a.visited \cup {d}
          /\ b.unknown = a.unknown /\ b.builds = a.builds
          /\ b.wantedValid = a.wantedValid /\ ~b.complete
          /\ b.wanted = a.wanted \cup Pending(probeCache, missing)
          /\ b.substitutes = a.substitutes /\ b.stack = a.stack
      BY <1>4, <2>2, <2>3, <3>0
    <3>4. FindsValidity(a, b, d, outs)
      BY <1>8, <2>1, <2>3, <3>3 DEF FindsValidity
    <3> QED BY <3>3, <3>4 DEF VisitsNew, b, outs
  <2>4. CASE Pending(probeCache, missing) = {} /\ AllSubstitutable(missing)
    <3>1. b = [probed EXCEPT !.substitutes = @ \cup missing]
      <4>1. CASE missing = {}
        <5>1. b = probed
          BY <1>3, <1>8, <4>1
        <5>2. probed.substitutes \cup missing = probed.substitutes
          BY <4>1
        <5> QED BY <1>4, <5>1, <5>2 DEF AttemptType
      <4>2. CASE missing # {}
        BY <1>3, <1>8, <2>4, <4>2
      <4> QED BY <4>1, <4>2
    <3>2. a.substitutes \cup missing \in SUBSET OutputPath
      BY <1>1, <1>5 DEF AttemptType
    <3>3. /\ b \in AttemptType /\ b.visited = a.visited \cup {d}
          /\ b.unknown = a.unknown /\ b.builds = a.builds
          /\ b.wantedValid = a.wantedValid /\ b.complete = a.complete
          /\ b.wanted = a.wanted /\ b.stack = a.stack
          /\ b.substitutes = a.substitutes \cup missing
      BY <1>4, <2>2, <3>1, <3>2 DEF AttemptType
    <3>4. FindsValidity(a, b, d, outs)
      BY <1>8, <2>1, <2>4, <3>3 DEF FindsValidity
    <3> QED BY <3>3, <3>4 DEF VisitsNew, b, outs
  <2>5. CASE Pending(probeCache, missing) = {} /\ ~AllSubstitutable(missing)
    <3>1. missing # {}
      BY <2>5 DEF AllSubstitutable
    <3>2. b = VisitInputs(probed, d, TRUE)
      BY <1>3, <1>8, <2>5, <3>1
    <3>0. /\ b \in AttemptType /\ b.visited = probed.visited
         /\ b.builds = probed.builds /\ b.unknown = probed.unknown
         /\ b.substitutes = probed.substitutes
         /\ b.wantedValid = probed.wantedValid /\ b.wanted = probed.wanted
         /\ b.complete = probed.complete
         /\ b.stack = Append(probed.stack, Call(d, TRUE))
      BY <1>4, <3>2, Opened
    <3>3. /\ b \in AttemptType /\ b.visited = a.visited \cup {d}
          /\ b.unknown = a.unknown /\ b.builds = a.builds
          /\ b.wantedValid = a.wantedValid /\ b.complete = a.complete
          /\ b.wanted = a.wanted /\ b.substitutes = a.substitutes
          /\ b.stack = Append(a.stack, Call(d, TRUE))
      BY <1>4, <2>2, <3>2, <3>0 DEF AttemptType
    <3>4. FindsValidity(a, b, d, outs)
      BY <1>8, <2>1, <2>5, <3>3 DEF FindsValidity, Pushes
    <3> QED BY <3>3, <3>4 DEF VisitsNew, b, outs
  <2> QED BY <2>3, <2>4, <2>5
<1> QED BY <1>6, <1>7, <1>8
-----------------------------------------------------------------------------
(* The invariants of an attempt.                                           *)

(* What is noted down is not known yet, and an attempt that is not         *)
(* complete has noted something down.                                      *)
Noted(a) ==
  /\ a.wantedValid \subseteq {p \in OutputPath : validCache[p] = "unknown"}
  /\ a.wanted \subseteq {p \in OutputPath : /\ validCache[p] = "no"
                                           /\ probeCache[p] = "unknown"}
  /\ ~a.complete => a.wantedValid \cup a.wanted # {}

Depth(a) == 1 .. Len(a.stack)

(* The calls are on the way to ever greater derivations; what a call has   *)
(* not left to visit was visited, but for those that are `due`.            *)
StackBut(a, due) ==
  /\ \A i \in Depth(a) :
       /\ a.stack[i].drv \in a.visited
       /\ a.stack[i].rest \subseteq DOMAIN inputs[a.stack[i].drv]
       /\ DOMAIN inputs[a.stack[i].drv] \ a.stack[i].rest
            \subseteq a.visited \cup due
  /\ \A i, k \in Depth(a) : i < k => a.stack[i].drv < a.stack[k].drv

OnStack(a) == {a.stack[i].drv : i \in Depth(a)}
Settled(a) == a.visited \ OnStack(a)

(* What is to be built once it returns. *)
ToBuild(a) ==
  {d \in OnStack(a) : \E i \in Depth(a) : a.stack[i].drv = d /\ a.stack[i].last}

InOrder(builds) ==
  \A i, k \in DOMAIN builds :
    builds[k] \in DOMAIN inputs[builds[i]] => k < i

(* A derivation is listed when visitDrv has returned from it and from all  *)
(* of its inputs.                                                          *)
BuildsInv(a) ==
  /\ InOrder(a.builds)
  /\ IsInjective(a.builds) /\ IsInjective(a.unknown)
  /\ Range(a.builds) \subseteq Settled(a) /\ Range(a.unknown) \subseteq a.visited
  /\ \A d \in Range(a.builds) : DOMAIN inputs[d] \subseteq Settled(a)

AttemptInv(a) ==
  a \in AttemptType /\ Noted(a) /\ StackBut(a, {}) /\ BuildsInv(a)

LEMMA NoStack ==
  ASSUME NEW a, a.stack = <<>>
  PROVE  Depth(a) = {} /\ OnStack(a) = {} /\ ToBuild(a) = {}
<1>1. Depth(a) = {}
  BY DEF Depth
<1> QED BY <1>1 DEF OnStack, ToBuild

LEMMA ListIndices ==
  ASSUME NEW s \in Seq(Drv)
  PROVE  /\ Len(s) \in Nat /\ DOMAIN s = 1 .. Len(s)
         /\ Range(s) = {s[i] : i \in DOMAIN s}
         /\ \A i \in DOMAIN s : s[i] \in Drv /\ s[i] \in Range(s)
<1>1. Len(s) \in Nat /\ DOMAIN s = 1 .. Len(s)
  OBVIOUS
<1>2. \A i \in DOMAIN s : s[i] \in Drv
  BY <1>1, ElementOfSeq
<1> QED BY <1>1, <1>2 DEF Range

LEMMA NothingListed ==
  /\ <<>> \in Seq(Drv) /\ Range(<<>>) = {} /\ IsInjective(<<>>)
  /\ InOrder(<<>>)
  BY DEF Range, IsInjective, InOrder

LEMMA NewAttemptInv == AttemptInv(NewAttempt)
<1>1. /\ NewAttempt.stack = <<>> /\ NewAttempt.builds = <<>>
      /\ NewAttempt.unknown = <<>> /\ NewAttempt.complete
      /\ NewAttempt.wantedValid = {} /\ NewAttempt.wanted = {}
  BY DEF NewAttempt
<1>2. StackBut(NewAttempt, {})
  BY <1>1, NoStack DEF StackBut
<1>3. BuildsInv(NewAttempt)
  BY <1>1, NothingListed DEF BuildsInv
<1> QED BY <1>1, <1>2, <1>3, NewAttemptTyped DEF AttemptInv, Noted

(* The calls on the stack after one more. *)
LEMMA Pushed ==
  ASSUME NEW a \in AttemptType, NEW b \in AttemptType, NEW d,
         NEW last \in BOOLEAN, Pushes(a, b, d, last)
  PROVE  /\ Len(a.stack) \in Nat /\ Len(b.stack) = Len(a.stack) + 1
         /\ Depth(b) = Depth(a) \cup {Len(a.stack) + 1}
         /\ \A i \in Depth(a) : b.stack[i] = a.stack[i]
         /\ b.stack[Len(a.stack) + 1] = Call(d, last)
         /\ OnStack(b) = OnStack(a) \cup {d}
         /\ ToBuild(b) = ToBuild(a) \cup {x \in {d} : last}
<1>1. a.stack \in Seq(Frame) /\ b.stack \in Seq(Frame)
  BY DEF AttemptType
<1>2. /\ Len(a.stack) \in Nat /\ Len(b.stack) = Len(a.stack) + 1
      /\ \A i \in 1 .. Len(a.stack) : b.stack[i] = a.stack[i]
      /\ b.stack[Len(a.stack) + 1] = Call(d, last)
  <2> DEFINE c == Call(d, last)
             S == Frame \cup {c}
  <2>1. a.stack \in Seq(S) /\ c \in S /\ b.stack = Append(a.stack, c)
    BY <1>1 DEF Pushes
  <2> HIDE DEF S, c
  <2> QED BY <2>1, AppendProperties DEF c
<1>3. Depth(b) = Depth(a) \cup {Len(a.stack) + 1}
  <2>1. \A n \in Nat : 1 .. n + 1 = (1 .. n) \cup {n + 1}
    OBVIOUS
  <2> QED BY <1>2, <2>1 DEF Depth
<1>4. Call(d, last).drv = d /\ Call(d, last).last = last
  BY DEF Call
<1>5. \A i \in Depth(a) : b.stack[i] = a.stack[i]
  BY <1>2 DEF Depth
<1> HIDE DEF Depth, Call
<1>6. OnStack(b) = OnStack(a) \cup {d}
  BY <1>2, <1>3, <1>4, <1>5 DEF OnStack
<1>7. ToBuild(b) = ToBuild(a) \cup {x \in {d} : last}
  <2> DEFINE n == Len(a.stack) + 1
  <2>1. /\ b.stack[n].drv = d /\ b.stack[n].last = last
        /\ Depth(b) = Depth(a) \cup {n}
    BY <1>2, <1>3, <1>4
  <2> HIDE DEF n
  <2>2. ASSUME NEW x
        PROVE  x \in ToBuild(b) <=> x \in ToBuild(a) \/ (last /\ x = d)
    BY <1>5, <1>6, <2>1 DEF ToBuild, OnStack
  <2> QED BY <2>2
<1> QED BY <1>2, <1>3, <1>5, <1>6, <1>7
(* The calls on the stack after the last one returns.                      *)
LEMMA Popped ==
  ASSUME NEW a \in AttemptType, a.stack # <<>>, StackBut(a, {}),
         NEW b, b.stack = Front(a.stack)
  PROVE  LET n == Len(a.stack) IN
         /\ n \in Depth(a) /\ b.stack \in Seq(Frame)
         /\ Depth(b) \subseteq Depth(a)
         /\ \A i \in Depth(b) : b.stack[i] = a.stack[i]
         /\ \A i \in Depth(b) : a.stack[i].drv < a.stack[n].drv
         /\ OnStack(b) = OnStack(a) \ {a.stack[n].drv}
         /\ ToBuild(a) =
              ToBuild(b) \cup {x \in {a.stack[n].drv} : a.stack[n].last}
<1> DEFINE n == Len(a.stack)
<1>1. a.stack \in Seq(Frame) /\ n \in Nat /\ n >= 1
  BY EmptySeq DEF AttemptType
<1>2. /\ b.stack \in Seq(Frame) /\ Len(b.stack) = n - 1
      /\ \A i \in 1 .. n - 1 : b.stack[i] = a.stack[i]
  <2>1. Front(a.stack) = SubSeq(a.stack, 1, n - 1)
    BY DEF Front
  <2> HIDE DEF Frame
  <2> QED BY <1>1, <2>1, SubSeqProperties
<1>3. /\ Depth(a) = Depth(b) \cup {n} /\ n \in Depth(a) /\ n \notin Depth(b)
      /\ \A i \in Depth(b) : i < n
  <2>1. \A m \in Nat : m >= 1 => /\ 1 .. m = (1 .. m - 1) \cup {m}
                               /\ m \in 1 .. m /\ m \notin 1 .. m - 1
                               /\ \A i \in 1 .. m - 1 : i < m
    OBVIOUS
  <2> QED BY <1>1, <1>2, <2>1 DEF Depth
<1>4. \A i \in Depth(b) : b.stack[i] = a.stack[i]
  BY <1>2 DEF Depth
<1> HIDE DEF n
<1>5. \A i \in Depth(b) : a.stack[i].drv < a.stack[n].drv
  BY <1>3 DEF StackBut
<1>6. \A i \in Depth(b) : a.stack[i].drv # a.stack[n].drv
  <2>1. \A i \in Depth(a) : a.stack[i].drv \in Nat
    <3>1. \A i \in Depth(a) : a.stack[i] \in Frame
      BY <1>1, ElementOfSeq DEF Depth
    <3> QED BY <3>1, Derivations DEF Frame
  <2> QED BY <1>3, <1>5, <2>1
<1> HIDE DEF Depth
<1>7. OnStack(b) = OnStack(a) \ {a.stack[n].drv}
  BY <1>3, <1>4, <1>6 DEF OnStack
<1>8. ToBuild(a) = ToBuild(b) \cup {x \in {a.stack[n].drv} : a.stack[n].last}
  <2>1. ASSUME NEW x
        PROVE  x \in ToBuild(a) <=>
                 \/ x \in ToBuild(b)
                 \/ a.stack[n].last /\ x = a.stack[n].drv
    BY <1>3, <1>4, <1>7 DEF ToBuild, OnStack
  <2> QED BY <2>1
<1> QED BY <1>2, <1>3, <1>4, <1>5, <1>7, <1>8 DEF n

LEMMA CallsTyped ==
  ASSUME NEW a \in AttemptType
  PROVE  \A i \in Depth(a) :
           /\ a.stack[i] \in Frame /\ a.stack[i].drv \in Drv
           /\ a.stack[i].rest \subseteq Drv /\ a.stack[i].last \in BOOLEAN
<1>1. a.stack \in Seq(Frame)
  BY DEF AttemptType
<1>2. \A i \in Depth(a) : a.stack[i] \in Frame
  BY <1>1, ElementOfSeq DEF Depth
<1> QED BY <1>2 DEF Frame

(* visitDrv keeps the calls in order, if d is further than all of them.    *)
LEMMA VisitKeepsStack ==
  ASSUME StoresTyped, NEW a \in AttemptType, NEW b \in AttemptType,
         NEW d \in Drv, d \notin a.visited, b.visited = a.visited \cup {d},
         \/ b.stack = a.stack
         \/ \E last \in BOOLEAN : Pushes(a, b, d, last),
         StackBut(a, {d}), \A i \in Depth(a) : a.stack[i].drv < d
  PROVE  /\ StackBut(b, {})
         /\ Settled(a) \subseteq Settled(b)
<1>1. CASE b.stack = a.stack
  <2>1. Depth(b) = Depth(a)
    BY <1>1 DEF Depth
  <2>2. StackBut(b, {})
    BY <1>1, <2>1 DEF StackBut
  <2>3. OnStack(b) = OnStack(a)
    BY <1>1, <2>1 DEF OnStack
  <2> QED BY <2>2, <2>3 DEF Settled
<1>2. ASSUME NEW last \in BOOLEAN, Pushes(a, b, d, last)
      PROVE  StackBut(b, {}) /\ Settled(a) \subseteq Settled(b)
  <2> DEFINE n == Len(a.stack) + 1
  <2>1. /\ Depth(b) = Depth(a) \cup {n} /\ n \notin Depth(a)
        /\ \A i \in Depth(a) : b.stack[i] = a.stack[i] /\ ~(n < i) /\ i \in Nat
        /\ b.stack[n] = Call(d, last) /\ ~(n < n)
        /\ OnStack(b) = OnStack(a) \cup {d}
    <3>1. /\ Len(a.stack) \in Nat /\ Depth(b) = Depth(a) \cup {n}
          /\ \A i \in Depth(a) : b.stack[i] = a.stack[i]
          /\ b.stack[n] = Call(d, last)
          /\ OnStack(b) = OnStack(a) \cup {d}
      BY <1>2, Pushed
    <3>2. \A i \in Depth(a) : ~(n < i) /\ i \in Nat /\ i # n
      BY <3>1 DEF Depth
    <3> QED BY <3>1, <3>2
  <2>2. /\ Call(d, last).drv = d /\ Call(d, last).rest = DOMAIN inputs[d]
    BY DEF Call
  <2> HIDE DEF n
  <2>3. ASSUME NEW i \in Depth(b)
        PROVE  /\ b.stack[i].drv \in b.visited
               /\ b.stack[i].rest \subseteq DOMAIN inputs[b.stack[i].drv]
               /\ DOMAIN inputs[b.stack[i].drv] \ b.stack[i].rest
                    \subseteq b.visited \cup {}
    <3>1. CASE i \in Depth(a)
      BY <2>1, <3>1 DEF StackBut
    <3>2. CASE i = n
      BY <2>1, <2>2, <3>2
    <3> QED BY <2>1, <3>1, <3>2
  <2>4. ASSUME NEW i \in Depth(b), NEW k \in Depth(b), i < k
        PROVE  b.stack[i].drv < b.stack[k].drv
    <3>1. i \in Depth(a)
      BY <2>1, <2>4
    <3>2. CASE k \in Depth(a)
      BY <2>1, <2>4, <3>1, <3>2 DEF StackBut
    <3>3. CASE k = n
      BY <2>1, <2>2, <3>1, <3>3
    <3> QED BY <2>1, <3>2, <3>3
  <2>5. StackBut(b, {})
    BY <2>3, <2>4 DEF StackBut
  <2>6. Settled(a) \subseteq Settled(b)
    BY <2>1 DEF Settled
  <2> QED BY <2>5, <2>6
<1> QED BY <1>1, <1>2
LEMMA VisitKeepsNoted ==
  ASSUME StoresTyped, NEW a, Noted(a), NEW d \in Drv, NEW b, NEW outs,
         outs \subseteq DOMAIN outputs[d], VisitsNew(a, b, d, outs)
  PROVE  Noted(b)
<1>1. /\ BeforeUnknown(d, outs) \subseteq OutputPath
      /\ Known(d, outs) => PathsOf(d, outs) \subseteq OutputPath
  BY LookedAt DEF StoresTyped
<1>2. CASE FindsUnknown(a, b, d, outs)
  <2> DEFINE p == Pending(validCache, BeforeUnknown(d, outs))
  <2>1. p \subseteq {q \in OutputPath : validCache[q] = "unknown"}
    BY <1>1 DEF Pending
  <2> HIDE DEF p
  <2>2. /\ b.wantedValid = a.wantedValid \cup p /\ b.wanted = a.wanted
        /\ b.complete = (a.complete /\ p = {})
    BY <1>2 DEF FindsUnknown, p
  <2> QED BY <2>1, <2>2 DEF Noted
<1>3. CASE FindsPending(a, b, d, outs)
  <2> DEFINE p == Pending(validCache, PathsOf(d, outs))
  <2>1. p \subseteq {q \in OutputPath : validCache[q] = "unknown"}
    BY <1>1, <1>3 DEF Pending, FindsPending
  <2> HIDE DEF p
  <2>2. /\ b.wantedValid = a.wantedValid \cup p /\ b.wanted = a.wanted
        /\ p # {}
    BY <1>3 DEF FindsPending, p
  <2> QED BY <2>1, <2>2 DEF Noted
<1>4. CASE FindsValidity(a, b, d, outs)
  <2> DEFINE p == Pending(probeCache, Missing(PathsOf(d, outs)))
  <2>1. p \subseteq {q \in OutputPath : /\ validCache[q] = "no"
                                      /\ probeCache[q] = "unknown"}
    BY <1>1, <1>4 DEF Pending, Missing, FindsValidity
  <2> HIDE DEF p
  <2>2. /\ b.wantedValid = a.wantedValid
        /\ \/ b.wanted = a.wanted \cup p /\ p # {}
           \/ b.wanted = a.wanted /\ b.complete = a.complete
    BY <1>4 DEF FindsValidity, p
  <2> QED BY <2>1, <2>2 DEF Noted
<1> QED BY <1>2, <1>3, <1>4 DEF VisitsNew

(* What a new visit does to the lists and to the stack. *)
LEMMA VisitLists ==
  ASSUME NEW a, NEW b, NEW d, NEW outs, VisitsNew(a, b, d, outs)
  PROVE  /\ b \in AttemptType /\ b.visited = a.visited \cup {d}
         /\ d \notin a.visited /\ b.builds = a.builds
         /\ b.unknown = a.unknown \/ b.unknown = Append(a.unknown, d)
         /\ \/ b.stack = a.stack
            \/ \E last \in BOOLEAN : Pushes(a, b, d, last)
  BY DEF VisitsNew, FindsUnknown, FindsPending, FindsValidity

LEMMA VisitKeeps ==
  ASSUME StoresTyped, NEW a \in AttemptType, Noted(a), BuildsInv(a),
         NEW d \in Drv, StackBut(a, {d}),
         \A i \in Depth(a) : a.stack[i].drv < d,
         NEW b, NEW outs, outs \subseteq DOMAIN outputs[d],
         VisitsNew(a, b, d, outs)
  PROVE  AttemptInv(b)
<1>1. /\ b \in AttemptType /\ b.visited = a.visited \cup {d}
      /\ d \notin a.visited /\ b.builds = a.builds
      /\ b.unknown = a.unknown \/ b.unknown = Append(a.unknown, d)
      /\ \/ b.stack = a.stack
         \/ \E last \in BOOLEAN : Pushes(a, b, d, last)
  BY VisitLists
<1>2. Noted(b)
  BY VisitKeepsNoted
<1>3. StackBut(b, {}) /\ Settled(a) \subseteq Settled(b)
  BY <1>1, VisitKeepsStack
<1>4. IsInjective(b.unknown) /\ Range(b.unknown) \subseteq b.visited
  <2>1. a.unknown \in Seq(Drv) /\ d \notin Range(a.unknown)
    BY <1>1 DEF AttemptType, BuildsInv
  <2>2. /\ Range(Append(a.unknown, d)) = Range(a.unknown) \cup {d}
        /\ IsInjective(a.unknown) => IsInjective(Append(a.unknown, d))
    BY <2>1, ListAppend
  <2> QED BY <1>1, <2>2 DEF BuildsInv
<1>5. BuildsInv(b)
  BY <1>1, <1>3, <1>4 DEF BuildsInv
<1> QED BY <1>1, <1>2, <1>3, <1>5 DEF AttemptInv

(* The top of the stack, when visitDrv returns to it.                      *)
ReturnOf(a) ==
  LET top == a.stack[Len(a.stack)]
  IN  [a EXCEPT !.stack = Front(@),
                !.builds = IF top.last THEN PostOrder(@, top.drv) ELSE @]

LEMMA ReturnDoes ==
  ASSUME NEW a \in AttemptType, a.stack # <<>>, StackBut(a, {})
  PROVE  LET b == ReturnOf(a)
             top == a.stack[Len(a.stack)]
         IN  /\ b \in AttemptType /\ b.stack = Front(a.stack)
             /\ b.visited = a.visited /\ b.unknown = a.unknown
             /\ b.substitutes = a.substitutes /\ b.wanted = a.wanted
             /\ b.wantedValid = a.wantedValid /\ b.complete = a.complete
             /\ b.builds = IF top.last THEN Append(a.builds, top.drv)
                           ELSE a.builds
<1> DEFINE top == a.stack[Len(a.stack)]
           builds == IF top.last THEN Append(a.builds, top.drv) ELSE a.builds
<1>1. Front(a.stack) \in Seq(Frame)
  BY LastAndFront DEF AttemptType
<1>2. top.drv \in Drv
  <2>1. Len(a.stack) \in Depth(a)
    BY EmptySeq DEF AttemptType, Depth
  <2> QED BY <2>1, CallsTyped
<1>3. builds \in Seq(Drv)
  BY <1>2, AppendProperties DEF AttemptType
<1>4. ReturnOf(a) = [a EXCEPT !.stack = Front(@), !.builds = builds]
  BY DEF ReturnOf, PostOrder, AttemptType
<1> HIDE DEF builds
<1>5. /\ ReturnOf(a) \in AttemptType /\ ReturnOf(a).stack = Front(a.stack)
      /\ ReturnOf(a).visited = a.visited /\ ReturnOf(a).unknown = a.unknown
      /\ ReturnOf(a).substitutes = a.substitutes
      /\ ReturnOf(a).wanted = a.wanted
      /\ ReturnOf(a).wantedValid = a.wantedValid
      /\ ReturnOf(a).complete = a.complete
      /\ ReturnOf(a).builds = builds
  BY <1>1, <1>3, <1>4 DEF AttemptType
<1> QED BY <1>5 DEF builds
(* What the return does to the stack and to the lists. *)
LEMMA ReturnLists ==
  ASSUME NEW a \in AttemptType, a.stack # <<>>, StackBut(a, {}),
         a.stack[Len(a.stack)].rest = {}, NEW b, b = ReturnOf(a)
  PROVE  \E d \in Drv :
           /\ b \in AttemptType /\ StackBut(b, {})
           /\ b.visited = a.visited /\ b.unknown = a.unknown
           /\ b.substitutes = a.substitutes /\ b.wanted = a.wanted
           /\ b.wantedValid = a.wantedValid /\ b.complete = a.complete
           /\ d \in a.visited /\ DOMAIN inputs[d] \subseteq a.visited
           /\ d \in OnStack(a) /\ OnStack(b) = OnStack(a) \ {d}
           /\ \A e \in OnStack(b) : e \in Drv /\ e < d
           /\ \/ /\ b.builds = a.builds /\ ToBuild(b) = ToBuild(a)
                 /\ \E i \in Depth(a) : ~a.stack[i].last
              \/ /\ b.builds = Append(a.builds, d) /\ d \in ToBuild(a)
                 /\ ToBuild(a) = ToBuild(b) \cup {d}
           /\ Depth(b) \subseteq Depth(a)
           /\ \A i \in Depth(b) : b.stack[i] = a.stack[i]
<1> DEFINE n == Len(a.stack)
           d == a.stack[n].drv
           last == a.stack[n].last
<1>1. /\ b \in AttemptType /\ b.stack = Front(a.stack)
      /\ b.visited = a.visited /\ b.unknown = a.unknown
      /\ b.substitutes = a.substitutes /\ b.wanted = a.wanted
      /\ b.wantedValid = a.wantedValid /\ b.complete = a.complete
      /\ b.builds = IF last THEN Append(a.builds, d) ELSE a.builds
  BY ReturnDoes
<1>2. /\ n \in Depth(a) /\ Depth(b) \subseteq Depth(a)
      /\ \A i \in Depth(b) : b.stack[i] = a.stack[i]
      /\ \A i \in Depth(b) : a.stack[i].drv < d
      /\ OnStack(b) = OnStack(a) \ {d}
      /\ ToBuild(a) = ToBuild(b) \cup {x \in {d} : last}
  BY <1>1, Popped
<1>3. d \in Drv /\ last \in BOOLEAN /\ a.stack[n].rest = {}
  BY <1>2, CallsTyped
<1>4. /\ d \in a.visited
      /\ DOMAIN inputs[d] \ a.stack[n].rest \subseteq a.visited \cup {}
  BY <1>2 DEF StackBut
<1> HIDE DEF n
<1>5. StackBut(b, {})
  BY <1>1, <1>2 DEF StackBut
<1>6. ASSUME NEW e \in OnStack(b) PROVE e \in Drv /\ e < d
  <2>1. PICK i \in Depth(b) : e = b.stack[i].drv
    BY DEF OnStack
  <2>2. a.stack[i].drv \in Drv
    BY <1>2, CallsTyped
  <2> QED BY <1>2, <2>1, <2>2
<1>7. d \in OnStack(a) /\ (last => d \in ToBuild(a))
  BY <1>2 DEF OnStack, ToBuild
<1>8. CASE last
  <2>1. b.builds = Append(a.builds, d) /\ ToBuild(a) = ToBuild(b) \cup {d}
    BY <1>1, <1>2, <1>8
  <2> HIDE DEF d, last
  <2> QED BY <1>1, <1>2, <1>3, <1>4, <1>5, <1>6, <1>7, <1>8, <2>1
<1>9. CASE ~last
  <2>1. b.builds = a.builds /\ ToBuild(a) = ToBuild(b)
    BY <1>1, <1>2, <1>9
  <2>2. \E i \in Depth(a) : ~a.stack[i].last
    BY <1>2, <1>9
  <2> HIDE DEF d, last
  <2> QED BY <1>1, <1>2, <1>3, <1>4, <1>5, <1>6, <1>7, <1>9, <2>1, <2>2
<1> QED BY <1>8, <1>9

LEMMA BuildAdded ==
  ASSUME NEW s \in Seq(Drv), NEW d \in Drv, InOrder(s),
         d \notin DOMAIN inputs[d],
         \A e \in Range(s) : d \notin DOMAIN inputs[e]
  PROVE  InOrder(Append(s, d))
<1> DEFINE u == Append(s, d)
           n == Len(s)
<1>1. /\ n \in Nat /\ DOMAIN s = 1 .. n /\ DOMAIN u = 1 .. n + 1
      /\ \A i \in 1 .. n : u[i] = s[i] /\ s[i] \in Range(s)
      /\ u[n + 1] = d
  <2>1. n \in Nat /\ DOMAIN s = 1 .. n /\ \A i \in 1 .. n : s[i] \in Range(s)
    BY ListIndices
  <2> QED BY <2>1, AppendProperties
<1> HIDE DEF u
<1> SUFFICES ASSUME NEW i \in DOMAIN u, NEW k \in DOMAIN u,
                    u[k] \in DOMAIN inputs[u[i]]
             PROVE  k < i
  BY DEF InOrder, u
<1>2. (i \in 1 .. n \/ i = n + 1) /\ (k \in 1 .. n \/ k = n + 1)
  BY <1>1
<1>3. CASE i \in 1 .. n /\ k \in 1 .. n
  BY <1>1, <1>3 DEF InOrder
<1>4. CASE i = n + 1 /\ k \in 1 .. n
  BY <1>1, <1>4
<1>5. CASE k = n + 1
  BY <1>1, <1>2, <1>5
<1> QED BY <1>2, <1>3, <1>4, <1>5

LEMMA ReturnKeeps ==
  ASSUME StoresTyped, NEW a, AttemptInv(a), a.stack # <<>>,
         a.stack[Len(a.stack)].rest = {}
  PROVE  AttemptInv(ReturnOf(a))
<1> DEFINE b == ReturnOf(a)
<1>0. a \in AttemptType /\ StackBut(a, {}) /\ BuildsInv(a) /\ Noted(a)
  BY DEF AttemptInv
<1>1. PICK d \in Drv :
           /\ b \in AttemptType /\ StackBut(b, {})
           /\ b.visited = a.visited /\ b.unknown = a.unknown
           /\ b.wanted = a.wanted
           /\ b.wantedValid = a.wantedValid /\ b.complete = a.complete
           /\ d \in a.visited /\ DOMAIN inputs[d] \subseteq a.visited
           /\ d \in OnStack(a) /\ OnStack(b) = OnStack(a) \ {d}
           /\ \A e \in OnStack(b) : e \in Drv /\ e < d
           /\ b.builds = a.builds \/ b.builds = Append(a.builds, d)
  BY <1>0, ReturnLists
<1> HIDE DEF b
<1>2. Noted(b)
  BY <1>0, <1>1 DEF Noted
<1>3. Settled(b) = Settled(a) \cup {d}
  BY <1>1 DEF Settled
<1>4. DOMAIN inputs[d] \subseteq Settled(b) /\ d \notin DOMAIN inputs[d]
  <2>1. \A e \in DOMAIN inputs[d] : e \in Drv /\ d < e
    BY InputsAreGreater DEF StoresTyped
  <2>2. \A e \in Drv : d < e => ~(e < d) /\ e # d
    BY Derivations
  <2> QED BY <1>1, <2>1, <2>2 DEF Settled
<1>5. ASSUME b.builds = a.builds PROVE BuildsInv(b)
  BY <1>0, <1>1, <1>3, <1>5 DEF BuildsInv
<1>6. ASSUME b.builds = Append(a.builds, d) PROVE BuildsInv(b)
  <2>1. a.builds \in Seq(Drv) /\ d \notin Range(a.builds)
    BY <1>0, <1>1 DEF AttemptType, BuildsInv, Settled
  <2>2. \A e \in Range(a.builds) : d \notin DOMAIN inputs[e]
    BY <1>0, <1>1 DEF BuildsInv, Settled
  <2>3. /\ Range(b.builds) = Range(a.builds) \cup {d}
        /\ IsInjective(b.builds)
    BY <1>0, <1>6, <2>1, ListAppend DEF BuildsInv
  <2>4. InOrder(b.builds)
    BY <1>0, <1>4, <1>6, <2>1, <2>2, BuildAdded DEF BuildsInv
  <2>5. BuildsInv(b)
    BY <1>0, <1>1, <1>3, <1>4, <2>3, <2>4 DEF BuildsInv
  <2> QED BY <2>5
<1>7. BuildsInv(b)
  BY <1>1, <1>5, <1>6 DEF BuildsInv
<1> QED BY <1>1, <1>2, <1>7 DEF AttemptInv, b
(* A loop takes the next input.                                            *)
InputTaken(a, e) == [a EXCEPT !.stack[Len(a.stack)].rest = @ \ {e}]

Taken(a, b, d, e) ==
  /\ b \in AttemptType /\ StackBut(b, {e})
  /\ b.visited = a.visited /\ b.builds = a.builds
  /\ b.unknown = a.unknown /\ b.substitutes = a.substitutes
  /\ b.wanted = a.wanted /\ b.wantedValid = a.wantedValid
  /\ b.complete = a.complete
  /\ OnStack(b) = OnStack(a) /\ ToBuild(b) = ToBuild(a)
  /\ Depth(b) = Depth(a)
  /\ \A i \in Depth(b) : /\ b.stack[i].drv < e
                         /\ b.stack[i].last = a.stack[i].last
  /\ d \in a.visited /\ d \in Drv /\ e \in Drv
  /\ e \in DOMAIN inputs[d] /\ inputs[d][e] \subseteq DOMAIN outputs[e]
  /\ a.stack[Len(a.stack)].last => d \in ToBuild(a)

LEMMA TakingDoes ==
  ASSUME StoresTyped, NEW a \in AttemptType, a.stack # <<>>, StackBut(a, {}),
         NEW e, e \in a.stack[Len(a.stack)].rest
  PROVE  Taken(a, InputTaken(a, e), a.stack[Len(a.stack)].drv, e)
<1> DEFINE b == InputTaken(a, e)
           d == a.stack[Len(a.stack)].drv
<1> DEFINE n == Len(a.stack)
           f == [a.stack[n] EXCEPT !.rest = @ \ {e}]
<1>1. a.stack \in Seq(Frame) /\ n \in Nat /\ n >= 1 /\ n \in Depth(a)
      /\ d = a.stack[n].drv /\ e \in a.stack[n].rest
  BY EmptySeq DEF AttemptType, Depth
<1>2. /\ a.stack[n] \in Frame /\ d \in Drv /\ a.stack[n].rest \subseteq Drv
      /\ \A i \in Depth(a) : a.stack[i] \in Frame /\ a.stack[i].drv \in Drv
  BY <1>1, CallsTyped
<1>3. /\ f \in Frame /\ f.drv = d /\ f.last = a.stack[n].last
      /\ f.rest = a.stack[n].rest \ {e}
  BY <1>2 DEF Frame
<1>4. b = [a EXCEPT !.stack = [a.stack EXCEPT ![n] = f]]
  BY <1>1, <1>2 DEF InputTaken, AttemptType, Frame, n
<1> HIDE DEF b, d, f, n
<1>5. [a.stack EXCEPT ![n] = f] \in Seq(Frame)
  <2>1. DOMAIN a.stack = 1 .. n /\ a.stack \in [1 .. n -> Frame]
    BY <1>1 DEF n
  <2>2. [a.stack EXCEPT ![n] = f] \in [1 .. n -> Frame]
    BY <1>3, <2>1
  <2> QED BY <1>1, <2>2
<1>6. /\ Len([a.stack EXCEPT ![n] = f]) = n
      /\ \A i \in Depth(a) :
           [a.stack EXCEPT ![n] = f][i] = IF i = n THEN f ELSE a.stack[i]
  <2>1. DOMAIN a.stack = 1 .. n
    BY <1>1 DEF n
  <2>2. [a.stack EXCEPT ![n] = f] \in Seq(Frame)
    BY <1>5
  <2>3. DOMAIN [a.stack EXCEPT ![n] = f] = 1 .. n
    BY <2>1
  <2>4. Len([a.stack EXCEPT ![n] = f]) = n
    BY <1>1, <2>2, <2>3
  <2>5. \A i \in 1 .. n :
          [a.stack EXCEPT ![n] = f][i] = IF i = n THEN f ELSE a.stack[i]
    BY <2>1
  <2> QED BY <2>4, <2>5 DEF Depth, n
<1>7. /\ b \in AttemptType
      /\ b.visited = a.visited /\ b.builds = a.builds
      /\ b.unknown = a.unknown /\ b.substitutes = a.substitutes
      /\ b.wanted = a.wanted /\ b.wantedValid = a.wantedValid
      /\ b.complete = a.complete /\ b.stack = [a.stack EXCEPT ![n] = f]
  BY <1>4, <1>5 DEF AttemptType
<1>8. /\ Depth(b) = Depth(a)
      /\ \A i \in Depth(b) : b.stack[i] = IF i = n THEN f ELSE a.stack[i]
  BY <1>6, <1>7 DEF Depth
<1>9. \A i \in Depth(b) : /\ b.stack[i].drv = a.stack[i].drv
                          /\ b.stack[i].last = a.stack[i].last
                          /\ i # n => b.stack[i].rest = a.stack[i].rest
  BY <1>1, <1>3, <1>8
<1>10. OnStack(b) = OnStack(a) /\ ToBuild(b) = ToBuild(a)
  BY <1>8, <1>9 DEF OnStack, ToBuild
<1>11. /\ d \in a.visited /\ e \in DOMAIN inputs[d] /\ e \in Drv
       /\ inputs[d][e] \subseteq DOMAIN outputs[e] /\ d < e
  BY <1>1, <1>2, InputsAreGreater DEF StackBut, StoresTyped
<1>12. StackBut(b, {e})
  <2>1. ASSUME NEW i \in Depth(b)
        PROVE  /\ b.stack[i].drv \in b.visited
               /\ b.stack[i].rest \subseteq DOMAIN inputs[b.stack[i].drv]
               /\ DOMAIN inputs[b.stack[i].drv] \ b.stack[i].rest
                    \subseteq b.visited \cup {e}
    <3>1. /\ a.stack[i].drv \in a.visited
          /\ a.stack[i].rest \subseteq DOMAIN inputs[a.stack[i].drv]
          /\ DOMAIN inputs[a.stack[i].drv] \ a.stack[i].rest
               \subseteq a.visited \cup {}
      BY <1>8 DEF StackBut
    <3>2. b.stack[i].rest \in {a.stack[i].rest, a.stack[i].rest \ {e}}
      BY <1>3, <1>8, <1>9
    <3> QED BY <1>7, <1>9, <3>1, <3>2
  <2>2. \A i, k \in Depth(b) : i < k => b.stack[i].drv < b.stack[k].drv
    BY <1>8, <1>9 DEF StackBut
  <2> QED BY <2>1, <2>2 DEF StackBut
<1>13. ASSUME NEW i \in Depth(b) PROVE b.stack[i].drv < e
  <2>1. i = n \/ i < n
    BY <1>1, <1>8 DEF Depth, n
  <2>2. i < n => a.stack[i].drv < d
    BY <1>1, <1>8 DEF StackBut
  <2>3. a.stack[i].drv \in Nat /\ d \in Nat /\ e \in Nat
    BY <1>2, <1>8, <1>11, Derivations
  <2>4. a.stack[i].drv < e
    BY <1>1, <1>11, <2>1, <2>2, <2>3
  <2> QED BY <1>9, <2>4
<1>14. a.stack[n].last => d \in ToBuild(a)
  BY <1>1 DEF ToBuild, OnStack
<1>15. Taken(a, b, d, e)
  BY <1>2, <1>7, <1>8, <1>9, <1>10, <1>11, <1>12, <1>13, <1>14 DEF Taken, n
<1> QED BY <1>15 DEF b, d

LEMMA SeenAgain ==
  ASSUME NEW a, NEW d \in a.visited, StackBut(a, {d})
  PROVE  StackBut(a, {})
  BY DEF StackBut

(* One round of a loop over inputs. *)
LEMMA RoundKeeps ==
  ASSUME StoresTyped, NEW a, AttemptInv(a), a.stack # <<>>,
         NEW e, e \in a.stack[Len(a.stack)].rest
  PROVE  AttemptInv(VisitDrv(InputTaken(a, e), e,
                             inputs[a.stack[Len(a.stack)].drv][e]))
<1> DEFINE b == InputTaken(a, e)
           d == a.stack[Len(a.stack)].drv
           names == inputs[d][e]
           c == VisitDrv(b, e, names)
<1>1. a \in AttemptType /\ StackBut(a, {}) /\ BuildsInv(a) /\ Noted(a)
  BY DEF AttemptInv
<1>2. /\ b \in AttemptType /\ StackBut(b, {e})
      /\ b.visited = a.visited /\ b.builds = a.builds
      /\ b.unknown = a.unknown
      /\ b.wanted = a.wanted /\ b.wantedValid = a.wantedValid
      /\ b.complete = a.complete /\ OnStack(b) = OnStack(a)
      /\ \A i \in Depth(b) : b.stack[i].drv < e
      /\ e \in Drv /\ names \subseteq DOMAIN outputs[e]
  <2>1. Taken(a, b, d, e)
    BY <1>1, TakingDoes
  <2> HIDE DEF b, d
  <2> QED BY <2>1 DEF Taken
<1> HIDE DEF b, names
<1>3. Noted(b) /\ BuildsInv(b)
  BY <1>1, <1>2 DEF Noted, BuildsInv, Settled
<1>4. ASSUME e \in b.visited PROVE AttemptInv(c)
  <2>1. c = b
    BY <1>4 DEF VisitDrv
  <2>2. StackBut(b, {})
    BY <1>2, <1>4, SeenAgain
  <2> QED BY <1>2, <1>3, <2>1, <2>2 DEF AttemptInv
<1>5. ASSUME e \notin b.visited PROVE AttemptInv(c)
  <2>1. /\ VisitsNew(b, c, e, WantedNames(e, names))
        /\ WantedNames(e, names) \subseteq DOMAIN outputs[e]
    BY <1>2, <1>5, VisitDoes, WantedAreNames
  <2> HIDE DEF c
  <2> QED BY <1>2, <1>3, <2>1, VisitKeeps
<1> QED BY <1>4, <1>5 DEF b, names

-----------------------------------------------------------------------------
(* The states of the thread.                                               *)

ResultType ==
  [status : Status, builds : Seq(Drv), unknown : Seq(Drv),
   substitutes : SUBSET OutputPath]

(* An output that neither store has: this does not change any more.        *)
Unobtainable(j) ==
  \E p \in Range(outputs[j]) :
    p = NoPath \/ (validCache[p] = "no" /\ probeCache[p] = "no")

(* What the attempt has listed, or lists when its calls return.            *)
Listed(a) == Range(a.builds) \cup Range(a.unknown) \cup ToBuild(a)

WalkInv(j, a) == Unobtainable(j) /\ j \in Listed(a)

(* A result, in terms of what the caches will not forget. *)
ResultInv(j, r) ==
  /\ r \in ResultType /\ InOrder(r.builds)
  /\ r.status = "Local" =>
       \A p \in Range(outputs[j]) : p # NoPath /\ validCache[p] = "yes"
  /\ r.status = "Cached" =>
       /\ \A p \in Range(outputs[j]) :
            /\ p # NoPath
            /\ \/ validCache[p] = "yes"
               \/ validCache[p] = "no" /\ probeCache[p] = "yes"
       /\ \E p \in Range(outputs[j]) : validCache[p] = "no"
  /\ r.status = "NotBuilt" =>
       Unobtainable(j) /\ j \in Range(r.builds) \cup Range(r.unknown)

Unlooked ==
  /\ wantedValid \subseteq {p \in OutputPath : validCache[p] = "unknown"}
  /\ wanted \subseteq {p \in OutputPath : /\ validCache[p] = "no"
                                         /\ probeCache[p] = "unknown"}

ThreadTyped ==
  /\ unsent \subseteq Job
  /\ pc \in {"wait", "pass", "walk", "late", "valid", "substitutable"}
  /\ jobs \in Seq(Job) /\ tried \in Seq(Job)

(* The inductive invariant.                                                *)
Inv ==
  /\ StoresTyped /\ ThreadTyped /\ Unlooked /\ AttemptInv(t)
  /\ result \in [Job -> ResultType]
  /\ \A j \in Job : ResultInv(j, result[j])
  /\ pc = "walk" => jobs # <<>> /\ WalkInv(Head(jobs), t)
  /\ pc # "walk" => t = NewAttempt
  /\ tried # <<>> => wantedValid \cup wanted # {}
  /\ pc \notin {"pass", "walk"} => tried = <<>>
  /\ PostponedIsLookedUp

(* What the fast path notes down and learns. *)
LEMMA FastLooks ==
  ASSUME StoresTyped, NEW j \in Job
  PROVE  LET f == FastPath(j)
             paths == PathsOf(j, DOMAIN outputs[j])
         IN  /\ AttemptInv(f) /\ f.visited = {} /\ f.stack = <<>>
             /\ f.builds = <<>> /\ f.unknown = <<>> /\ f.substitutes = {}
             /\ f.complete = (/\ Pending(validCache,
                                   BeforeUnknown(j, DOMAIN outputs[j])) = {}
                              /\ Known(j, DOMAIN outputs[j]) =>
                                   Pending(probeCache, Missing(paths)) = {})
<1> DEFINE names == DOMAIN outputs[j]
           paths == BeforeUnknown(j, names)
           missing == Missing(PathsOf(j, names))
           probed == ProbeValidity(NewAttempt, paths)
           p == Pending(validCache, paths)
           q == Pending(probeCache, missing)
           f == FastPath(j)
<1>1. j \in Drv /\ Range(outputs[j]) = PathsOf(j, names)
  BY Derivations, AllNames DEF StoresTyped
<1>2. /\ paths \subseteq OutputPath
      /\ Known(j, names) => /\ paths = PathsOf(j, names)
                            /\ PathsOf(j, names) \subseteq OutputPath
  BY <1>1, LookedAt DEF StoresTyped
<1>3. f = IF Known(j, names) /\ probed.complete
          THEN ProbeSubstitutes(probed, missing) ELSE probed
  BY <1>1 DEF FastPath
<1> HIDE DEF f, names
<1>4. /\ NewAttempt \in AttemptType /\ NewAttempt.visited = {}
      /\ NewAttempt.stack = <<>> /\ NewAttempt.builds = <<>>
      /\ NewAttempt.unknown = <<>> /\ NewAttempt.substitutes = {}
      /\ NewAttempt.wantedValid = {} /\ NewAttempt.wanted = {}
      /\ NewAttempt.complete = TRUE
  BY NewAttemptTyped DEF NewAttempt
<1>5. /\ probed \in AttemptType /\ probed.visited = {}
      /\ probed.stack = <<>> /\ probed.builds = <<>>
      /\ probed.unknown = <<>> /\ probed.substitutes = {}
      /\ probed.wantedValid = p /\ probed.wanted = {}
      /\ probed.complete = (p = {})
  <2> DEFINE a == NewAttempt
  <2> HIDE DEF a, p, probed
  <2>1. probed = ProbeValidity(a, paths) /\ p = Pending(validCache, paths)
    BY DEF a, p, probed
  <2>2. a \in AttemptType /\ paths \subseteq OutputPath
    BY <1>2, <1>4 DEF a
  <2> HIDE DEF paths
  <2>3. /\ probed \in AttemptType
        /\ probed.visited = a.visited /\ probed.builds = a.builds
        /\ probed.unknown = a.unknown /\ probed.substitutes = a.substitutes
        /\ probed.wanted = a.wanted /\ probed.stack = a.stack
        /\ probed.wantedValid = a.wantedValid \cup p
        /\ probed.complete = (a.complete /\ p = {})
    BY <2>1, <2>2, Probed
  <2> QED BY <1>4, <2>3 DEF a
<1>6. /\ p \subseteq {x \in OutputPath : validCache[x] = "unknown"}
      /\ missing \subseteq PathsOf(j, names)
      /\ q \subseteq {x \in PathsOf(j, names) : /\ validCache[x] = "no"
                                               /\ probeCache[x] = "unknown"}
  BY <1>2 DEF Pending, Missing
<1> HIDE DEF probed, p, q, missing, paths
<1>7. ASSUME Known(j, names), p = {}
      PROVE  /\ f \in AttemptType /\ f.visited = {}
             /\ f.stack = <<>> /\ f.builds = <<>>
             /\ f.unknown = <<>> /\ f.substitutes = {}
             /\ f.wantedValid = {} /\ f.wanted = q
             /\ f.complete = (q = {}) /\ q \subseteq OutputPath
  <2>1. f = ProbeSubstitutes(probed, missing) /\ missing \subseteq OutputPath
    BY <1>2, <1>3, <1>5, <1>6, <1>7
  <2>2. q \subseteq OutputPath
    BY <1>2, <1>6, <1>7
  <2>3. /\ f \in AttemptType
        /\ f.visited = probed.visited /\ f.builds = probed.builds
        /\ f.unknown = probed.unknown /\ f.substitutes = probed.substitutes
        /\ f.wantedValid = probed.wantedValid /\ f.stack = probed.stack
        /\ f.wanted = probed.wanted \cup q
        /\ f.complete = (probed.complete /\ q = {})
    <3>1. q = Pending(probeCache, missing)
      BY DEF q
    <3>2. probed \in AttemptType /\ missing \subseteq OutputPath
      BY <1>5, <2>1
    <3>3. f = ProbeSubstitutes(probed, missing)
      BY <2>1
    <3> QED BY <3>1, <3>2, <3>3, Searched
  <2> QED BY <1>5, <1>7, <2>2, <2>3
<1>8. ASSUME ~(Known(j, names) /\ p = {})
      PROVE  f = probed
  BY <1>3, <1>5, <1>8
<1>9. /\ f \in AttemptType /\ f.visited = {} /\ f.stack = <<>>
      /\ f.builds = <<>> /\ f.unknown = <<>> /\ f.substitutes = {}
      /\ f.complete = (p = {} /\ (Known(j, names) => q = {}))
      /\ f.wantedValid \subseteq {x \in OutputPath : validCache[x] = "unknown"}
      /\ f.wanted \subseteq {x \in OutputPath : /\ validCache[x] = "no"
                                               /\ probeCache[x] = "unknown"}
      /\ ~f.complete => f.wantedValid \cup f.wanted # {}
  <2>1. CASE Known(j, names) /\ p = {}
    <3>1. q \subseteq {x \in OutputPath : /\ validCache[x] = "no"
                                          /\ probeCache[x] = "unknown"}
      BY <1>6, <1>7, <2>1
    <3> QED BY <1>7, <2>1, <3>1
  <2>2. CASE ~(Known(j, names) /\ p = {})
    BY <1>5, <1>6, <1>8, <2>2
  <2> QED BY <2>1, <2>2
<1>10. AttemptInv(f)
  <2>1. Noted(f)
    BY <1>9 DEF Noted
  <2>2. StackBut(f, {})
    BY <1>9, NoStack DEF StackBut
  <2>3. BuildsInv(f)
    BY <1>9, NothingListed DEF BuildsInv
  <2> QED BY <1>9, <2>1, <2>2, <2>3 DEF AttemptInv
<1> QED BY <1>9, <1>10 DEF f, p, q, paths, missing, names

(* What is listed stays listed. *)
LEMMA VisitKeepsListed ==
  ASSUME NEW a \in AttemptType, NEW b, NEW d \in Drv, NEW outs,
         VisitsNew(a, b, d, outs)
  PROVE  Listed(a) \subseteq Listed(b)
<1>1. /\ b \in AttemptType /\ b.builds = a.builds
      /\ b.unknown = a.unknown \/ b.unknown = Append(a.unknown, d)
      /\ \/ b.stack = a.stack
         \/ \E last \in BOOLEAN : Pushes(a, b, d, last)
  BY VisitLists
<1>2. Range(a.unknown) \subseteq Range(b.unknown)
  <2>1. Range(Append(a.unknown, d)) = Range(a.unknown) \cup {d}
    BY ListAppend DEF AttemptType
  <2> QED BY <1>1, <2>1
<1>3. ToBuild(a) \subseteq ToBuild(b)
  <2>1. ASSUME b.stack = a.stack PROVE ToBuild(a) \subseteq ToBuild(b)
    BY <2>1 DEF ToBuild, OnStack, Depth
  <2>2. ASSUME NEW last \in BOOLEAN, Pushes(a, b, d, last)
        PROVE  ToBuild(a) \subseteq ToBuild(b)
    BY <1>1, <2>2, Pushed
  <2> QED BY <1>1, <2>1, <2>2
<1> QED BY <1>1, <1>2, <1>3 DEF Listed

LEMMA RoundKeepsListed ==
  ASSUME StoresTyped, NEW a, AttemptInv(a), a.stack # <<>>,
         NEW e, e \in a.stack[Len(a.stack)].rest
  PROVE  Listed(a) \subseteq
           Listed(VisitDrv(InputTaken(a, e), e,
                           inputs[a.stack[Len(a.stack)].drv][e]))
<1> DEFINE b == InputTaken(a, e)
           d == a.stack[Len(a.stack)].drv
           names == inputs[d][e]
           c == VisitDrv(b, e, names)
<1>1. a \in AttemptType /\ StackBut(a, {})
  BY DEF AttemptInv
<1>2. /\ b \in AttemptType /\ e \in Drv /\ names \subseteq DOMAIN outputs[e]
      /\ Listed(b) = Listed(a)
  <2>1. Taken(a, b, d, e)
    BY <1>1, TakingDoes
  <2> HIDE DEF b, d
  <2> QED BY <2>1 DEF Taken, Listed
<1> HIDE DEF b, names
<1>3. ASSUME e \in b.visited PROVE c = b
  BY <1>3 DEF VisitDrv
<1>4. ASSUME e \notin b.visited PROVE Listed(b) \subseteq Listed(c)
  <2>1. VisitsNew(b, c, e, WantedNames(e, names))
    BY <1>2, <1>4, VisitDoes
  <2> HIDE DEF c
  <2> QED BY <1>2, <2>1, VisitKeepsListed
<1> QED BY <1>2, <1>3, <1>4 DEF b, names

LEMMA ReturnKeepsListed ==
  ASSUME NEW a \in AttemptType, a.stack # <<>>, StackBut(a, {}),
         a.stack[Len(a.stack)].rest = {}
  PROVE  Listed(a) \subseteq Listed(ReturnOf(a))
<1> DEFINE b == ReturnOf(a)
<1>1. PICK d \in Drv :
           /\ b \in AttemptType
           /\ b.unknown = a.unknown
           /\ \/ b.builds = a.builds /\ ToBuild(b) = ToBuild(a)
              \/ /\ b.builds = Append(a.builds, d)
                 /\ ToBuild(a) = ToBuild(b) \cup {d}
  BY ReturnLists
<1> HIDE DEF b
<1>2. Range(Append(a.builds, d)) = Range(a.builds) \cup {d}
  BY ListAppend DEF AttemptType
<1> QED BY <1>1, <1>2 DEF Listed, b

(* The walk begins when an output is missing and not substitutable, or     *)
(* statically unknown.                                                     *)
NeedsWalk(j) ==
  Known(j, DOMAIN outputs[j]) =>
    /\ FastPath(j).complete
    /\ ~AllSubstitutable(Missing(Range(outputs[j])))

LEMMA FastFinds ==
  ASSUME StoresTyped, NEW j \in Job
  PROVE  /\ Known(j, DOMAIN outputs[j]) /\ FastPath(j).complete =>
              /\ \A p \in Range(outputs[j]) :
                   p \in OutputPath /\ p # NoPath /\ validCache[p] # "unknown"
              /\ \A p \in Missing(Range(outputs[j])) :
                   probeCache[p] # "unknown"
         /\ ~Known(j, DOMAIN outputs[j]) => NoPath \in Range(outputs[j])
<1> DEFINE names == DOMAIN outputs[j]
<1>1. /\ PathsOf(j, names) = Range(outputs[j])
      /\ Known(j, names) => /\ BeforeUnknown(j, names) = PathsOf(j, names)
                            /\ PathsOf(j, names) \subseteq OutputPath
  BY Derivations, AllNames, LookedAt DEF StoresTyped
<1>2. ASSUME Known(j, names), FastPath(j).complete
      PROVE  /\ \A p \in Range(outputs[j]) :
                  p \in OutputPath /\ p # NoPath /\ validCache[p] # "unknown"
             /\ \A p \in Missing(Range(outputs[j])) : probeCache[p] # "unknown"
  <2>1. /\ Pending(validCache, Range(outputs[j])) = {}
        /\ Pending(probeCache, Missing(Range(outputs[j]))) = {}
    BY <1>1, <1>2, FastLooks
  <2>2. NoPath \notin OutputPath
    BY DrvAssumption DEF DrvAssumption
  <2> QED BY <1>1, <1>2, <2>1, <2>2 DEF Pending
<1>3. ~Known(j, names) => NoPath \in Range(outputs[j])
  BY <1>1 DEF Known, PathsOf
<1> QED BY <1>2, <1>3

LEMMA NeedIsFound ==
  ASSUME StoresTyped, NEW j \in Job, NeedsWalk(j)
  PROVE  Unobtainable(j)
<1>1. CASE ~Known(j, DOMAIN outputs[j])
  BY <1>1, FastFinds DEF Unobtainable
<1>2. CASE Known(j, DOMAIN outputs[j])
  <2>1. PICK p \in Missing(Range(outputs[j])) : probeCache[p] # "yes"
    BY <1>2 DEF NeedsWalk, AllSubstitutable
  <2>2. /\ p \in Range(outputs[j]) /\ validCache[p] = "no"
        /\ p \in OutputPath /\ probeCache[p] # "unknown"
    BY <1>2, <2>1, FastFinds DEF NeedsWalk, Missing
  <2>3. probeCache[p] = "no"
    BY <2>1, <2>2 DEF StoresTyped, Answer
  <2> QED BY <2>2, <2>3 DEF Unobtainable
<1> QED BY <1>1, <1>2

LEMMA WalkBegins ==
  ASSUME StoresTyped, NEW j \in Job, NeedsWalk(j)
  PROVE  LET b == VisitDrv(FastPath(j), j, {})
         IN  AttemptInv(b) /\ WalkInv(j, b)
<1> DEFINE a == FastPath(j)
           b == VisitDrv(a, j, {})
           names == DOMAIN outputs[j]
<1>1. /\ AttemptInv(a) /\ a.visited = {} /\ a.stack = <<>>
      /\ a.builds = <<>> /\ a.unknown = <<>>
      /\ Known(j, names) /\ a.complete =>
           /\ BeforeUnknown(j, names) = PathsOf(j, names)
           /\ Pending(validCache, PathsOf(j, names)) = {}
           /\ Pending(probeCache, Missing(PathsOf(j, names))) = {}
  BY FastLooks, Derivations, LookedAt DEF StoresTyped
<1>2. /\ j \in Drv /\ WantedNames(j, {}) = names
      /\ PathsOf(j, names) = Range(outputs[j])
  BY Derivations, AllNames DEF StoresTyped
<1>3. a \in AttemptType /\ Noted(a) /\ BuildsInv(a) /\ StackBut(a, {})
  BY <1>1 DEF AttemptInv
<1>4. VisitsNew(a, b, j, names)
  <2>1. {} \subseteq DOMAIN outputs[j] /\ j \notin a.visited
    BY <1>1
  <2> HIDE DEF a, names
  <2> QED BY <1>2, <1>3, <2>1, VisitDoes
<1>5. NeedsWalk(j) <=> Known(j, names) => /\ a.complete
                                          /\ ~AllSubstitutable(
                                                Missing(PathsOf(j, names)))
  BY <1>2 DEF NeedsWalk
<1> HIDE DEF a, b, names
<1>6. Depth(a) = {} /\ StackBut(a, {j})
  BY <1>1, NoStack DEF StackBut
<1>7. AttemptInv(b)
  <2>1. names \subseteq DOMAIN outputs[j]
    BY DEF names
  <2> QED BY <1>2, <1>3, <1>4, <1>6, <2>1, VisitKeeps
<1>8. j \in Listed(b)
  <2>1. CASE ~Known(j, names)
    <3>1. b.unknown = Append(a.unknown, j)
      BY <1>4, <2>1 DEF VisitsNew, FindsUnknown, FindsPending, FindsValidity
    <3>2. Range(Append(a.unknown, j)) = Range(a.unknown) \cup {j}
      BY <1>2, <1>3, ListAppend DEF AttemptType
    <3> QED BY <3>1, <3>2 DEF Listed
  <2>2. CASE Known(j, names)
    <3>1. Pushes(a, b, j, TRUE)
      BY <1>1, <1>4, <1>5, <2>2
         DEF VisitsNew, FindsUnknown, FindsPending, FindsValidity
    <3>2. j \in ToBuild(b)
      <4> DEFINE last == TRUE
      <4>1. b \in AttemptType /\ Pushes(a, b, j, last) /\ last \in BOOLEAN
        BY <1>4, <3>1 DEF VisitsNew
      <4>2. last
        OBVIOUS
      <4> HIDE DEF last
      <4>3. ToBuild(b) = ToBuild(a) \cup {x \in {j} : last}
        BY <1>3, <4>1, Pushed
      <4> QED BY <4>2, <4>3
    <3> QED BY <3>2 DEF Listed
  <2> QED BY <2>1, <2>2
<1> QED BY <1>7, <1>8, NeedIsFound DEF WalkInv, a, b

-----------------------------------------------------------------------------
(* The invariant holds, step by step.                                      *)

LEMMA InvStarts == Init => Inv
<1> SUFFICES ASSUME Init PROVE Inv
  OBVIOUS
<1>1. StoresTyped
  BY DEF Init, StoresTyped, Answer
<1>2. NoResult \in ResultType /\ InOrder(NoResult.builds)
      /\ NoResult.status = "Unknown"
  <2>1. <<>> \in Seq(Drv) /\ InOrder(<<>>)
    BY NothingListed
  <2> QED BY <2>1 DEF NoResult, ResultType, Status
<1>3. \A j \in Job : result[j] = NoResult
  BY DEF Init
<1>4. \A j \in Job : ResultInv(j, result[j])
  BY <1>2, <1>3 DEF ResultInv
<1>5. result \in [Job -> ResultType]
  BY <1>2 DEF Init
<1>6. ThreadTyped /\ Unlooked /\ AttemptInv(t)
  <2>1. <<>> \in Seq(Job)
    OBVIOUS
  <2>2. AttemptInv(t)
    BY NewAttemptInv DEF Init
  <2> QED BY <2>1, <2>2 DEF Init, ThreadTyped, Unlooked
<1> QED BY <1>1, <1>4, <1>5, <1>6 DEF Init, Inv, PostponedIsLookedUp

(* What is known does not change.                                          *)
CachesGrow ==
  /\ inputs' = inputs /\ outputs' = outputs
  /\ \A p \in OutputPath :
       /\ validCache[p] # "unknown" => validCache'[p] = validCache[p]
       /\ probeCache[p] # "unknown" => probeCache'[p] = probeCache[p]

LEMMA ResultStands ==
  ASSUME StoresTyped, CachesGrow, NEW j \in Job, NEW r, ResultInv(j, r)
  PROVE  ResultInv(j, r)'
<1>1. \A p \in Range(outputs[j]) : p \in OutputPath \/ p = NoPath
  BY Derivations, DrvAssumption DEF StoresTyped, DrvAssumption
<1>2. Range(outputs'[j]) = Range(outputs[j])
  BY DEF CachesGrow
<1>3. \A p \in Range(outputs[j]) : p # NoPath =>
        /\ validCache[p] = "yes" => validCache'[p] = "yes"
        /\ validCache[p] = "no" => validCache'[p] = "no"
        /\ probeCache[p] = "yes" => probeCache'[p] = "yes"
        /\ probeCache[p] = "no" => probeCache'[p] = "no"
  BY <1>1 DEF CachesGrow
<1>4. InOrder(r.builds)' <=> InOrder(r.builds)
  BY DEF InOrder, CachesGrow
<1>5. Unobtainable(j) => Unobtainable(j)'
  <2> SUFFICES ASSUME Unobtainable(j) PROVE Unobtainable(j)'
    OBVIOUS
  <2>1. PICK p \in Range(outputs[j]) :
          p = NoPath \/ (validCache[p] = "no" /\ probeCache[p] = "no")
    BY DEF Unobtainable
  <2>2. p = NoPath \/ (validCache'[p] = "no" /\ probeCache'[p] = "no")
    BY <1>3, <2>1
  <2> QED BY <1>2, <2>1, <2>2 DEF Unobtainable
<1>6. (r \in ResultType)' <=> r \in ResultType
  BY DEF ResultType
<1>7. r.status = "Local" =>
        \A p \in Range(outputs'[j]) : p # NoPath /\ validCache'[p] = "yes"
  BY <1>2, <1>3 DEF ResultInv
<1>8. ASSUME r.status = "Cached"
      PROVE  /\ \A p \in Range(outputs'[j]) :
                  /\ p # NoPath
                  /\ \/ validCache'[p] = "yes"
                     \/ validCache'[p] = "no" /\ probeCache'[p] = "yes"
             /\ \E p \in Range(outputs'[j]) : validCache'[p] = "no"
  <2>1. \A p \in Range(outputs[j]) :
          /\ p # NoPath
          /\ \/ validCache[p] = "yes"
             \/ validCache[p] = "no" /\ probeCache[p] = "yes"
    BY <1>8 DEF ResultInv
  <2>2. \E p \in Range(outputs[j]) : validCache[p] = "no"
    BY <1>8 DEF ResultInv
  <2> QED BY <1>2, <1>3, <2>1, <2>2
<1> QED BY <1>4, <1>5, <1>6, <1>7, <1>8 DEF ResultInv

(* Most of the invariant is kept by a step that leaves the caches alone.   *)
LEMMA AttemptStands ==
  ASSUME NEW a, AttemptInv(a), UNCHANGED storeVars
  PROVE  AttemptInv(a)'
  BY DEF storeVars, AttemptInv, AttemptType, Frame, Noted, StackBut, BuildsInv,
         InOrder, Settled, OnStack, Depth

LEMMA CachesStay ==
  ASSUME UNCHANGED storeVars
  PROVE  CachesGrow /\ (StoresTyped => StoresTyped')
         /\ \A j \in Job : \A a : WalkInv(j, a) => WalkInv(j, a)'
  BY DEF storeVars, CachesGrow, StoresTyped, WalkInv, Unobtainable, Listed,
         ToBuild, OnStack, Depth

LEMMA JobTaken ==
  ASSUME NEW s \in Seq(Job), s # <<>>
  PROVE  Tail(s) \in Seq(Job) /\ Head(s) \in Job
  BY HeadTailProperties

LEMMA JobKept ==
  ASSUME NEW s \in Seq(Job), NEW j \in Job
  PROVE  Append(s, j) \in Seq(Job) /\ Append(s, j) # <<>>
  BY AppendProperties

LEMMA ResultsKept ==
  ASSUME Inv, CachesGrow, NEW j \in Job, NEW r, ResultInv(j, r),
         result' = [result EXCEPT ![j] = r]
  PROVE  /\ (result \in [Job -> ResultType])'
         /\ (\A i \in Job : ResultInv(i, result[i]))'
<1>1. r \in ResultType /\ (r \in ResultType)' /\ ResultInv(j, r)'
  BY ResultStands DEF ResultInv, Inv
<1>2. (result \in [Job -> ResultType])'
  BY <1>1 DEF Inv, ResultType
<1>3. ASSUME NEW i \in Job PROVE ResultInv(i, result[i])'
  <2>1. CASE i = j
    <3>1. result'[i] = r
      BY <2>1 DEF Inv
    <3> QED BY <1>1, <2>1, <3>1 DEF ResultInv
  <2>2. CASE i # j
    <3> DEFINE x == result[i]
    <3>1. ResultInv(i, x)
      BY DEF Inv
    <3>2. result'[i] = x
      BY <2>2 DEF Inv
    <3> HIDE DEF x
    <3>3. PICK y : y = x
      OBVIOUS
    <3>4. ResultInv(i, y)'
      BY <3>1, <3>3, ResultStands DEF Inv
    <3> QED BY <3>2, <3>3, <3>4 DEF ResultInv
  <2> QED BY <2>1, <2>2
<1> QED BY <1>2, <1>3

LEMMA ResultsLeft ==
  ASSUME Inv, CachesGrow, UNCHANGED result
  PROVE  /\ (result \in [Job -> ResultType])'
         /\ (\A i \in Job : ResultInv(i, result[i]))'
<1>1. (result \in [Job -> ResultType])'
  BY DEF Inv, ResultType
<1>2. ASSUME NEW i \in Job PROVE ResultInv(i, result[i])'
  <2> PICK y : y = result[i]
    OBVIOUS
  <2>1. ResultInv(i, y)'
    BY ResultStands DEF Inv
  <2> QED BY <2>1 DEF ResultInv
<1> QED BY <1>1, <1>2

(* t, when it changes and when it does not. *)
LEMMA AttemptBecomes ==
  ASSUME NEW b, AttemptInv(b), t' = b, UNCHANGED storeVars
  PROVE  AttemptInv(t)'
<1>1. AttemptInv(b)'
  BY AttemptStands
<1> QED BY <1>1 DEF AttemptInv, AttemptType, Frame, Noted, StackBut, BuildsInv,
         InOrder, Settled, OnStack, Depth

LEMMA AttemptLeft ==
  ASSUME Inv, UNCHANGED <<storeVars, t>>
  PROVE  AttemptInv(t)'
<1> PICK b : b = t
  OBVIOUS
<1> QED BY AttemptBecomes DEF Inv

LEMMA NoteKeeps ==
  ASSUME Inv, NEW a, Noted(a), Note(a), UNCHANGED storeVars
  PROVE  /\ Unlooked'
         /\ wantedValid \cup wanted # {} \/ ~a.complete =>
              wantedValid' \cup wanted' # {}
<1>1. /\ wantedValid' = wantedValid \cup a.wantedValid
      /\ wanted' = wanted \cup a.wanted
      /\ validCache' = validCache /\ probeCache' = probeCache
  BY DEF Note, storeVars
<1> QED BY <1>1 DEF Inv, Unlooked, Noted

LEMMA FastStepKeeps ==
  ASSUME Inv, NEW j \in Job, ResolveFast(j) \/ PostponeFast(j)
  PROVE  Inv'
<1> DEFINE f == FastPath(j)
<1>1. /\ Trying(j) /\ Note(f) /\ jobs' = Tail(jobs)
      /\ UNCHANGED <<storeVars, unsent, pc, t>>
  BY DEF ResolveFast, PostponeFast
<1>2. /\ StoresTyped /\ ThreadTyped /\ pc = "pass" /\ t = NewAttempt
      /\ jobs # <<>> /\ jobs \in Seq(Job) /\ tried \in Seq(Job)
      /\ tried # <<>> => wantedValid \cup wanted # {}
  BY <1>1 DEF Inv, Trying, ThreadTyped
<1>3. Noted(f)
  BY <1>2, FastLooks DEF AttemptInv
<1>4. CachesGrow /\ StoresTyped' /\ AttemptInv(t)'
  BY <1>1, <1>2, CachesStay, AttemptLeft
<1>5. /\ Unlooked'
      /\ wantedValid \cup wanted # {} \/ ~f.complete =>
           wantedValid' \cup wanted' # {}
  BY <1>1, <1>3, NoteKeeps
<1>6. Tail(jobs) \in Seq(Job)
  BY <1>2, JobTaken
<1>7. CASE ResolveFast(j)
  <2> DEFINE r == FastResolution(j)
             paths == Range(outputs[j])
             missing == Missing(paths)
  <2>1. /\ Known(j, DOMAIN outputs[j]) /\ f.complete
        /\ AllSubstitutable(missing) /\ tried' = tried
        /\ result' = [result EXCEPT ![j] = r]
    BY <1>7 DEF ResolveFast
  <2>2. /\ \A p \in paths :
             p \in OutputPath /\ p # NoPath /\ validCache[p] # "unknown"
        /\ \A p \in missing : probeCache[p] = "yes"
    BY <1>2, <2>1, FastFinds DEF AllSubstitutable
  <2>3. /\ missing \subseteq paths
        /\ \A p \in paths : validCache[p] = "no" <=> p \in missing
        /\ \A p \in paths : validCache[p] = "yes" \/ validCache[p] = "no"
    BY <1>2, <2>2 DEF Missing, StoresTyped, Answer
  <2>4. /\ r \in ResultType /\ r.builds = <<>> /\ InOrder(r.builds)
        /\ r.status = IF missing = {} THEN "Local" ELSE "Cached"
    <3>1. missing \in SUBSET OutputPath /\ <<>> \in Seq(Drv) /\ InOrder(<<>>)
      BY <2>2, <2>3, NothingListed
    <3>2. r = [status |-> IF missing = {} THEN "Local" ELSE "Cached",
               builds |-> <<>>, unknown |-> <<>>, substitutes |-> missing]
      <4> DEFINE status == IF missing = {} THEN "Local" ELSE "Cached"
      <4>1. r = [NoResult EXCEPT !.status = status, !.substitutes = missing]
        BY Zenon DEF FastResolution
      <4> HIDE DEF status, missing, r
      <4>2. r = [status |-> status, builds |-> <<>>, unknown |-> <<>>,
                 substitutes |-> missing]
        BY <4>1 DEF NoResult
      <4> QED BY <4>2 DEF status
    <3> HIDE DEF missing, r
    <3> QED BY <3>1, <3>2 DEF ResultType, Status
  <2> HIDE DEF r, missing
  <2>5. ResultInv(j, r)
    BY <2>2, <2>3, <2>4 DEF ResultInv
  <2>6. (result \in [Job -> ResultType] /\ \A i \in Job : ResultInv(i, result[i]))'
    BY <1>4, <2>1, <2>5, ResultsKept
  <2> QED BY <1>1, <1>2, <1>4, <1>5, <1>6, <2>1, <2>6
          DEF Inv, ThreadTyped, PostponedIsLookedUp
<1>8. CASE PostponeFast(j)
  <2>1. /\ ~f.complete /\ tried' = Append(tried, j) /\ result' = result
    BY <1>8 DEF PostponeFast
  <2>2. (result \in [Job -> ResultType] /\ \A i \in Job : ResultInv(i, result[i]))'
    BY <1>4, <2>1, ResultsLeft
  <2>3. Append(tried, j) \in Seq(Job)
    BY <1>2, JobKept
  <2> QED BY <1>1, <1>2, <1>4, <1>5, <1>6, <2>1, <2>2, <2>3
          DEF Inv, ThreadTyped, PostponedIsLookedUp
<1> QED BY <1>7, <1>8

(* A step of the walk: nothing but the attempt changes. *)
LEMMA WalkKeeps ==
  ASSUME Inv, NEW b, AttemptInv(b), WalkInv(Head(jobs), b), t' = b,
         pc \in {"pass", "walk"}, pc' = "walk", jobs # <<>>,
         UNCHANGED <<storeVars, unsent, jobs, tried, wantedValid, wanted,
                     result>>
  PROVE  Inv'
<1>1. /\ StoresTyped /\ ThreadTyped /\ UNCHANGED storeVars
      /\ UNCHANGED <<unsent, jobs, tried, wantedValid, wanted, result>>
      /\ jobs \in Seq(Job) /\ Head(jobs) \in Job
  <2>1. StoresTyped /\ ThreadTyped /\ jobs \in Seq(Job)
    BY DEF Inv, ThreadTyped
  <2> QED BY <2>1, JobTaken DEF storeVars
<1>2. /\ CachesGrow /\ StoresTyped'
      /\ \A j \in Job : \A a : WalkInv(j, a) => WalkInv(j, a)'
  BY <1>1, CachesStay
<1>3. AttemptInv(t)'
  BY <1>1, AttemptBecomes
<1>4. WalkInv(Head(jobs), t)'
  <2> PICK j \in Job : j = Head(jobs)
    BY <1>1
  <2>1. WalkInv(j, b)'
    BY <1>2
  <2>2. Head(jobs)' = j
    BY <1>1
  <2> QED BY <2>1, <2>2 DEF WalkInv, Unobtainable, Listed, ToBuild, OnStack,
                            Depth
<1>5. (result \in [Job -> ResultType] /\ \A i \in Job : ResultInv(i, result[i]))'
  BY <1>1, <1>2, ResultsLeft
<1>6. Unlooked'
  BY <1>1 DEF Inv, Unlooked, storeVars
<1> QED BY <1>1, <1>2, <1>3, <1>4, <1>5, <1>6
        DEF Inv, ThreadTyped, PostponedIsLookedUp

LEMMA SlowPathKeeps ==
  ASSUME Inv, NEW j \in Job, SlowPath(j)
  PROVE  Inv'
<1> DEFINE b == VisitDrv(FastPath(j), j, {})
<1>1. /\ pc = "pass" /\ jobs # <<>> /\ j = Head(jobs) /\ NeedsWalk(j)
      /\ t' = b /\ pc' = "walk"
      /\ UNCHANGED <<storeVars, unsent, jobs, tried, wantedValid, wanted,
                     result>>
  BY DEF SlowPath, Trying, NeedsWalk
<1>2. AttemptInv(b) /\ WalkInv(j, b)
  BY <1>1, WalkBegins DEF Inv
<1> HIDE DEF b
<1> QED BY <1>1, <1>2, WalkKeeps

LEMMA VisitInputKeeps ==
  ASSUME Inv, NEW e \in Drv, VisitInput(e)
  PROVE  Inv'
<1> DEFINE b == VisitDrv(InputTaken(t, e), e,
                         inputs[t.stack[Len(t.stack)].drv][e])
<1>1. /\ pc = "walk" /\ pc' = "walk" /\ t.stack # <<>> /\ jobs # <<>>
      /\ e \in t.stack[Len(t.stack)].rest /\ t' = b
      /\ UNCHANGED <<storeVars, unsent, jobs, tried, wantedValid, wanted,
                     result>>
  <2>1. /\ pc = "walk" /\ t.stack # <<>> /\ pc' = pc
        /\ e \in t.stack[Len(t.stack)].rest /\ t' = b
        /\ UNCHANGED <<storeVars, unsent, jobs, tried, wantedValid, wanted,
                       result>>
    BY DEF VisitInput, Top, InputTaken
  <2> QED BY <2>1 DEF Inv
<1>2. StoresTyped /\ AttemptInv(t) /\ WalkInv(Head(jobs), t)
  BY <1>1 DEF Inv
<1>3. AttemptInv(b) /\ Listed(t) \subseteq Listed(b)
  BY <1>1, <1>2, RoundKeeps, RoundKeepsListed
<1> HIDE DEF b
<1>4. WalkInv(Head(jobs), b)
  BY <1>2, <1>3 DEF WalkInv
<1> QED BY <1>1, <1>3, <1>4, WalkKeeps

LEMMA LeaveDrvKeeps ==
  ASSUME Inv, LeaveDrv
  PROVE  Inv'
<1> DEFINE b == ReturnOf(t)
<1>1. /\ pc = "walk" /\ pc' = "walk" /\ t.stack # <<>> /\ jobs # <<>>
      /\ t.stack[Len(t.stack)].rest = {} /\ t' = b
      /\ UNCHANGED <<storeVars, unsent, jobs, tried, wantedValid, wanted,
                     result>>
  <2>1. /\ pc = "walk" /\ t.stack # <<>> /\ pc' = pc
        /\ t.stack[Len(t.stack)].rest = {} /\ t' = b
        /\ UNCHANGED <<storeVars, unsent, jobs, tried, wantedValid, wanted,
                       result>>
    BY DEF LeaveDrv, Top, ReturnOf
  <2> QED BY <2>1 DEF Inv
<1>2. StoresTyped /\ AttemptInv(t) /\ WalkInv(Head(jobs), t)
  BY <1>1 DEF Inv
<1>3. AttemptInv(b) /\ Listed(t) \subseteq Listed(b)
  BY <1>1, <1>2, ReturnKeeps, ReturnKeepsListed DEF AttemptInv
<1> HIDE DEF b
<1>4. WalkInv(Head(jobs), b)
  BY <1>2, <1>3 DEF WalkInv
<1> QED BY <1>1, <1>3, <1>4, WalkKeeps

LEMMA EndAttemptKeeps ==
  ASSUME Inv, EndAttempt
  PROVE  Inv'
<1> PICK j : j = Head(jobs)
  OBVIOUS
<1>1. /\ pc = "walk" /\ t.stack = <<>> /\ Note(t) /\ t' = NewAttempt
      /\ jobs' = Tail(jobs) /\ pc' = "pass" /\ UNCHANGED <<storeVars, unsent>>
      /\ UNCHANGED storeVars
  BY DEF EndAttempt
<1>2. /\ StoresTyped /\ ThreadTyped /\ AttemptInv(t) /\ WalkInv(j, t)
      /\ jobs # <<>> /\ jobs \in Seq(Job) /\ tried \in Seq(Job)
      /\ tried # <<>> => wantedValid \cup wanted # {}
  BY <1>1 DEF Inv, ThreadTyped
<1>3. Tail(jobs) \in Seq(Job) /\ j \in Job
  BY <1>2, JobTaken
<1>4. CachesGrow /\ StoresTyped'
  BY <1>1, <1>2, CachesStay
<1>5. AttemptInv(t)'
  <2> PICK b : b = NewAttempt
    OBVIOUS
  <2> QED BY <1>1, NewAttemptInv, AttemptBecomes
<1>6. /\ Unlooked'
      /\ wantedValid \cup wanted # {} \/ ~t.complete =>
           wantedValid' \cup wanted' # {}
  <2> PICK a : a = t
    OBVIOUS
  <2>1. Noted(a) /\ Note(a)
    BY <1>1, <1>2 DEF AttemptInv
  <2> QED BY <1>1, <2>1, NoteKeeps
<1>7. CASE t.complete
  <2> DEFINE r == [status |-> "NotBuilt", builds |-> t.builds,
                   unknown |-> t.unknown, substitutes |-> t.substitutes]
  <2>1. result' = [result EXCEPT ![j] = r] /\ tried' = tried
    BY <1>7 DEF EndAttempt
  <2>2. ResultInv(j, r)
    <3>1. t \in AttemptType /\ InOrder(t.builds)
      BY <1>2 DEF AttemptInv, BuildsInv
    <3>2. Unobtainable(j) /\ j \in Range(t.builds) \cup Range(t.unknown)
      BY <1>1, <1>2, NoStack DEF WalkInv, Listed
    <3>3. r \in ResultType
      BY <3>1 DEF ResultType, AttemptType, Status
    <3> QED BY <3>1, <3>2, <3>3 DEF ResultInv
  <2> HIDE DEF r
  <2>3. (result \in [Job -> ResultType] /\ \A i \in Job : ResultInv(i, result[i]))'
    BY <1>3, <1>4, <2>1, <2>2, ResultsKept
  <2> QED BY <1>1, <1>2, <1>3, <1>4, <1>5, <1>6, <2>1, <2>3
          DEF Inv, ThreadTyped, PostponedIsLookedUp
<1>8. CASE ~t.complete
  <2>1. tried' = Append(tried, j) /\ result' = result
    BY <1>8 DEF EndAttempt
  <2>2. Append(tried, j) \in Seq(Job)
    BY <1>2, <1>3, JobKept
  <2>3. (result \in [Job -> ResultType] /\ \A i \in Job : ResultInv(i, result[i]))'
    BY <1>4, <2>1, ResultsLeft
  <2> QED BY <1>1, <1>2, <1>3, <1>4, <1>5, <1>6, <1>8, <2>1, <2>2, <2>3
          DEF Inv, ThreadTyped, PostponedIsLookedUp
<1> QED BY <1>7, <1>8

LEMMA EndPassKeeps ==
  ASSUME Inv, EndPass
  PROVE  Inv'
<1>1. /\ pc = "pass" /\ jobs' = tried /\ tried' = <<>> /\ pc' = "late"
      /\ UNCHANGED <<storeVars, unsent, wantedValid, wanted, t, result>>
      /\ UNCHANGED storeVars
  BY DEF EndPass
<1>2. CachesGrow /\ StoresTyped' /\ AttemptInv(t)'
  BY <1>1, CachesStay, AttemptLeft DEF Inv
<1>3. (result \in [Job -> ResultType] /\ \A i \in Job : ResultInv(i, result[i]))'
  BY <1>1, <1>2, ResultsLeft
<1>4. Unlooked' /\ <<>> \in Seq(Job)
  BY <1>1 DEF Inv, Unlooked, storeVars
<1> QED BY <1>1, <1>2, <1>3, <1>4 DEF Inv, ThreadTyped, PostponedIsLookedUp

LEMMA TakeInboxKeeps ==
  ASSUME Inv, FirstJobs \/ LateJobs
  PROVE  Inv'
<1>1. PICK taken \in SUBSET unsent :
        \E order \in SetToSeqs(taken) : jobs' = jobs \o order
  BY DEF FirstJobs, LateJobs, TakeInbox
<1>2. /\ pc \in {"wait", "late"} /\ pc' \in {"pass", "valid"}
      /\ unsent' \subseteq unsent
      /\ UNCHANGED <<storeVars, tried, wantedValid, wanted, t, result>>
      /\ UNCHANGED storeVars
  BY DEF FirstJobs, LateJobs, TakeInbox
<1>3. PICK order \in SetToSeqs(taken) : jobs' = jobs \o order
  BY <1>1
<1>4. unsent \subseteq Job /\ jobs \in Seq(Job) /\ ThreadTyped
  BY DEF Inv, ThreadTyped
<1>5. jobs \o order \in Seq(Job)
  <2>1. Cardinality(taken) \in Nat
    <3>1. IsFiniteSet(taken)
      BY <1>4, Derivations, FS_Subset
    <3> QED BY <3>1, FS_CardinalityType
  <2>2. order \in [1 .. Cardinality(taken) -> taken]
    BY DEF SetToSeqs
  <2> DEFINE n == Cardinality(taken)
  <2> HIDE DEF n
  <2>3. order \in [1 .. n -> Job] /\ n \in Nat
    BY <1>4, <2>1, <2>2 DEF n
  <2>4. order \in Seq(Job)
    BY <2>3
  <2> QED BY <1>4, <2>4, ConcatProperties
<1>6. CachesGrow /\ StoresTyped' /\ AttemptInv(t)'
  BY <1>2, CachesStay, AttemptLeft DEF Inv
<1>7. (result \in [Job -> ResultType] /\ \A i \in Job : ResultInv(i, result[i]))'
  BY <1>2, <1>6, ResultsLeft
<1>8. Unlooked'
  BY <1>2 DEF Inv, Unlooked, storeVars
<1> QED BY <1>2, <1>3, <1>4, <1>5, <1>6, <1>7, <1>8
        DEF Inv, ThreadTyped, PostponedIsLookedUp

(* The walk has not begun: the caches may change. *)
LEMMA AttemptWaits ==
  ASSUME NEW b, AttemptInv(b), b = NewAttempt, inputs' = inputs, t' = b
  PROVE  AttemptInv(t)'
<1>1. b.wantedValid = {} /\ b.wanted = {} /\ b.complete
  BY DEF NewAttempt
<1>2. Noted(t)'
  BY <1>1 DEF Noted
<1>3. b \in AttemptType /\ StackBut(b, {}) /\ BuildsInv(b)
  BY DEF AttemptInv
<1>4. (t \in AttemptType)'
  BY <1>3 DEF AttemptType, Frame
<1>5. StackBut(t, {})'
  BY <1>3 DEF StackBut, Depth
<1>6. BuildsInv(t)'
  BY <1>3 DEF BuildsInv, InOrder, Settled, OnStack, Depth
<1> QED BY <1>2, <1>4, <1>5, <1>6 DEF AttemptInv

LEMMA ResolveGrows ==
  ASSUME Inv, ResolveValid \/ ResolveSubstitutable
  PROVE  /\ CachesGrow /\ StoresTyped' /\ Unlooked'
<1>1. /\ UNCHANGED <<outputs, inputs>> /\ StoresTyped /\ Unlooked
  BY DEF ResolveValid, ResolveSubstitutable, Inv
<1>2. \A C, W : \A A \in SUBSET W : C \in [OutputPath -> Answer] =>
        LET D == [p \in OutputPath |->
                    IF p \in W THEN IF p \in A THEN "yes" ELSE "no" ELSE C[p]]
        IN  /\ D \in [OutputPath -> Answer]
            /\ \A p \in OutputPath : p \notin W => D[p] = C[p]
  BY DEF Answer
<1>3. /\ validCache' \in [OutputPath -> Answer]
      /\ probeCache' \in [OutputPath -> Answer]
      /\ \A p \in OutputPath :
           /\ validCache[p] # "unknown" => validCache'[p] = validCache[p]
           /\ probeCache[p] # "unknown" => probeCache'[p] = probeCache[p]
      /\ \/ wantedValid' = {} /\ wanted' = wanted /\ probeCache' = probeCache
         \/ wanted' = {} /\ wantedValid' = wantedValid
            /\ validCache' = validCache
  <2>1. CASE ResolveValid
    <3>1. /\ wantedValid' = {} /\ wanted' = wanted /\ probeCache' = probeCache
          /\ \E valid \in SUBSET wantedValid :
               validCache' = [p \in OutputPath |->
                 IF p \in wantedValid THEN IF p \in valid THEN "yes" ELSE "no"
                                      ELSE validCache[p]]
      BY <2>1 DEF ResolveValid
    <3>2. /\ validCache' \in [OutputPath -> Answer]
          /\ \A p \in OutputPath :
               p \notin wantedValid => validCache'[p] = validCache[p]
      BY <1>1, <1>2, <3>1 DEF StoresTyped
    <3> QED BY <1>1, <3>1, <3>2 DEF StoresTyped, Unlooked
  <2>2. CASE ResolveSubstitutable
    <3>1. /\ wanted' = {} /\ wantedValid' = wantedValid
          /\ validCache' = validCache
          /\ \E infos \in SUBSET wanted :
               probeCache' = [p \in OutputPath |->
                 IF p \in wanted THEN IF p \in infos THEN "yes" ELSE "no"
                                 ELSE probeCache[p]]
      BY <2>2 DEF ResolveSubstitutable
    <3>2. /\ probeCache' \in [OutputPath -> Answer]
          /\ \A p \in OutputPath :
               p \notin wanted => probeCache'[p] = probeCache[p]
      BY <1>1, <1>2, <3>1 DEF StoresTyped
    <3> QED BY <1>1, <3>1, <3>2 DEF StoresTyped, Unlooked
  <2> QED BY <2>1, <2>2
<1>4. CachesGrow /\ StoresTyped'
  BY <1>1, <1>3 DEF CachesGrow, StoresTyped, Answer
<1>5. Unlooked'
  BY <1>1, <1>3 DEF Unlooked
<1> QED BY <1>4, <1>5

LEMMA ResolveKeeps ==
  ASSUME Inv, ResolveValid \/ ResolveSubstitutable
  PROVE  Inv'
<1>1. /\ pc \in {"valid", "substitutable"} /\ t' = t /\ t = NewAttempt
      /\ pc' \in {"substitutable", "wait", "pass"}
      /\ UNCHANGED <<outputs, inputs, unsent, jobs, tried, result>>
      /\ tried = <<>> /\ ThreadTyped
  BY DEF ResolveValid, ResolveSubstitutable, Inv
<1>4. CachesGrow /\ StoresTyped' /\ Unlooked'
  BY ResolveGrows
<1>5. AttemptInv(t)'
  <2> PICK b : b = t
    OBVIOUS
  <2>1. AttemptInv(b)
    BY DEF Inv
  <2> QED BY <1>1, <2>1, AttemptWaits
<1>6. (result \in [Job -> ResultType] /\ \A i \in Job : ResultInv(i, result[i]))'
  BY <1>1, <1>4, ResultsLeft
<1>7. (t = NewAttempt)'
  BY <1>1 DEF NewAttempt
<1> QED BY <1>1, <1>4, <1>5, <1>6, <1>7
        DEF Inv, ThreadTyped, PostponedIsLookedUp

LEMMA InvStutters == ASSUME Inv, UNCHANGED vars PROVE Inv'
<1>1. UNCHANGED storeVars
      /\ UNCHANGED <<unsent, pc, jobs, tried, wantedValid, wanted, t, result>>
  BY DEF vars
<1>2. CachesGrow /\ StoresTyped' /\ AttemptInv(t)'
  BY <1>1, CachesStay, AttemptLeft DEF Inv
<1>3. (result \in [Job -> ResultType] /\ \A i \in Job : ResultInv(i, result[i]))'
  BY <1>1, <1>2, ResultsLeft
<1>4. (pc = "walk" => jobs # <<>> /\ WalkInv(Head(jobs), t))'
  <2> SUFFICES ASSUME pc = "walk" PROVE jobs # <<>> /\ WalkInv(Head(jobs), t)'
    BY <1>1
  <2>1. jobs # <<>> /\ WalkInv(Head(jobs), t) /\ Head(jobs) \in Job
    BY JobTaken DEF Inv, ThreadTyped
  <2> PICK j \in Job : j = Head(jobs)
    BY <2>1
  <2> PICK b : b = t
    OBVIOUS
  <2>2. WalkInv(j, b)'
    BY <1>1, <2>1, CachesStay
  <2> QED BY <1>1, <2>1, <2>2 DEF WalkInv, Unobtainable, Listed, ToBuild,
                                  OnStack, Depth
<1>5. Unlooked' /\ ThreadTyped'
  BY <1>1 DEF Inv, Unlooked, ThreadTyped, storeVars
<1> QED BY <1>1, <1>2, <1>3, <1>4, <1>5 DEF Inv, PostponedIsLookedUp

LEMMA InvKept == Inv /\ [Next]_vars => Inv'
<1> SUFFICES ASSUME Inv, Next \/ UNCHANGED vars PROVE Inv'
  OBVIOUS
<1>1. \/ \E j \in Job : ResolveFast(j) \/ PostponeFast(j) \/ SlowPath(j)
      \/ \E e \in Drv : VisitInput(e)
      \/ LeaveDrv \/ EndAttempt \/ EndPass \/ FirstJobs \/ LateJobs
      \/ ResolveValid \/ ResolveSubstitutable \/ UNCHANGED vars
  BY DEF Next, Step, TryResolve
<1> QED BY <1>1, FastStepKeeps, SlowPathKeeps, VisitInputKeeps, LeaveDrvKeeps,
           EndAttemptKeeps, EndPassKeeps, TakeInboxKeeps, ResolveKeeps,
           InvStutters

THEOREM Invariant == Spec => []Inv
  BY InvStarts, InvKept, PTL DEF Spec

-----------------------------------------------------------------------------
(* TypeOK: types; the stores are asked for nothing that is known already,  *)
(* and substituters for nothing that the local store has.                  *)
THEOREM StoresAskedOnce == Spec => []TypeOK
<1>1. Inv => TypeOK
  <2> SUFFICES ASSUME Inv PROVE TypeOK
    OBVIOUS
  <2>1. Noted(t)
    BY DEF Inv, AttemptInv
  <2>2. /\ wantedValid \cup t.wantedValid
             \subseteq {p \in OutputPath : validCache[p] = "unknown"}
        /\ wanted \cup t.wanted
             \subseteq {p \in OutputPath : /\ validCache[p] = "no"
                                          /\ probeCache[p] = "unknown"}
    BY <2>1 DEF Inv, Unlooked, Noted
  <2> QED BY <2>2 DEF Inv, StoresTyped, ThreadTyped, ResultType, TypeOK
<1> QED BY <1>1, Invariant, PTL

(* StatusSound: a job is reported as local, cached or to be built as the   *)
(* stores have answered, and then stays so whatever else they answer.      *)
THEOREM StatusIsSound == Spec => []StatusSound
<1>1. Inv => StatusSound
  <2> SUFFICES ASSUME Inv, NEW j \in Job
      PROVE  LET paths == Range(outputs[j])
                 has(p) == p # NoPath /\ validCache[p] = "yes"
                 obtainable(p) == has(p) \/ (p # NoPath /\ probeCache[p] = "yes")
                 status == result[j].status
             IN  /\ status = "Local" => \A p \in paths : has(p)
                 /\ status = "Cached" => /\ \A p \in paths : obtainable(p)
                                         /\ \E p \in paths : ~has(p)
                 /\ status = "NotBuilt" =>
                      /\ \E p \in paths : ~obtainable(p)
                      /\ j \in Range(result[j].builds)
                                 \cup Range(result[j].unknown)
    BY DEF StatusSound
  <2>1. ResultInv(j, result[j])
    BY DEF Inv
  <2> QED BY <2>1 DEF ResultInv, Unobtainable
<1> QED BY <1>1, Invariant, PTL

(* BuildsOrdered: the builds of a result name dependencies before their    *)
(* dependants.                                                             *)
THEOREM DependenciesComeFirst == Spec => []BuildsOrdered
<1>1. Inv => BuildsOrdered
  BY DEF Inv, ResultInv, InOrder, BuildsOrdered
<1> QED BY <1>1, Invariant, PTL

(* PostponedIsLookedUp: no job is postponed without a path to look up, so  *)
(* the passes of run() over what is left come to an end.                   *)
THEOREM PassesLearn == Spec => []PostponedIsLookedUp
<1>1. Inv => PostponedIsLookedUp
  BY DEF Inv
<1> QED BY <1>1, Invariant, PTL

-----------------------------------------------------------------------------
(* The breakdown is complete if all who want outputs of a derivation want  *)
(* the same ones: `visited` does not tell who wanted what.                 *)

EdgesAgree ==
  \A e \in Drv : \A c, d \in Drv :
    e \in DOMAIN inputs[c] /\ e \in DOMAIN inputs[d] =>
      WantedNames(e, inputs[c][e]) = WantedNames(e, inputs[d][e])

(* What is wanted of e by an attempt to resolve j. *)
NamesOf(j, e) ==
  IF e = j THEN DOMAIN outputs[j]
  ELSE UNION {WantedNames(e, inputs[d][e]) :
                d \in {d \in Drv : e \in DOMAIN inputs[d]}}

WantOf(j, d) == [drv |-> d, names |-> NamesOf(j, d)]

Lookup(j, d)    == PathsOf(d, NamesOf(j, d))
MissingOf(j, d) == Missing(Lookup(j, d))
IsKnown(j, d)   == Known(d, NamesOf(j, d))
Builds(j, d) ==
  IsKnown(j, d) /\ \E p \in MissingOf(j, d) : probeCache[p] # "yes"
Fetches(j, d) == IsKnown(j, d) /\ ~Builds(j, d)

(* All that decides what becomes of d is in the caches. *)
Decided(j, d) ==
  IsKnown(j, d) => /\ Pending(validCache, Lookup(j, d)) = {}
                   /\ Pending(probeCache, MissingOf(j, d)) = {}

(* Why a derivation is visited. *)
Needed(j, visited, d) ==
  d = j \/ \E e \in visited : Builds(j, e) /\ d \in DOMAIN inputs[e]

(* The lists of an attempt to resolve j, as what it has visited demands.   *)
Covers(j, a) ==
  /\ \A d \in a.visited : d = j \/ j < d
  /\ Range(a.unknown) = {d \in a.visited : ~IsKnown(j, d)}
  /\ a.complete =>
       /\ \A i \in Depth(a) : a.stack[i].last
       /\ \A d \in a.visited : Decided(j, d) /\ Needed(j, a.visited, d)
       /\ Range(a.builds) \cup ToBuild(a) = {d \in a.visited : Builds(j, d)}
       /\ a.substitutes =
            UNION {MissingOf(j, d) : d \in {d \in a.visited : Fetches(j, d)}}

LEMMA EdgesWant ==
  ASSUME StoresTyped, EdgesAgree, NEW d \in Drv, NEW e \in DOMAIN inputs[d],
         NEW j, e # j
  PROVE  WantedNames(e, inputs[d][e]) = NamesOf(j, e)
<1>1. e \in Drv
  BY InputsAreGreater DEF StoresTyped
<1>2. \A c \in {c \in Drv : e \in DOMAIN inputs[c]} :
        WantedNames(e, inputs[c][e]) = WantedNames(e, inputs[d][e])
  BY <1>1 DEF EdgesAgree
<1> QED BY <1>2 DEF NamesOf

LEMMA NamesAreOutputs ==
  ASSUME StoresTyped, NEW j \in Drv, NEW e \in Drv
  PROVE  NamesOf(j, e) \subseteq DOMAIN outputs[e]
<1>1. ASSUME NEW d \in Drv, e \in DOMAIN inputs[d]
      PROVE  WantedNames(e, inputs[d][e]) \subseteq DOMAIN outputs[e]
  BY <1>1, InputsAreGreater, WantedAreNames DEF StoresTyped
<1> QED BY <1>1 DEF NamesOf

(* A new visit covers, in the terms of the lists. *)
LEMMA CoverGrows ==
  ASSUME NEW j, NEW a, Covers(j, a), NEW b, NEW d,
         b.visited = a.visited \cup {d}, d = j \/ j < d,
         Range(b.unknown) = Range(a.unknown) \cup {x \in {d} : ~IsKnown(j, x)},
         b.complete =>
           /\ a.complete /\ Decided(j, d) /\ Needed(j, a.visited, d)
           /\ \A i \in Depth(b) : b.stack[i].last
           /\ Range(b.builds) \cup ToBuild(b) =
                Range(a.builds) \cup ToBuild(a) \cup {x \in {d} : Builds(j, x)}
           /\ b.substitutes =
                a.substitutes
                  \cup UNION {MissingOf(j, x) : x \in {x \in {d} : Fetches(j, x)}}
  PROVE  Covers(j, b)
<1>1. \A x \in b.visited : x = j \/ j < x
  BY DEF Covers
<1>2. Range(b.unknown) = {x \in b.visited : ~IsKnown(j, x)}
  BY DEF Covers
<1>3. ASSUME b.complete
      PROVE  /\ \A x \in b.visited : Decided(j, x) /\ Needed(j, b.visited, x)
             /\ Range(b.builds) \cup ToBuild(b) =
                  {x \in b.visited : Builds(j, x)}
             /\ b.substitutes =
                  UNION {MissingOf(j, x) :
                           x \in {x \in b.visited : Fetches(j, x)}}
  <2>1. \A x \in b.visited : Decided(j, x) /\ Needed(j, b.visited, x)
    BY <1>3 DEF Covers, Needed
  <2>2. Range(b.builds) \cup ToBuild(b) = {x \in b.visited : Builds(j, x)}
    BY <1>3 DEF Covers
  <2>3. b.substitutes =
          UNION {MissingOf(j, x) : x \in {x \in b.visited : Fetches(j, x)}}
    BY <1>3 DEF Covers
  <2> QED BY <2>1, <2>2, <2>3
<1> QED BY <1>1, <1>2, <1>3 DEF Covers

LEMMA VisitCovers ==
  ASSUME StoresTyped, NEW j \in Drv, NEW a \in AttemptType, Covers(j, a),
         NEW d \in Drv, d = j \/ j < d,
         a.complete => Needed(j, a.visited, d),
         NEW b, VisitsNew(a, b, d, NamesOf(j, d))
  PROVE  Covers(j, b)
<1> DEFINE outs == NamesOf(j, d)
<1>1. /\ b \in AttemptType /\ b.visited = a.visited \cup {d}
      /\ b.builds = a.builds
      /\ a.unknown \in Seq(Drv) /\ a.complete \in BOOLEAN
  BY VisitLists DEF AttemptType
<1>2. ASSUME b.stack = a.stack
      PROVE  /\ ToBuild(b) = ToBuild(a) /\ Depth(b) = Depth(a)
             /\ \A i \in Depth(b) : b.stack[i] = a.stack[i]
  BY <1>2 DEF ToBuild, OnStack, Depth
<1>3. CASE FindsUnknown(a, b, d, outs)
  <2>1. /\ ~IsKnown(j, d) /\ b.unknown = Append(a.unknown, d)
        /\ b.substitutes = a.substitutes /\ b.stack = a.stack
        /\ b.complete => a.complete
    BY <1>3 DEF FindsUnknown, IsKnown
  <2>2. Range(b.unknown) = Range(a.unknown) \cup {x \in {d} : ~IsKnown(j, x)}
    <3>1. Range(Append(a.unknown, d)) = Range(a.unknown) \cup {d}
      BY <1>1, ListAppend
    <3> QED BY <2>1, <3>1
  <2>3. {x \in {d} : Builds(j, x)} = {} /\ {x \in {d} : Fetches(j, x)} = {}
        /\ Decided(j, d)
    BY <2>1 DEF Builds, Fetches, Decided
  <2>4. b.complete => \A i \in Depth(b) : b.stack[i].last
    BY <1>2, <2>1 DEF Covers
  <2>5. b.substitutes = a.substitutes
          \cup UNION {MissingOf(j, x) : x \in {x \in {d} : Fetches(j, x)}}
    BY <2>1, <2>3
  <2>6. Range(b.builds) \cup ToBuild(b) =
          Range(a.builds) \cup ToBuild(a) \cup {x \in {d} : Builds(j, x)}
    BY <1>1, <1>2, <2>1, <2>3
  <2>7. b.complete => a.complete /\ Decided(j, d) /\ Needed(j, a.visited, d)
    BY <2>1, <2>3
  <2> QED BY <1>1, <2>2, <2>4, <2>5, <2>6, <2>7, CoverGrows
<1>4. CASE FindsPending(a, b, d, outs)
  <2>1. IsKnown(j, d) /\ ~b.complete /\ b.unknown = a.unknown
    BY <1>4 DEF FindsPending, IsKnown
  <2>2. Range(b.unknown) = Range(a.unknown) \cup {x \in {d} : ~IsKnown(j, x)}
    BY <2>1
  <2> QED BY <1>1, <2>1, <2>2, CoverGrows
<1>5. CASE FindsValidity(a, b, d, outs)
  <2> DEFINE missing == MissingOf(j, d)
             p == Pending(probeCache, missing)
  <2>1. /\ IsKnown(j, d) /\ b.unknown = a.unknown
        /\ Pending(validCache, Lookup(j, d)) = {}
        /\ \/ p # {} /\ ~b.complete
           \/ /\ p = {} /\ AllSubstitutable(missing)
              /\ b.complete = a.complete
              /\ b.substitutes = a.substitutes \cup missing
              /\ b.stack = a.stack
           \/ /\ p = {} /\ ~AllSubstitutable(missing)
              /\ b.complete = a.complete
              /\ b.substitutes = a.substitutes
              /\ Pushes(a, b, d, TRUE)
    BY <1>5 DEF FindsValidity, IsKnown, MissingOf, Lookup
  <2>2. Range(b.unknown) = Range(a.unknown) \cup {x \in {d} : ~IsKnown(j, x)}
    BY <2>1
  <2>3. AllSubstitutable(missing) <=> ~Builds(j, d)
    BY <2>1 DEF AllSubstitutable, Builds
  <2> HIDE DEF missing, p
  <2>4. CASE ~b.complete
    BY <1>1, <2>2, <2>4, CoverGrows
  <2>5. ASSUME b.complete, ~Builds(j, d) PROVE Covers(j, b)
    <3>1. /\ a.complete /\ b.substitutes = a.substitutes \cup missing
          /\ b.stack = a.stack /\ p = {}
      BY <2>1, <2>3, <2>5
    <3>2. {x \in {d} : Builds(j, x)} = {} /\ {x \in {d} : Fetches(j, x)} = {d}
          /\ Decided(j, d)
      BY <2>1, <2>5, <3>1 DEF Fetches, Decided, missing, p
    <3>3. \A i \in Depth(b) : b.stack[i].last
      BY <1>2, <3>1 DEF Covers
    <3>4. b.substitutes = a.substitutes
            \cup UNION {MissingOf(j, x) : x \in {x \in {d} : Fetches(j, x)}}
      BY <3>1, <3>2 DEF missing
    <3>5. Range(b.builds) \cup ToBuild(b) =
            Range(a.builds) \cup ToBuild(a) \cup {x \in {d} : Builds(j, x)}
      BY <1>1, <1>2, <3>1, <3>2
    <3> QED BY <1>1, <2>2, <3>1, <3>2, <3>3, <3>4, <3>5, CoverGrows
  <2>6. ASSUME b.complete, Builds(j, d) PROVE Covers(j, b)
    <3> DEFINE last == TRUE
    <3>1. /\ a.complete /\ b.substitutes = a.substitutes
          /\ Pushes(a, b, d, last) /\ last \in BOOLEAN /\ p = {}
      BY <2>1, <2>3, <2>6
    <3>6. last
      OBVIOUS
    <3>2. {x \in {d} : Builds(j, x)} = {d} /\ {x \in {d} : Fetches(j, x)} = {}
          /\ Decided(j, d)
      BY <2>1, <2>6, <3>1 DEF Fetches, Decided, missing, p
    <3>0. Call(d, last).last = last
      BY DEF Call
    <3> HIDE DEF last
    <3>3. \A i \in Depth(b) : b.stack[i].last
      <4>1. /\ Depth(b) = Depth(a) \cup {Len(a.stack) + 1}
            /\ \A i \in Depth(a) : b.stack[i] = a.stack[i]
            /\ b.stack[Len(a.stack) + 1] = Call(d, last)
        BY <1>1, <3>1, Pushed
      <4> QED BY <3>0, <3>1, <3>6, <4>1 DEF Covers
    <3>4. b.substitutes = a.substitutes
            \cup UNION {MissingOf(j, x) : x \in {x \in {d} : Fetches(j, x)}}
      BY <3>1, <3>2
    <3>5. Range(b.builds) \cup ToBuild(b) =
            Range(a.builds) \cup ToBuild(a) \cup {x \in {d} : Builds(j, x)}
      <4>1. ToBuild(b) = ToBuild(a) \cup {x \in {d} : last}
        BY <1>1, <3>1, Pushed
      <4>2. {x \in {d} : last} = {x \in {d} : Builds(j, x)}
        BY <3>2, <3>6
      <4> QED BY <1>1, <4>1, <4>2
    <3> QED BY <1>1, <2>2, <3>1, <3>2, <3>3, <3>4, <3>5, CoverGrows
  <2> QED BY <2>4, <2>5, <2>6
<1> QED BY <1>3, <1>4, <1>5 DEF VisitsNew

LEMMA BeginCovers ==
  ASSUME StoresTyped, NEW j \in Job
  PROVE  LET b == VisitDrv(FastPath(j), j, {})
         IN  j \in b.visited /\ Covers(j, b)
<1> DEFINE a == FastPath(j)
           b == VisitDrv(a, j, {})
<1>1. /\ a \in AttemptType /\ a.visited = {} /\ a.stack = <<>>
      /\ a.builds = <<>> /\ a.unknown = <<>> /\ a.substitutes = {}
  BY FastLooks DEF AttemptInv
<1>2. /\ j \in Drv /\ WantedNames(j, {}) = NamesOf(j, j)
  BY Derivations, AllNames DEF StoresTyped, NamesOf
<1>3. VisitsNew(a, b, j, NamesOf(j, j))
  <2>1. {} \subseteq DOMAIN outputs[j] /\ j \notin a.visited
    BY <1>1
  <2> HIDE DEF a
  <2>2. VisitsNew(a, VisitDrv(a, j, {}), j, WantedNames(j, {}))
    BY <1>1, <1>2, <2>1, VisitDoes
  <2> QED BY <1>2, <2>2
<1> HIDE DEF a, b
<1>4. Covers(j, a)
  <2>1. /\ Depth(a) = {} /\ ToBuild(a) = {}
        /\ Range(a.builds) = {} /\ Range(a.unknown) = {}
    BY <1>1, NoStack, NothingListed
  <2> QED BY <1>1, <2>1 DEF Covers
<1>5. Covers(j, b)
  <2>1. Needed(j, a.visited, j)
    BY DEF Needed
  <2> QED BY <1>1, <1>2, <1>3, <1>4, <2>1, VisitCovers
<1>6. j \in b.visited
  BY <1>3 DEF VisitsNew
<1> QED BY <1>5, <1>6 DEF a, b

LEMMA RoundCovers ==
  ASSUME StoresTyped, EdgesAgree, NEW j \in Drv, NEW a, AttemptInv(a),
         Covers(j, a), a.stack # <<>>,
         NEW e, e \in a.stack[Len(a.stack)].rest
  PROVE  LET c == VisitDrv(InputTaken(a, e), e,
                           inputs[a.stack[Len(a.stack)].drv][e])
         IN  Covers(j, c) /\ a.visited \subseteq c.visited
<1> DEFINE b == InputTaken(a, e)
           n == Len(a.stack)
           d == a.stack[n].drv
           names == inputs[d][e]
           c == VisitDrv(b, e, names)
<1>1. a \in AttemptType /\ StackBut(a, {}) /\ n \in Depth(a)
  <2>1. a \in AttemptType /\ StackBut(a, {}) /\ a.stack \in Seq(Frame)
    BY DEF AttemptInv, AttemptType
  <2> QED BY <2>1, EmptySeq DEF Depth
<1>0. Taken(a, b, d, e)
  BY <1>1, TakingDoes
<1>2. /\ b \in AttemptType /\ e \in Drv /\ d \in Drv /\ d \in a.visited
      /\ e \in DOMAIN inputs[d] /\ names \subseteq DOMAIN outputs[e]
  <2> HIDE DEF b, d
  <2> QED BY <1>0 DEF Taken
<1>3. b.visited = a.visited /\ Covers(j, b)
      /\ (a.stack[n].last => d \in ToBuild(b)) /\ b.complete = a.complete
  <2> HIDE DEF b, d
  <2> QED BY <1>0 DEF Taken, Covers
<1>4. j < e /\ e # j
  <2>1. d < e /\ d \in Nat /\ e \in Nat /\ j \in Nat
    BY <1>2, InputsAreGreater, Derivations DEF StoresTyped
  <2>2. d = j \/ j < d
    BY <1>2 DEF Covers
  <2> HIDE DEF d
  <2> QED BY <2>1, <2>2
<1>5. WantedNames(e, names) = NamesOf(j, e)
  BY <1>2, <1>4, EdgesWant
<1>6. ASSUME b.complete PROVE Needed(j, b.visited, e)
  <2>1. d \in ToBuild(b)
    BY <1>1, <1>3, <1>6 DEF Covers
  <2>2. Builds(j, d)
    BY <1>3, <1>6, <2>1 DEF Covers
  <2> QED BY <1>2, <1>3, <2>2 DEF Needed
<1> HIDE DEF b, names, d
<1>7. CASE e \in b.visited
  <2>1. c = b
    BY <1>7 DEF VisitDrv
  <2> QED BY <1>3, <2>1 DEF b, names, d
<1>8. CASE e \notin b.visited
  <2>1. VisitsNew(b, c, e, NamesOf(j, e))
    BY <1>2, <1>5, <1>8, VisitDoes
  <2> HIDE DEF c
  <2>2. Covers(j, c)
    BY <1>2, <1>3, <1>4, <1>6, <2>1, VisitCovers
  <2>3. c.visited = b.visited \cup {e}
    BY <2>1 DEF VisitsNew
  <2> QED BY <1>3, <2>2, <2>3 DEF b, c, names, d
<1> QED BY <1>7, <1>8

LEMMA ReturnCovers ==
  ASSUME NEW j, NEW a, AttemptInv(a), Covers(j, a), a.stack # <<>>,
         a.stack[Len(a.stack)].rest = {}
  PROVE  Covers(j, ReturnOf(a)) /\ ReturnOf(a).visited = a.visited
<1> DEFINE b == ReturnOf(a)
<1>0. a \in AttemptType /\ StackBut(a, {})
  BY DEF AttemptInv
<1>1. PICK d \in Drv :
           /\ b.visited = a.visited /\ b.unknown = a.unknown
           /\ b.substitutes = a.substitutes /\ b.complete = a.complete
           /\ \/ b.builds = a.builds /\ ToBuild(b) = ToBuild(a)
              \/ /\ b.builds = Append(a.builds, d)
                 /\ ToBuild(a) = ToBuild(b) \cup {d}
           /\ Depth(b) \subseteq Depth(a)
           /\ \A i \in Depth(b) : b.stack[i] = a.stack[i]
  BY <1>0, ReturnLists
<1> HIDE DEF b
<1>2. Range(b.builds) \cup ToBuild(b) = Range(a.builds) \cup ToBuild(a)
  <2>1. Range(Append(a.builds, d)) = Range(a.builds) \cup {d}
    BY <1>0, ListAppend DEF AttemptType
  <2> QED BY <1>1, <2>1
<1>3. Covers(j, b)
  BY <1>1, <1>2 DEF Covers
<1> QED BY <1>1, <1>3 DEF b

(* What the lists of a result say, of some set of derivations: it is what  *)
(* can be reached from the job through derivations that must be built.     *)
BreakdownOf(j, r, V) ==
  /\ j \in V /\ V \subseteq Drv /\ \A d \in V : d = j \/ j < d
  /\ \A d \in V : Decided(j, d) /\ Needed(j, V, d)
  /\ \A d \in V : Builds(j, d) => DOMAIN inputs[d] \subseteq V
  /\ Range(r.unknown) = {d \in V : ~IsKnown(j, d)}
  /\ Range(r.builds) = {d \in V : Builds(j, d)}
  /\ r.substitutes = UNION {MissingOf(j, d) : d \in {d \in V : Fetches(j, d)}}
  /\ IsInjective(r.builds) /\ IsInjective(r.unknown)

LEMMA EndCovers ==
  ASSUME NEW j, NEW a, AttemptInv(a), Covers(j, a), j \in a.visited,
         a.stack = <<>>, a.complete, NEW r, r.builds = a.builds,
         r.unknown = a.unknown, r.substitutes = a.substitutes
  PROVE  BreakdownOf(j, r, a.visited)
<1>1. a.visited \subseteq Drv /\ BuildsInv(a)
  BY DEF AttemptInv, AttemptType
<1>2. ToBuild(a) = {}
  BY NoStack
<1>3. Range(a.builds) = {d \in a.visited : Builds(j, d)}
  BY <1>2 DEF Covers
<1>4. \A d \in a.visited : Builds(j, d) => DOMAIN inputs[d] \subseteq a.visited
  BY <1>1, <1>3 DEF BuildsInv, Settled
<1> QED BY <1>1, <1>3, <1>4 DEF Covers, BreakdownOf, BuildsInv

(* A breakdown stands when the caches grow: all it rests on is known.      *)
LEMMA DecisionStands ==
  ASSUME StoresTyped, CachesGrow, NEW j \in Drv, NEW d \in Drv, Decided(j, d)
  PROVE  /\ IsKnown(j, d)' <=> IsKnown(j, d)
         /\ IsKnown(j, d) => MissingOf(j, d)' = MissingOf(j, d)
         /\ Builds(j, d)' <=> Builds(j, d)
         /\ Fetches(j, d)' <=> Fetches(j, d)
         /\ Decided(j, d)'
<1>1. NamesOf(j, d)' = NamesOf(j, d)
  BY DEF NamesOf, WantedNames, CachesGrow
<1>2. /\ IsKnown(j, d)' <=> IsKnown(j, d)
      /\ Lookup(j, d)' = Lookup(j, d)
  BY <1>1 DEF IsKnown, Known, Lookup, PathsOf, CachesGrow
<1>3. CASE ~IsKnown(j, d)
  BY <1>2, <1>3 DEF Builds, Fetches, Decided
<1>4. CASE IsKnown(j, d)
  <2>1. /\ \A p \in Lookup(j, d) : p \in OutputPath /\ validCache[p] # "unknown"
        /\ \A p \in MissingOf(j, d) : probeCache[p] # "unknown"
    <3>1. Lookup(j, d) \subseteq OutputPath
      BY <1>4, NamesAreOutputs, LookedAt DEF StoresTyped, Lookup, IsKnown
    <3> QED BY <1>4, <3>1 DEF Decided, Pending
  <2>2. MissingOf(j, d) \subseteq Lookup(j, d)
    BY DEF MissingOf, Missing
  <2>3. \A p \in Lookup(j, d) : validCache'[p] = validCache[p]
    BY <2>1 DEF CachesGrow
  <2>4. MissingOf(j, d)' = MissingOf(j, d)
    BY <1>2, <2>3 DEF MissingOf, Missing
  <2>5. \A p \in MissingOf(j, d) : probeCache'[p] = probeCache[p]
    BY <2>1, <2>2 DEF CachesGrow
  <2>6. Builds(j, d)' <=> Builds(j, d)
    BY <1>2, <2>4, <2>5 DEF Builds
  <2>7. Decided(j, d)'
    <3>1. Pending(validCache, Lookup(j, d))' = {}
      BY <1>2, <2>1, <2>3 DEF Pending
    <3>2. Pending(probeCache, MissingOf(j, d))' = {}
      BY <2>1, <2>4, <2>5 DEF Pending
    <3> QED BY <3>1, <3>2 DEF Decided
  <2> QED BY <1>2, <2>4, <2>6, <2>7 DEF Fetches
<1> QED BY <1>3, <1>4

LEMMA BreakdownStands ==
  ASSUME StoresTyped, CachesGrow, NEW j \in Drv, NEW r, NEW V,
         BreakdownOf(j, r, V)
  PROVE  BreakdownOf(j, r, V)'
<1>1. /\ j \in V /\ V \subseteq Drv /\ \A d \in V : d = j \/ j < d
      /\ \A d \in V : Decided(j, d) /\ Needed(j, V, d)
      /\ \A d \in V : Builds(j, d) => DOMAIN inputs[d] \subseteq V
      /\ Range(r.unknown) = {d \in V : ~IsKnown(j, d)}
      /\ Range(r.builds) = {d \in V : Builds(j, d)}
      /\ r.substitutes =
           UNION {MissingOf(j, d) : d \in {d \in V : Fetches(j, d)}}
      /\ IsInjective(r.builds) /\ IsInjective(r.unknown)
  BY DEF BreakdownOf
<1>2. \A d \in V : /\ IsKnown(j, d)' <=> IsKnown(j, d)
                   /\ IsKnown(j, d) => MissingOf(j, d)' = MissingOf(j, d)
                   /\ Builds(j, d)' <=> Builds(j, d)
                   /\ Fetches(j, d)' <=> Fetches(j, d)
                   /\ Decided(j, d)'
  BY <1>1, DecisionStands
<1>3. inputs' = inputs
  BY DEF CachesGrow
<1>4. \A d \in V : Needed(j, V, d)'
  BY <1>1, <1>2, <1>3 DEF Needed
<1>5. {d \in V : IsKnown(j, d)'} = {d \in V : IsKnown(j, d)}
  BY <1>2
<1>6. /\ {d \in V : ~IsKnown(j, d)}' = {d \in V : ~IsKnown(j, d)}
      /\ {d \in V : Builds(j, d)}' = {d \in V : Builds(j, d)}
      /\ {d \in V : Fetches(j, d)}' = {d \in V : Fetches(j, d)}
  BY <1>2
<1>7. (UNION {MissingOf(j, d) : d \in {d \in V : Fetches(j, d)}})'
        = UNION {MissingOf(j, d) : d \in {d \in V : Fetches(j, d)}}
  <2>1. \A d \in {d \in V : Fetches(j, d)} :
          MissingOf(j, d)' = MissingOf(j, d)
    BY <1>2 DEF Fetches
  <2> QED BY <1>6, <2>1
<1>8. (\A d \in V : Builds(j, d) => DOMAIN inputs[d] \subseteq V)'
  BY <1>1, <1>2, <1>3
<1> QED BY <1>1, <1>2, <1>4, <1>6, <1>7, <1>8 DEF BreakdownOf

(* The invariant of the breakdowns.                                        *)
HasBreakdown(j, r) ==
  r.status = "NotBuilt" => \E V \in SUBSET Drv : BreakdownOf(j, r, V)

WalkCovers(j, a) == j \in a.visited /\ Covers(j, a)

Coverage ==
  /\ EdgesAgree
  /\ pc = "walk" => WalkCovers(Head(jobs), t)
  /\ \A j \in Job : HasBreakdown(j, result[j])

LEMMA HasBreakdownStill ==
  ASSUME Inv, CachesGrow, NEW j \in Job, NEW r, HasBreakdown(j, r)
  PROVE  HasBreakdown(j, r)'
<1> SUFFICES ASSUME r.status = "NotBuilt"
             PROVE  \E V \in SUBSET Drv : BreakdownOf(j, r, V)'
  BY DEF HasBreakdown
<1>1. PICK V \in SUBSET Drv : BreakdownOf(j, r, V)
  BY DEF HasBreakdown
<1>2. BreakdownOf(j, r, V)'
  BY <1>1, Derivations, BreakdownStands DEF Inv
<1> QED BY <1>2

LEMMA BreakdownsLeft ==
  ASSUME Inv, Coverage, CachesGrow, UNCHANGED result
  PROVE  EdgesAgree' /\ (\A j \in Job : HasBreakdown(j, result[j]))'
<1>1. EdgesAgree'
  BY DEF Coverage, EdgesAgree, WantedNames, CachesGrow
<1>2. ASSUME NEW j \in Job PROVE HasBreakdown(j, result[j])'
  <2> PICK r : r = result[j]
    OBVIOUS
  <2>1. HasBreakdown(j, r)'
    BY HasBreakdownStill DEF Coverage
  <2>2. result'[j] = r
    OBVIOUS
  <2> QED BY <2>1, <2>2 DEF HasBreakdown, BreakdownOf
<1> QED BY <1>1, <1>2

LEMMA BreakdownsKept ==
  ASSUME Inv, Coverage, CachesGrow, NEW i \in Job, NEW r, HasBreakdown(i, r),
         result' = [result EXCEPT ![i] = r]
  PROVE  EdgesAgree' /\ (\A j \in Job : HasBreakdown(j, result[j]))'
<1>1. EdgesAgree'
  BY DEF Coverage, EdgesAgree, WantedNames, CachesGrow
<1>2. ASSUME NEW j \in Job PROVE HasBreakdown(j, result[j])'
  <2> PICK q : q = result'[j]
    OBVIOUS
  <2>1. HasBreakdown(j, q)
    BY DEF Coverage, Inv
  <2>2. HasBreakdown(j, q)'
    BY <2>1, HasBreakdownStill
  <2> QED BY <2>2 DEF HasBreakdown, BreakdownOf
<1> QED BY <1>1, <1>2

LEMMA CoverageStarts == Init /\ EdgesAgree => Coverage
<1> SUFFICES ASSUME Init, EdgesAgree PROVE Coverage
  OBVIOUS
<1>1. \A j \in Job : result[j].status # "NotBuilt"
  BY DEF Init, NoResult
<1> QED BY <1>1 DEF Init, Coverage, HasBreakdown

LEMMA WalkStepCovers ==
  ASSUME Inv, Coverage, NEW b, WalkCovers(Head(jobs), b), t' = b,
         UNCHANGED <<storeVars, jobs, result>>
  PROVE  Coverage'
<1>1. UNCHANGED storeVars /\ UNCHANGED <<jobs, result>> /\ CachesGrow
  BY CachesStay
<1>2. EdgesAgree' /\ (\A j \in Job : HasBreakdown(j, result[j]))'
  BY <1>1, BreakdownsLeft
<1>3. WalkCovers(Head(jobs), t)'
  <2> PICK j : j = Head(jobs)
    OBVIOUS
  <2>0. /\ jobs' = jobs /\ inputs' = inputs /\ outputs' = outputs
        /\ validCache' = validCache /\ probeCache' = probeCache
        /\ WalkCovers(j, b)
    BY <1>1 DEF storeVars
  <2>1. \A d : NamesOf(Head(jobs), d)' = NamesOf(j, d)
    BY <2>0 DEF NamesOf, WantedNames
  <2>2. \A d : /\ IsKnown(Head(jobs), d)' <=> IsKnown(j, d)
               /\ Lookup(Head(jobs), d)' = Lookup(j, d)
    BY <2>0, <2>1 DEF IsKnown, Known, Lookup, PathsOf
  <2>3. \A d : MissingOf(Head(jobs), d)' = MissingOf(j, d)
    BY <2>0, <2>2 DEF MissingOf, Missing
  <2>4. \A d : Builds(Head(jobs), d)' <=> Builds(j, d)
    BY <2>0, <2>2, <2>3 DEF Builds
  <2>5. \A d : Fetches(Head(jobs), d)' <=> Fetches(j, d)
    BY <2>2, <2>4 DEF Fetches
  <2>6. \A d : Decided(Head(jobs), d)' <=> Decided(j, d)
    BY <2>0, <2>2, <2>3 DEF Decided, Pending
  <2>7. \A d : Needed(Head(jobs), t.visited, d)' <=> Needed(j, b.visited, d)
    BY <2>0, <2>4 DEF Needed
  <2>8. ToBuild(t)' = ToBuild(b) /\ Depth(t)' = Depth(b)
    BY DEF ToBuild, OnStack, Depth
  <2>9. /\ {d \in t'.visited : Builds(Head(jobs), d)'}
              = {d \in b.visited : Builds(j, d)}
        /\ {d \in t'.visited : ~IsKnown(Head(jobs), d)'}
              = {d \in b.visited : ~IsKnown(j, d)}
    BY <2>2, <2>4
  <2>10. UNION {MissingOf(Head(jobs), d)' :
                  d \in {d \in t'.visited : Fetches(Head(jobs), d)'}}
           = UNION {MissingOf(j, d) : d \in {d \in b.visited : Fetches(j, d)}}
    BY <2>3, <2>5
  <2> QED BY <2>0, <2>6, <2>7, <2>8, <2>9, <2>10 DEF WalkCovers, Covers
<1> QED BY <1>2, <1>3 DEF Coverage

LEMMA CoverageKept == Inv /\ Coverage /\ [Next]_vars => Coverage'
<1> SUFFICES ASSUME Inv, Coverage, Next \/ UNCHANGED vars PROVE Coverage'
  OBVIOUS
<1>1. ASSUME NEW j \in Job, ResolveFast(j) PROVE Coverage'
  <2> DEFINE r == FastResolution(j)
  <2>1. /\ pc' = "pass" /\ UNCHANGED storeVars
        /\ result' = [result EXCEPT ![j] = r]
    BY <1>1 DEF ResolveFast, Trying
  <2>2. r.status # "NotBuilt"
    <3> DEFINE missing == Missing(Range(outputs[j]))
               status == IF missing = {} THEN "Local" ELSE "Cached"
    <3>1. r = [NoResult EXCEPT !.status = status, !.substitutes = missing]
      BY Zenon DEF FastResolution
    <3>2. status # "NotBuilt"
      OBVIOUS
    <3> HIDE DEF missing, status, r
    <3> QED BY <3>1, <3>2 DEF NoResult
  <2> HIDE DEF r
  <2>3. HasBreakdown(j, r)
    BY <2>2 DEF HasBreakdown
  <2> QED BY <2>1, <2>3, CachesStay, BreakdownsKept DEF Coverage
<1>2. ASSUME NEW j \in Job, SlowPath(j) PROVE Coverage'
  <2> DEFINE b == VisitDrv(FastPath(j), j, {})
  <2>1. j = Head(jobs) /\ t' = b /\ UNCHANGED <<storeVars, jobs, result>>
    BY <1>2 DEF SlowPath, Trying
  <2>2. WalkCovers(j, b)
    BY BeginCovers DEF WalkCovers, Inv
  <2> HIDE DEF b
  <2> QED BY <2>1, <2>2, WalkStepCovers
<1>3. ASSUME NEW e \in Drv, VisitInput(e) PROVE Coverage'
  <2> DEFINE b == VisitDrv(InputTaken(t, e), e,
                           inputs[t.stack[Len(t.stack)].drv][e])
  <2>1. /\ pc = "walk" /\ t.stack # <<>> /\ e \in t.stack[Len(t.stack)].rest
        /\ t' = b /\ UNCHANGED <<storeVars, jobs, result>>
    BY <1>3 DEF VisitInput, Top, InputTaken
  <2>2. /\ StoresTyped /\ AttemptInv(t) /\ WalkCovers(Head(jobs), t)
        /\ EdgesAgree /\ Head(jobs) \in Drv
    BY <2>1, JobTaken, Derivations DEF Inv, Coverage, ThreadTyped
  <2>3. WalkCovers(Head(jobs), b)
    BY <2>1, <2>2, RoundCovers DEF WalkCovers
  <2> HIDE DEF b
  <2> QED BY <2>1, <2>3, WalkStepCovers
<1>4. ASSUME LeaveDrv PROVE Coverage'
  <2> DEFINE b == ReturnOf(t)
  <2>1. /\ pc = "walk" /\ t.stack # <<>> /\ t.stack[Len(t.stack)].rest = {}
        /\ t' = b /\ UNCHANGED <<storeVars, jobs, result>>
    BY <1>4 DEF LeaveDrv, Top, ReturnOf
  <2>2. AttemptInv(t) /\ WalkCovers(Head(jobs), t)
    BY <2>1 DEF Inv, Coverage
  <2>3. WalkCovers(Head(jobs), b)
    BY <2>1, <2>2, ReturnCovers DEF WalkCovers
  <2> HIDE DEF b
  <2> QED BY <2>1, <2>3, WalkStepCovers
<1>5. ASSUME EndAttempt PROVE Coverage'
  <2> PICK j : j = Head(jobs)
    OBVIOUS
  <2>1. pc = "walk" /\ t.stack = <<>> /\ pc' = "pass" /\ UNCHANGED storeVars
    BY <1>5 DEF EndAttempt
  <2>2. AttemptInv(t) /\ WalkCovers(j, t) /\ j \in Job
    BY <2>1, JobTaken DEF Inv, Coverage, ThreadTyped
  <2>3. CASE t.complete
    <3> DEFINE r == [status |-> "NotBuilt", builds |-> t.builds,
                     unknown |-> t.unknown, substitutes |-> t.substitutes]
    <3>1. result' = [result EXCEPT ![j] = r]
      BY <1>5, <2>3 DEF EndAttempt
    <3>2. /\ r.builds = t.builds /\ r.unknown = t.unknown
          /\ r.substitutes = t.substitutes
      OBVIOUS
    <3> HIDE DEF r
    <3>3. HasBreakdown(j, r)
      <4>1. BreakdownOf(j, r, t.visited)
        BY <2>1, <2>2, <2>3, <3>2, EndCovers DEF WalkCovers
      <4>2. t.visited \in SUBSET Drv
        BY <2>2 DEF AttemptInv, AttemptType
      <4> QED BY <4>1, <4>2 DEF HasBreakdown
    <3> QED BY <2>1, <2>2, <3>1, <3>3, CachesStay, BreakdownsKept DEF Coverage
  <2>4. CASE ~t.complete
    <3>1. result' = result
      BY <1>5, <2>4 DEF EndAttempt
    <3> QED BY <2>1, <3>1, CachesStay, BreakdownsLeft DEF Coverage
  <2> QED BY <2>3, <2>4
<1>6. ASSUME ResolveValid \/ ResolveSubstitutable PROVE Coverage'
  <2>1. CachesGrow
    BY <1>6, ResolveGrows
  <2>2. pc' # "walk" /\ result' = result
    BY <1>6 DEF ResolveValid, ResolveSubstitutable
  <2> QED BY <2>1, <2>2, BreakdownsLeft DEF Coverage
<1>7. ASSUME \/ \E j \in Job : PostponeFast(j)
             \/ EndPass \/ FirstJobs \/ LateJobs
      PROVE  Coverage'
  <2>1. pc' # "walk" /\ result' = result /\ UNCHANGED storeVars
    BY <1>7 DEF PostponeFast, Trying, EndPass, FirstJobs, LateJobs, TakeInbox
  <2> QED BY <2>1, CachesStay, BreakdownsLeft DEF Coverage
<1>8. ASSUME UNCHANGED vars PROVE Coverage'
  <2>1. UNCHANGED storeVars /\ UNCHANGED <<pc, jobs, t, result>>
    BY <1>8 DEF vars
  <2>2. CASE pc = "walk"
    <3> PICK b : b = t
      OBVIOUS
    <3>1. WalkCovers(Head(jobs), b)
      BY <2>2 DEF Coverage
    <3> QED BY <2>1, <3>1, WalkStepCovers
  <2>3. CASE pc # "walk"
    BY <2>1, <2>3, CachesStay, BreakdownsLeft DEF Coverage
  <2> QED BY <2>2, <2>3
<1>9. \/ \E j \in Job : ResolveFast(j) \/ PostponeFast(j) \/ SlowPath(j)
      \/ \E e \in Drv : VisitInput(e)
      \/ LeaveDrv \/ EndAttempt \/ EndPass \/ FirstJobs \/ LateJobs
      \/ ResolveValid \/ ResolveSubstitutable \/ UNCHANGED vars
  BY DEF Next, Step, TryResolve
<1> QED BY <1>1, <1>2, <1>3, <1>4, <1>5, <1>6, <1>7, <1>8, <1>9

-----------------------------------------------------------------------------
(* Wanted(j) is a recursive function.  It exists, by the least number of   *)
(* rounds up to which it would not.                                        *)

Start(j) == [drv |-> j, names |-> DOMAIN outputs[j]]
Round(S) == S \cup UNION {Below(w) : w \in {w \in S : MustBuild(w)}}

IsGrow(g, n, j) ==
  g = [k \in 0 .. n |->
         IF k = 0 THEN {Start(j)}
         ELSE g[k - 1]
                \cup UNION {Below(w) : w \in {w \in g[k - 1] : MustBuild(w)}}]

LEMMA GrowthExists ==
  ASSUME NEW n \in Nat, NEW j
  PROVE  \E g : IsGrow(g, n, j)
<1> DEFINE Grows(g, k) ==
             /\ g = [i \in 0 .. k |-> g[i]] /\ g[0] = {Start(j)}
             /\ \A i \in 1 .. k : g[i] = Round(g[i - 1])
           T == {k \in Nat : ~\E g : Grows(g, k)}
<1>1. ASSUME T # {} PROVE FALSE
  <2>0. T \subseteq Nat
    OBVIOUS
  <2>1. PICK k \in T : \A i \in T : k <= i
    <3> HIDE DEF T
    <3> QED BY <1>1, <2>0, LeastMember
  <2>2. k \in Nat /\ ~\E g : Grows(g, k)
    BY <2>1
  <2>3. CASE k = 0
    <3> DEFINE g == [i \in 0 .. 0 |-> {Start(j)}]
    <3>1. g[0] = {Start(j)} /\ g = [i \in 0 .. 0 |-> g[i]]
      OBVIOUS
    <3>2. \A i \in 1 .. 0 : g[i] = Round(g[i - 1])
      OBVIOUS
    <3>3. Grows(g, 0)
      BY <3>1, <3>2
    <3> QED BY <2>2, <2>3, <3>3
  <2>4. CASE k # 0
    <3>1. k - 1 \in Nat /\ ~(k <= k - 1)
      BY <2>2, <2>4
    <3>2. PICK f : Grows(f, k - 1)
      BY <2>1, <3>1
    <3> DEFINE new == Round(f[k - 1])
               g == [i \in 0 .. k |-> IF i = k THEN new ELSE f[i]]
    <3> HIDE DEF new
    <3>3. /\ \A i \in 0 .. k : g[i] = IF i = k THEN new ELSE f[i]
          /\ g = [i \in 0 .. k |-> g[i]]
      OBVIOUS
    <3> HIDE DEF g
    <3>4. g[0] = {Start(j)}
      <4>1. 0 \in 0 .. k /\ 0 # k
        BY <2>2, <2>4
      <4>2. f[0] = {Start(j)}
        BY <3>2
      <4> QED BY <3>3, <4>1, <4>2
    <3>5. ASSUME NEW i \in 1 .. k PROVE g[i] = Round(g[i - 1])
      <4>1. i \in 0 .. k /\ i - 1 \in 0 .. k /\ i - 1 # k
        BY <2>2
      <4>2. g[i - 1] = f[i - 1]
        BY <3>3, <4>1
      <4>3. CASE i = k
        BY <3>3, <4>1, <4>2, <4>3 DEF new
      <4>4. CASE i # k
        <5>1. i \in 1 .. k - 1
          BY <2>2, <4>4
        <5> QED BY <3>2, <3>3, <4>1, <4>2, <4>4, <5>1
      <4> QED BY <4>3, <4>4
    <3>6. Grows(g, k)
      BY <3>3, <3>4, <3>5
    <3> QED BY <2>2, <3>6
  <2> QED BY <2>3, <2>4
<1>2. PICK g : Grows(g, n)
  BY <1>1
<1>3. ASSUME NEW k \in 0 .. n, k # 0
      PROVE  g[k] = g[k - 1]
               \cup UNION {Below(w) : w \in {w \in g[k - 1] : MustBuild(w)}}
  <2>1. k \in 1 .. n
    BY <1>3
  <2>2. g[k] = Round(g[k - 1])
    BY <1>2, <2>1
  <2> QED BY <2>2 DEF Round
<1>4. g[0] = {Start(j)} /\ g = [k \in 0 .. n |-> g[k]]
  BY <1>2
<1>5. IsGrow(g, n, j)
  BY <1>3, <1>4 DEF IsGrow
<1> QED BY <1>5

LEMMA WantedGrows ==
  ASSUME NEW j, NEW n \in Nat, n = Cardinality(Drv)
  PROVE  \E g : IsGrow(g, n, j) /\ Wanted(j) = g[n]
<1> DEFINE grow == CHOOSE g : IsGrow(g, n, j)
<1>1. IsGrow(grow, n, j)
  BY GrowthExists
<1>2. Wanted(j) = grow[n]
  BY DEF Wanted, IsGrow, Start
<1> QED BY <1>1, <1>2

LEMMA GrowthRounds ==
  ASSUME NEW n \in Nat, NEW j, NEW g, IsGrow(g, n, j)
  PROVE  /\ g[0] = {Start(j)}
         /\ \A k \in 0 .. n : k # 0 =>
              g[k] = g[k - 1]
                \cup UNION {Below(w) : w \in {w \in g[k - 1] : MustBuild(w)}}
<1>1. 0 \in 0 .. n
  OBVIOUS
<1> QED BY <1>1 DEF IsGrow

(* What is wanted in some round is wanted in the last. *)
LEMMA GrowthLasts ==
  ASSUME NEW n \in Nat, NEW j, NEW g, IsGrow(g, n, j), NEW k \in 0 .. n
  PROVE  g[k] \subseteq g[n]
<1> DEFINE T == {m \in 0 .. n : ~(g[n - m] \subseteq g[n])}
<1>1. ASSUME T # {} PROVE FALSE
  <2>1. T \subseteq Nat
    OBVIOUS
  <2>2. PICK m \in T : \A i \in T : m <= i
    <3> HIDE DEF T
    <3> QED BY <1>1, <2>1, LeastMember
  <2>3. m \in 0 .. n /\ ~(g[n - m] \subseteq g[n])
    BY <2>2
  <2>4. m # 0
    <3>1. ASSUME m = 0 PROVE FALSE
      <4>1. n - m = n
        BY <3>1
      <4> QED BY <2>3, <4>1
    <3> QED BY <3>1
  <2>5. /\ m - 1 \in 0 .. n /\ ~(m <= m - 1)
        /\ n - (m - 1) \in 0 .. n /\ n - (m - 1) # 0
        /\ n - (m - 1) - 1 = n - m
    BY <2>3, <2>4
  <2>6. g[n - (m - 1)] \subseteq g[n]
    BY <2>2, <2>5
  <2>7. g[n - m] \subseteq g[n - (m - 1)]
    BY <2>5, GrowthRounds
  <2> QED BY <2>3, <2>6, <2>7
<1>2. /\ n - k \in 0 .. n /\ n - (n - k) = k
  OBVIOUS
<1>3. n - k \notin T
  BY <1>1
<1> HIDE DEF T
<1>4. ~(g[n - (n - k)] \subseteq g[n]) => n - k \in T
  BY <1>2 DEF T
<1> QED BY <1>2, <1>3, <1>4

(* How many derivations come before one. *)
Rank(d) == Cardinality({e \in Drv : e < d})

LEMMA Ranks ==
  ASSUME NEW n \in Nat, n = Cardinality(Drv)
  PROVE  /\ \A d \in Drv : Rank(d) \in Nat /\ Rank(d) < n
         /\ \A d, e \in Drv : e < d => Rank(e) < Rank(d)
<1>1. \A d \in Drv : d \in Nat
  BY Derivations
<1>2. ASSUME NEW S, S \subseteq Drv, NEW d \in S
      PROVE  /\ Rank(d) \in Nat /\ Cardinality(S) \in Nat
             /\ (\A e \in Drv : e < d => e \in S) => Rank(d) < Cardinality(S)
  <2> DEFINE B == {e \in Drv : e < d}
  <2>1. B \subseteq Drv /\ d \notin B
    BY <1>1, <1>2
  <2>2. IsFiniteSet(B) /\ IsFiniteSet(S)
    BY <1>2, <2>1, Derivations, FS_Subset
  <2>3. Cardinality(B) \in Nat /\ Cardinality(S) \in Nat
    BY <2>2, FS_CardinalityType
  <2>4. IsFiniteSet(B \cup {d}) /\ Cardinality(B \cup {d}) = Cardinality(B) + 1
    BY <2>1, <2>2, FS_AddElement
  <2>5. ASSUME \A e \in Drv : e < d => e \in S PROVE B \cup {d} \subseteq S
    BY <2>5
  <2>6. B \cup {d} \subseteq S => Cardinality(B \cup {d}) <= Cardinality(S)
    BY <2>2, FS_Subset
  <2>7. Rank(d) = Cardinality(B)
    BY DEF Rank
  <2> HIDE DEF B
  <2>8. ASSUME \A e \in Drv : e < d => e \in S
        PROVE  Rank(d) < Cardinality(S)
    <3>1. Cardinality(B) + 1 <= Cardinality(S)
      BY <2>4, <2>5, <2>6, <2>8
    <3> QED BY <2>3, <2>7, <3>1
  <2> QED BY <2>3, <2>7, <2>8
<1>3. ASSUME NEW d \in Drv PROVE Rank(d) \in Nat /\ Rank(d) < n
  BY <1>2
<1>4. ASSUME NEW d \in Drv, NEW e \in Drv, e < d PROVE Rank(e) < Rank(d)
  <2> DEFINE S == {x \in Drv : x < d}
  <2>1. S \subseteq Drv /\ e \in S
    BY <1>4
  <2>2. \A x \in Drv : x < e => x \in S
    BY <1>1, <1>4
  <2>3. Rank(d) = Cardinality(S)
    BY DEF Rank
  <2> HIDE DEF S
  <2> QED BY <1>2, <2>1, <2>2, <2>3
<1> QED BY <1>3, <1>4

(* Wants and derivations, when edges agree. *)
LEMMA WantIsDrv ==
  ASSUME NEW j, NEW d
  PROVE  LET w == WantOf(j, d)
         IN  /\ w.drv = d /\ w.names = NamesOf(j, d)
             /\ Known(w.drv, w.names) <=> IsKnown(j, d)
             /\ {outputs[w.drv][n] : n \in w.names} = Lookup(j, d)
             /\ MissingPaths(w) = MissingOf(j, d)
             /\ MustBuild(w) <=> Builds(j, d)
<1> DEFINE w == WantOf(j, d)
<1>1. w.drv = d /\ w.names = NamesOf(j, d)
  BY DEF WantOf
<1> HIDE DEF w
<1>2. /\ Known(w.drv, w.names) <=> IsKnown(j, d)
      /\ {outputs[w.drv][n] : n \in w.names} = Lookup(j, d)
  BY <1>1 DEF IsKnown, Lookup, PathsOf
<1>3. MissingPaths(w) = MissingOf(j, d)
  BY <1>2 DEF MissingPaths, MissingOf
<1>4. MustBuild(w) <=> Builds(j, d)
  BY <1>2, <1>3 DEF MustBuild, Builds
<1> QED BY <1>1, <1>2, <1>3, <1>4 DEF w

LEMMA WantsBelow ==
  ASSUME StoresTyped, EdgesAgree, NEW j \in Drv, NEW d \in Drv, d = j \/ j < d
  PROVE  Below(WantOf(j, d)) = {WantOf(j, e) : e \in DOMAIN inputs[d]}
<1>1. ASSUME NEW e \in DOMAIN inputs[d]
      PROVE  Want(e, inputs[d][e]) = WantOf(j, e)
  <2>1. e # j
    <3>1. d < e /\ e \in Nat /\ d \in Nat /\ j \in Nat
      BY InputsAreGreater, Derivations DEF StoresTyped
    <3> QED BY <3>1
  <2>2. WantedNames(e, inputs[d][e]) = NamesOf(j, e)
    BY <2>1, EdgesWant
  <2> QED BY <2>2 DEF Want, WantOf
<1>2. WantOf(j, d).drv = d
  BY WantIsDrv
<1> QED BY <1>1, <1>2 DEF Below

(* The derivations that an attempt has visited, and no others, are wanted. *)
LEMMA VisitedAreWanted ==
  ASSUME StoresTyped, EdgesAgree, NEW j \in Drv, NEW r, NEW V,
         BreakdownOf(j, r, V)
  PROVE  Wanted(j) = {WantOf(j, d) : d \in V}
<1> DEFINE n == Cardinality(Drv)
           All == {WantOf(j, d) : d \in V}
<1>1. /\ j \in V /\ V \subseteq Drv /\ \A d \in V : d = j \/ j < d
      /\ \A d \in V : Needed(j, V, d)
      /\ \A d \in V : Builds(j, d) => DOMAIN inputs[d] \subseteq V
  BY DEF BreakdownOf
<1>2. n \in Nat /\ \A d \in Drv : d \in Nat
  BY Derivations, FS_CardinalityType
<1>3. /\ \A d \in Drv : Rank(d) \in Nat /\ Rank(d) < n
      /\ \A d, e \in Drv : e < d => Rank(e) < Rank(d)
  BY <1>2, Ranks
<1>4. PICK g : IsGrow(g, n, j) /\ Wanted(j) = g[n]
  BY <1>2, WantedGrows
<1> HIDE DEF n
<1>5. /\ g[0] = {Start(j)}
      /\ \A k \in 0 .. n : k # 0 =>
           g[k] = g[k - 1]
             \cup UNION {Below(w) : w \in {w \in g[k - 1] : MustBuild(w)}}
  BY <1>2, <1>4, GrowthRounds
<1>6. Start(j) = WantOf(j, j)
  BY DEF Start, WantOf, NamesOf
<1>7. ASSUME NEW d \in V
      PROVE  /\ MustBuild(WantOf(j, d)) <=> Builds(j, d)
             /\ Below(WantOf(j, d)) = {WantOf(j, e) : e \in DOMAIN inputs[d]}
  BY <1>1, WantIsDrv, WantsBelow
<1>8. g[n] \subseteq All
  <2> DEFINE T == {k \in 0 .. n : ~(g[k] \subseteq All)}
  <2>1. ASSUME T # {} PROVE FALSE
    <3>1. T \subseteq Nat
      BY <1>2
    <3>2. PICK k \in T : \A i \in T : k <= i
      <4> HIDE DEF T
      <4> QED BY <2>1, <3>1, LeastMember
    <3>3. k \in 0 .. n /\ ~(g[k] \subseteq All)
      BY <3>2
    <3>4. k # 0
      BY <1>1, <1>5, <1>6, <3>3
    <3>5. k - 1 \in 0 .. n /\ ~(k <= k - 1)
      BY <1>2, <3>3, <3>4
    <3>6. g[k - 1] \subseteq All
      BY <3>2, <3>5
    <3>7. ASSUME NEW w \in g[k - 1], MustBuild(w) PROVE Below(w) \subseteq All
      <4>1. PICK d \in V : w = WantOf(j, d)
        BY <3>6
      <4>2. Below(w) = {WantOf(j, e) : e \in DOMAIN inputs[d]} /\ Builds(j, d)
        BY <1>7, <3>7, <4>1
      <4>3. DOMAIN inputs[d] \subseteq V
        BY <1>1, <4>2
      <4> QED BY <4>2, <4>3
    <3> HIDE DEF All
    <3> QED BY <1>5, <3>3, <3>4, <3>6, <3>7
  <2>2. n \in 0 .. n
    BY <1>2
  <2> QED BY <2>1, <2>2
<1>9. ASSUME NEW d \in V PROVE WantOf(j, d) \in g[n]
  <2> DEFINE Found(x) == \E k \in 0 .. n : k <= Rank(x) /\ WantOf(j, x) \in g[k]
             T == {x \in V : ~Found(x)}
  <2>1. ASSUME T # {} PROVE FALSE
    <3>1. T \subseteq Nat
      BY <1>1, <1>2
    <3>2. PICK x \in T : \A y \in T : x <= y
      <4> HIDE DEF T
      <4> QED BY <2>1, <3>1, LeastMember
    <3>3. x \in V /\ ~Found(x) /\ x \in Drv
      BY <1>1, <3>2
    <3> HIDE DEF Found
    <3>4. CASE x = j
      <4>1. 0 \in 0 .. n /\ 0 <= Rank(x) /\ WantOf(j, x) \in g[0]
        BY <1>2, <1>3, <1>5, <1>6, <3>3, <3>4
      <4> QED BY <3>3, <4>1 DEF Found
    <3>5. CASE x # j
      <4>1. PICK y \in V : Builds(j, y) /\ x \in DOMAIN inputs[y]
        BY <1>1, <3>3, <3>5 DEF Needed
      <4>2. y < x /\ y \in Drv
        BY <1>1, <4>1, InputsAreGreater DEF StoresTyped
      <4>3. Found(y)
        <5>1. ~(x <= y)
          BY <1>2, <3>3, <4>2
        <5> QED BY <3>2, <5>1
      <4>4. PICK k \in 0 .. n : k <= Rank(y) /\ WantOf(j, y) \in g[k]
        BY <4>3 DEF Found
      <4>5. k + 1 \in 0 .. n /\ k + 1 # 0 /\ k + 1 - 1 = k /\ k + 1 <= Rank(x)
        <5>1. /\ Rank(y) < Rank(x) /\ Rank(x) < n
              /\ Rank(y) \in Nat /\ Rank(x) \in Nat
          BY <1>3, <3>3, <4>2
        <5> QED BY <1>2, <4>4, <5>1
      <4>6. WantOf(j, x) \in Below(WantOf(j, y)) /\ MustBuild(WantOf(j, y))
        BY <1>7, <4>1
      <4>7. g[k + 1] = g[k]
              \cup UNION {Below(w) : w \in {w \in g[k] : MustBuild(w)}}
        BY <1>5, <4>5
      <4>8. WantOf(j, x) \in g[k + 1]
        BY <4>4, <4>6, <4>7
      <4> QED BY <3>3, <4>5, <4>8 DEF Found
    <3> QED BY <3>4, <3>5
  <2>2. PICK k \in 0 .. n : WantOf(j, d) \in g[k]
    BY <2>1
  <2>3. g[k] \subseteq g[n]
    BY <1>2, <1>4, GrowthLasts
  <2> QED BY <2>2, <2>3
<1> QED BY <1>4, <1>8, <1>9

(* What a result says is what the fixed point says. *)
LEMMA BreakdownAgrees ==
  ASSUME StoresTyped, EdgesAgree, NEW j \in Drv, NEW r, NEW V,
         BreakdownOf(j, r, V)
  PROVE  LET wants == Wanted(j)
         IN  /\ \A w \in wants : Known(w.drv, w.names) =>
                  Pending(validCache, {outputs[w.drv][n] : n \in w.names}) = {}
             /\ [builds |-> Range(r.builds), unknown |-> Range(r.unknown),
                 substitutes |-> r.substitutes] = Breakdown(wants)
             /\ IsInjective(r.builds) /\ IsInjective(r.unknown)
<1> DEFINE wants == Wanted(j)
           known == {w \in wants : Known(w.drv, w.names)}
<1>1. wants = {WantOf(j, d) : d \in V}
  BY VisitedAreWanted
<1>2. \A d \in V :
        LET w == WantOf(j, d)
        IN  /\ w.drv = d /\ w \in wants
            /\ Known(w.drv, w.names) <=> IsKnown(j, d)
            /\ {outputs[w.drv][n] : n \in w.names} = Lookup(j, d)
            /\ MissingPaths(w) = MissingOf(j, d)
            /\ MustBuild(w) <=> Builds(j, d)
  BY <1>1, WantIsDrv
<1> HIDE DEF wants
<1>3. \A w \in wants : \E d \in V : w = WantOf(j, d)
  BY <1>1
<1>4. ASSUME NEW w \in wants, Known(w.drv, w.names)
      PROVE  Pending(validCache, {outputs[w.drv][n] : n \in w.names}) = {}
  <2>1. PICK d \in V : w = WantOf(j, d)
    BY <1>3
  <2>2. IsKnown(j, d) /\ {outputs[w.drv][n] : n \in w.names} = Lookup(j, d)
    BY <1>2, <1>4, <2>1
  <2>3. Pending(validCache, Lookup(j, d)) = {}
    BY <2>2 DEF BreakdownOf, Decided
  <2> QED BY <2>2, <2>3
<1>5. {w.drv : w \in {w \in known : MustBuild(w)}} = {d \in V : Builds(j, d)}
  <2>1. \A d : Builds(j, d) => IsKnown(j, d)
    BY DEF Builds
  <2> QED BY <1>2, <1>3, <2>1
<1>6. {w.drv : w \in wants \ known} = {d \in V : ~IsKnown(j, d)}
  BY <1>2, <1>3
<1>7. UNION {MissingPaths(w) : w \in {w \in known : ~MustBuild(w)}}
        = UNION {MissingOf(j, d) : d \in {d \in V : Fetches(j, d)}}
  BY <1>2, <1>3 DEF Fetches
<1>8. [builds |-> Range(r.builds), unknown |-> Range(r.unknown),
       substitutes |-> r.substitutes] = Breakdown(wants)
  <2>1. Breakdown(wants) =
          [builds |-> {w.drv : w \in {w \in known : MustBuild(w)}},
           unknown |-> {w.drv : w \in wants \ known},
           substitutes |-> UNION {MissingPaths(w) :
                                    w \in {w \in known : ~MustBuild(w)}}]
    BY DEF Breakdown
  <2>2. /\ Range(r.unknown) = {d \in V : ~IsKnown(j, d)}
        /\ Range(r.builds) = {d \in V : Builds(j, d)}
        /\ r.substitutes =
             UNION {MissingOf(j, d) : d \in {d \in V : Fetches(j, d)}}
    BY DEF BreakdownOf
  <2> HIDE DEF known
  <2> QED BY <1>5, <1>6, <1>7, <2>1, <2>2
<1>9. IsInjective(r.builds) /\ IsInjective(r.unknown)
  BY DEF BreakdownOf
<1> QED BY <1>4, <1>8, <1>9 DEF wants

(* BreakdownComplete: if all who want outputs of a derivation want the     *)
(* same ones, all that the build of a job needs has been looked up, all of *)
(* it that is missing is listed, once each, and nothing else is.           *)
THEOREM BreakdownsAreComplete ==
  EdgesAgree /\ Spec => []BreakdownComplete
<1>1. Inv /\ Coverage => BreakdownComplete
  <2> SUFFICES ASSUME Inv, Coverage, NEW j \in Job,
                      result[j].status = "NotBuilt"
      PROVE  LET r == result[j]
                 wants == Wanted(j)
             IN  /\ \A w \in wants : Known(w.drv, w.names) =>
                      Pending(validCache,
                              {outputs[w.drv][n] : n \in w.names}) = {}
                 /\ [builds |-> Range(r.builds), unknown |-> Range(r.unknown),
                     substitutes |-> r.substitutes] = Breakdown(wants)
                 /\ IsInjective(r.builds) /\ IsInjective(r.unknown)
    BY DEF BreakdownComplete
  <2>1. PICK V \in SUBSET Drv : BreakdownOf(j, result[j], V)
    BY DEF Coverage, HasBreakdown
  <2> QED BY <2>1, Derivations, BreakdownAgrees DEF Inv, Coverage
<1> QED BY <1>1, CoverageStarts, CoverageKept, Invariant, PTL DEF Spec
=============================================================================
