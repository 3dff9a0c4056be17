------------------------- MODULE ConstituentsProofs -------------------------
(***************************************************************************)
(* Proofs about Constituents, for any number of jobs and aggregates and    *)
(* whatever the aggregates name.                                           *)
(***************************************************************************)
EXTENDS Constituents, SequenceLemmas

-----------------------------------------------------------------------------
(* The invariant of the search.                                            *)

(* The graph that is sorted. *)
Graph == [n \in Aggregate |-> References(n)]

Paths(t) == {t[i].path : i \in DOMAIN t}

(* The frames of dfsVisit are a path in the graph, without repetition. *)
IsWalk(t, G) ==
  /\ \A i, j \in DOMAIN t : t[i].path = t[j].path => i = j
  /\ \A i \in DOMAIN t : i > 1 => t[i].path \in G[t[i - 1].path]

(* What a frame need not visit any more is done, or being visited by the   *)
(* frame on top of it.                                                     *)
Accounted(t, G, done) ==
  \A i \in DOMAIN t :
    /\ t[i].refs \subseteq G[t[i].path]
    /\ \A d \in G[t[i].path] \ t[i].refs :
         d \in done \/ (i < Len(t) /\ d = t[i + 1].path)

SearchInv ==
  /\ parents = Paths(stack)
  /\ Range(sorted) = visited \ parents
  /\ keys \cup visited = Aggregate
  /\ IsWalk(stack, Graph) /\ Accounted(stack, Graph, Range(sorted))

(* What is sorted comes after what it depends on, and once. *)
IsOrder(s, G) ==
  /\ IsInjective(s)
  /\ \A i \in DOMAIN s : \A d \in G[s[i]] : \E j \in 1 .. i - 1 : s[j] = d

OrderInv == IsOrder(sorted, Graph)

(* Where main is. *)
StageInv ==
  /\ pc = "resolve" => stack = <<>> /\ sorted = <<>> /\ visited = {}
  /\ pc \in {"resolve", "sort"} => cycle = <<>> /\ output = <<>>
  /\ pc = "cycle" => cycle # <<>>
  /\ pc \in {"rewrite", "failed"} => cycle = <<>>
  /\ pc = "done" /\ cycle # <<>> => output # <<>>
  /\ pc \in {"rewrite", "done", "failed"} /\ cycle = <<>> =>
       stack = <<>> /\ keys = {}
  /\ pc # "resolve" => \A n \in Aggregate : /\ dependencies[n] = Results(n)
                                            /\ brokenJobs[n] = Broken(n)

-----------------------------------------------------------------------------
(* The invariant of the two loops that print.                              *)

(* The order in which the aggregates are printed. *)
Order == IF cycle = <<>> THEN sorted
         ELSE cycle \o Ascending(Remaining(cycle[1], cycle[2]))

Printing == pc \in {"rewrite", "cycle", "done", "failed"}

(* The first of them are printed, the others are in rest. *)
QueueInv ==
  Printing =>
    IF cycle # <<>> /\ output = <<>>
    THEN rest = Ascending(Remaining(cycle[1], cycle[2]))
    ELSE /\ Len(output) + Len(rest) = Len(Order)
         /\ \A i \in DOMAIN output : output[i].attr = Order[i]
         /\ \A i \in DOMAIN rest : rest[i] = Order[Len(output) + i]
         /\ pc = "done" => rest = <<>>

(* Derivations tell their job, and are protected; what was not printed is  *)
(* as it was evaluated, and what was is as it was printed.                 *)
DrvInv ==
  /\ \A n \in Job \ Failed : drvPath[n].job = n /\ drvPath[n] \in roots
  /\ \A n \in Aggregate :
       (\A i \in DOMAIN output : output[i].attr # n)
         => drvPath[n] = Evaluated(n)
  /\ \A i \in DOMAIN output : output[i].drvPath = drvPath[output[i].attr]

ListInv ==
  \A n \in Aggregate :
    /\ Range(constituents[n]) \subseteq roots
    /\ Evaluated(n) \in Range(constituents[n]) => n \in input[n].named

OutputInv ==
  \A i \in DOMAIN output :
    LET n == output[i].attr
    IN  /\ Range(output[i].constituents) \subseteq roots
        /\ Evaluated(n) \in Range(output[i].constituents) =>
             n \in input[n].named
        /\ output[i].error = "none" =>
             /\ cycle = <<>> /\ brokenJobs[n] = {}
             /\ \A d \in dependencies[n] \ {n} :
                  drvPath[d] \in Range(output[i].constituents)
        /\ output[i].error # "none" => output[i].drvPath = Evaluated(n)

(* The cycle is on the stack, from the first frame that visits it up.      *)
CycleInv ==
  cycle # <<>> => /\ stack # <<>> /\ cycle[2] = Top.path
                  /\ cycle[1] \in Top.refs /\ cycle[1] \in Paths(stack)

IInv == /\ TypeOK /\ SearchInv /\ OrderInv /\ StageInv
        /\ QueueInv /\ DrvInv /\ ListInv /\ OutputInv /\ CycleInv

-----------------------------------------------------------------------------
(* Constants, and the operators the actions are made of.                   *)

LEMMA JobFacts ==
  /\ Job \subseteq Nat /\ IsFiniteSet(Job)
  /\ Aggregate \subseteq Job \ Failed /\ Failed \subseteq Job
  /\ Pattern \cap Job = {}
  /\ \A s \in Pattern : Matches[s] \subseteq Job
  /\ \A a \in Input : /\ a.named \subseteq Job \cup Pattern
                      /\ a.glob \in BOOLEAN
                      /\ a.direct \subseteq Job \ Failed
  BY JobAssumption DEF JobAssumption, AggregateInput

LEMMA AscendingOf ==
  ASSUME NEW S, S \subseteq Job
  PROVE  LET s == Ascending(S)
         IN  /\ s \in Seq(S) /\ Len(s) = Cardinality(S)
             /\ DOMAIN s = 1 .. Len(s) /\ Range(s) = S /\ IsInjective(s)
<1> DEFINE s == Ascending(S)
           n == Cardinality(S)
<1>1. S \subseteq Nat /\ IsFiniteSet(S) /\ n \in Nat
  BY JobFacts, FS_Subset, FS_CardinalityType
<1>2. \E q \in [1 .. n -> S] : \A i, j \in 1 .. n : i < j => q[i] < q[j]
  BY <1>1, AscendingExists
<1>3. \E q \in [1 .. n -> S] : \A i, j \in DOMAIN q : i < j => q[i] < q[j]
  BY <1>2
<1>4. s \in [1 .. n -> S] /\ \A i, j \in DOMAIN s : i < j => s[i] < s[j]
  BY <1>3 DEF Ascending
<1> HIDE DEF s, n
<1>5. IsInjective(s)
  <2> SUFFICES ASSUME NEW i \in 1 .. n, NEW j \in 1 .. n, s[i] = s[j]
               PROVE  i = j
    BY <1>4 DEF IsInjective
  <2>1. s[i] \in Nat /\ s[j] \in Nat
    BY <1>1, <1>4
  <2>2. ~(i < j) /\ ~(j < i)
    BY <1>4, <2>1
  <2> QED BY <1>1, <2>2
<1> QED BY <1>1, <1>4, <1>5, ListsAll DEF s, n

LEMMA ResultsType ==
  ASSUME TypeOK, NEW n \in Aggregate
  PROVE  Results(n) \subseteq Job \ Failed /\ Broken(n) \subseteq Job \cup Pattern
<1>1. input[n] \in Input
  BY DEF TypeOK
<1>2. /\ input[n].named \subseteq Job \cup Pattern
      /\ Unknown(n) \subseteq Pattern
  BY <1>1, JobFacts DEF Unknown
<1>3. \A s \in Unknown(n) : Expand(n, s) \subseteq Job
  BY <1>2, JobFacts DEF Expand
<1>4. Selected(n) \subseteq Job
  BY <1>3 DEF Selected
<1> QED BY <1>2, <1>4 DEF Results, Broken, IsBroken

-----------------------------------------------------------------------------
(* The search, step by step: what a step makes of a stack t.               *)

Graphs == [Aggregate -> SUBSET Aggregate]

LEMMA GraphType ==
  /\ Graph \in Graphs
  /\ \A n \in Aggregate : Graph[n] = References(n) /\ n \notin Graph[n]
  BY DEF Graph, Graphs, References

LEMMA FrameTypes ==
  ASSUME NEW t \in Seq(Frame)
  PROVE  /\ Len(t) \in Nat /\ DOMAIN t = 1 .. Len(t)
         /\ \A i \in DOMAIN t : /\ t[i] \in Frame
                                /\ t[i].path \in Aggregate
                                /\ t[i].refs \subseteq Aggregate
         /\ t # <<>> => Len(t) \in DOMAIN t
<1>1. Len(t) \in Nat /\ DOMAIN t = 1 .. Len(t)
  OBVIOUS
<1>2. \A i \in DOMAIN t : t[i] \in Frame
  BY <1>1, ElementOfSeq
<1>3. t # <<>> => Len(t) \in DOMAIN t
  BY <1>1, EmptySeq
<1> QED BY <1>1, <1>2, <1>3 DEF Frame

(* Consume, when dfsVisit is at work: s is t with a reference taken from   *)
(* the top frame.                                                          *)
IsTaken(t, s, p) ==
  /\ s \in Seq(Frame) /\ Len(s) = Len(t) /\ DOMAIN s = DOMAIN t
  /\ \A i \in DOMAIN t : s[i].path = t[i].path
  /\ \A i \in DOMAIN t : i # Len(t) => s[i].refs = t[i].refs
  /\ s[Len(t)].refs = t[Len(t)].refs \ {p}

LEMMA TakeFacts ==
  ASSUME NEW t \in Seq(Frame), t # <<>>, NEW p
  PROVE  IsTaken(t, [t EXCEPT ![Len(t)].refs = @ \ {p}], p)
<1> DEFINE n == Len(t)
           f == [t[n] EXCEPT !.refs = @ \ {p}]
           s == [t EXCEPT ![Len(t)].refs = @ \ {p}]
<1>1. n \in DOMAIN t /\ t[n] \in Frame /\ DOMAIN t = 1 .. n /\ n \in Nat
  BY FrameTypes
<1>2. /\ f \in Frame /\ f.path = t[n].path
      /\ f.refs = t[n].refs \ {p}
  BY <1>1 DEF Frame
<1>3. s = [t EXCEPT ![n] = f]
  OBVIOUS
<1> HIDE DEF f, n, s
<1>4. /\ DOMAIN s = 1 .. n
      /\ \A i \in 1 .. n : s[i] = IF i = n THEN f ELSE t[i]
  BY <1>1, <1>3
<1>5. \A i \in 1 .. n : s[i] \in Frame
  BY <1>1, <1>2, <1>4, FrameTypes
<1>6. s \in [1 .. n -> Frame]
  BY <1>1, <1>3, <1>4, <1>5
<1>7. s \in Seq(Frame) /\ Len(s) = n
  BY <1>1, <1>6
<1>8. IsTaken(t, s, p)
  BY <1>1, <1>2, <1>4, <1>7 DEF n, IsTaken
<1> QED BY <1>8 DEF s

LEMMA TakeKeeps ==
  ASSUME NEW G \in Graphs, NEW done, NEW t \in Seq(Frame), t # <<>>,
         NEW p \in done, NEW s, IsTaken(t, s, p),
         IsWalk(t, G), Accounted(t, G, done)
  PROVE  IsWalk(s, G) /\ Accounted(s, G, done) /\ Paths(s) = Paths(t)
<1>2. Len(t) \in Nat /\ DOMAIN t = 1 .. Len(t) /\ Len(t) \in DOMAIN t
  BY FrameTypes
<1>3. IsWalk(s, G)
  BY <1>2 DEF IsWalk, IsTaken
<1>4. Accounted(s, G, done)
  BY <1>2 DEF Accounted, IsTaken
<1>5. Paths(s) = Paths(t)
  BY DEF Paths, IsTaken
<1> QED BY <1>3, <1>4, <1>5

(* A frame is pushed for a reference of the top frame.                     *)
LEMMA PushFacts ==
  ASSUME NEW s \in Seq(Frame), NEW f \in Frame
  PROVE  /\ Append(s, f) \in Seq(Frame) /\ Len(Append(s, f)) = Len(s) + 1
         /\ DOMAIN Append(s, f) = DOMAIN s \cup {Len(s) + 1}
         /\ Append(s, f)[Len(s) + 1] = f
         /\ \A i \in DOMAIN s : Append(s, f)[i] = s[i]
         /\ Paths(Append(s, f)) = Paths(s) \cup {f.path}
<1> DEFINE u == Append(s, f)
<1>1. /\ u \in Seq(Frame) /\ Len(u) = Len(s) + 1
      /\ DOMAIN u = 1 .. Len(s) + 1 /\ u[Len(s) + 1] = f
      /\ \A i \in 1 .. Len(s) : u[i] = s[i]
  OBVIOUS
<1> HIDE DEF u
<1>2. Len(s) \in Nat /\ DOMAIN s = 1 .. Len(s)
  OBVIOUS
<1>3. DOMAIN u = DOMAIN s \cup {Len(s) + 1}
  BY <1>1, <1>2
<1>4. Paths(u) = Paths(s) \cup {f.path}
  <2>1. Paths(u) \subseteq Paths(s) \cup {f.path}
    BY <1>1, <1>2, <1>3 DEF Paths
  <2>2. Paths(s) \subseteq Paths(u)
    BY <1>1, <1>2, <1>3 DEF Paths
  <2>3. f.path \in Paths(u)
    BY <1>1, <1>3 DEF Paths
  <2> QED BY <2>1, <2>2, <2>3
<1> QED BY <1>1, <1>2, <1>3, <1>4 DEF u

LEMMA PushKeeps ==
  ASSUME NEW G \in Graphs, NEW done, NEW t \in Seq(Frame), t # <<>>,
         NEW p \in Aggregate, p \in t[Len(t)].refs, p \notin Paths(t),
         NEW s, IsTaken(t, s, p), NEW f \in Frame, f.path = p, f.refs = G[p],
         IsWalk(t, G), Accounted(t, G, done)
  PROVE  /\ IsWalk(Append(s, f), G) /\ Accounted(Append(s, f), G, done)
         /\ Paths(Append(s, f)) = Paths(t) \cup {p}
<1> DEFINE u == Append(s, f)
           n == Len(t)
<1>1. /\ s \in Seq(Frame) /\ Len(s) = n /\ DOMAIN s = DOMAIN t
      /\ \A i \in DOMAIN t : s[i].path = t[i].path
      /\ \A i \in DOMAIN t : i # n => s[i].refs = t[i].refs
      /\ s[n].refs = t[n].refs \ {p}
  BY DEF IsTaken
<1>2. n \in Nat /\ DOMAIN t = 1 .. n /\ n \in DOMAIN t
  BY FrameTypes
<1>3. /\ u \in Seq(Frame) /\ Len(u) = n + 1 /\ DOMAIN u = DOMAIN t \cup {n + 1}
      /\ u[n + 1] = f /\ \A i \in DOMAIN t : u[i] = s[i]
      /\ Paths(u) = Paths(s) \cup {p}
  BY <1>1, PushFacts
<1>4. Paths(s) = Paths(t)
  BY <1>1 DEF Paths
<1> HIDE DEF u, n
<1>5. \A i \in DOMAIN t : u[i].path = t[i].path
  BY <1>1, <1>3
<1>6. p \in G[t[n].path]
  BY <1>2 DEF Accounted, n
<1>7. IsWalk(u, G)
  <2>1. \A i \in DOMAIN t : t[i].path # p
    BY DEF Paths
  <2>2. ASSUME NEW i \in DOMAIN u, NEW j \in DOMAIN u, u[i].path = u[j].path
        PROVE  i = j
    <3>1. CASE i \in DOMAIN t /\ j \in DOMAIN t
      BY <1>5, <2>2, <3>1 DEF IsWalk
    <3>2. CASE i = n + 1 \/ j = n + 1
      BY <1>3, <1>5, <2>1, <2>2, <3>2
    <3> QED BY <1>3, <3>1, <3>2
  <2>3. ASSUME NEW i \in DOMAIN u, i > 1
        PROVE  u[i].path \in G[u[i - 1].path]
    <3>1. CASE i = n + 1
      <4>1. i - 1 = n
        BY <1>2, <3>1
      <4> QED BY <1>2, <1>3, <1>5, <1>6, <3>1, <4>1
    <3>2. CASE i \in DOMAIN t
      <4>1. i - 1 \in DOMAIN t
        BY <1>2, <2>3, <3>2
      <4>2. t[i].path \in G[t[i - 1].path]
        BY <2>3, <3>2 DEF IsWalk
      <4> QED BY <1>5, <3>2, <4>1, <4>2
    <3> QED BY <1>3, <3>1, <3>2
  <2> QED BY <2>2, <2>3 DEF IsWalk
<1>8. Accounted(u, G, done)
  <2> SUFFICES ASSUME NEW i \in DOMAIN u
               PROVE  /\ u[i].refs \subseteq G[u[i].path]
                      /\ \A d \in G[u[i].path] \ u[i].refs :
                           d \in done \/ (i < Len(u) /\ d = u[i + 1].path)
    BY DEF Accounted
  <2>1. CASE i = n + 1
    BY <1>3, <2>1
  <2>2. CASE i \in DOMAIN t
    <3>1. /\ t[i].refs \subseteq G[t[i].path]
          /\ \A d \in G[t[i].path] \ t[i].refs :
               d \in done \/ (i < n /\ d = t[i + 1].path)
      BY <2>2 DEF Accounted, n
    <3>2. i < Len(u)
      BY <1>2, <1>3, <2>2
    <3>3. CASE i = n
      <4>1. u[i].refs = t[i].refs \ {p} /\ u[i].path = t[i].path
        BY <1>1, <1>2, <1>3, <1>5, <3>3
      <4>2. ~(i < n) /\ u[i + 1].path = p
        BY <1>2, <1>3, <3>3
      <4> QED BY <3>1, <3>2, <4>1, <4>2
    <3>4. CASE i # n
      <4>1. u[i].refs = t[i].refs /\ u[i].path = t[i].path
        BY <1>1, <1>3, <1>5, <2>2, <3>4
      <4>2. i + 1 \in DOMAIN t
        BY <1>2, <2>2, <3>4
      <4> QED BY <1>5, <3>1, <3>2, <4>1, <4>2
    <3> QED BY <3>3, <3>4
  <2> QED BY <1>3, <2>1, <2>2
<1> QED BY <1>3, <1>4, <1>7, <1>8 DEF u

(* The top frame returns: what it references is done, and now it is, too.  *)
LEMMA PopKeeps ==
  ASSUME NEW G \in Graphs, NEW done, NEW t \in Seq(Frame), t # <<>>,
         t[Len(t)].refs = {}, IsWalk(t, G), Accounted(t, G, done)
  PROVE  LET p == t[Len(t)].path
         IN  /\ Front(t) \in Seq(Frame) /\ Paths(Front(t)) = Paths(t) \ {p}
             /\ IsWalk(Front(t), G) /\ Accounted(Front(t), G, done \cup {p})
             /\ p \in Paths(t) /\ G[p] \subseteq done
<1> DEFINE u == Front(t)
           n == Len(t)
           p == t[n].path
<1>1. n \in Nat /\ DOMAIN t = 1 .. n /\ n \in DOMAIN t
  BY FrameTypes
<1>2. /\ u \in Seq(Frame) /\ Len(u) = n - 1 /\ DOMAIN u = 1 .. n - 1
      /\ \A i \in 1 .. n - 1 : u[i] = t[i]
  BY <1>1, SubSeqProperties DEF Front
<1> HIDE DEF u, n
<1>3. DOMAIN t = DOMAIN u \cup {n} /\ n \notin DOMAIN u
  BY <1>1, <1>2
<1>4. IsWalk(u, G)
  BY <1>1, <1>2, <1>3 DEF IsWalk
<1>5. Paths(u) = Paths(t) \ {p}
  <2>1. \A i \in DOMAIN u : t[i].path # p
    BY <1>1, <1>3 DEF IsWalk
  <2>2. Paths(u) = {t[i].path : i \in DOMAIN u}
    BY <1>2 DEF Paths
  <2> QED BY <1>1, <1>3, <2>1, <2>2 DEF Paths
<1>6. Accounted(u, G, done \cup {p})
  <2> SUFFICES ASSUME NEW i \in DOMAIN u
               PROVE  /\ u[i].refs \subseteq G[u[i].path]
                      /\ \A d \in G[u[i].path] \ u[i].refs :
                           \/ d \in done \cup {p}
                           \/ i < Len(u) /\ d = u[i + 1].path
    BY DEF Accounted
  <2>1. u[i] = t[i] /\ i \in DOMAIN t
    BY <1>2, <1>3
  <2>2. /\ t[i].refs \subseteq G[t[i].path]
        /\ \A d \in G[t[i].path] \ t[i].refs :
             d \in done \/ (i < n /\ d = t[i + 1].path)
    BY <2>1 DEF Accounted, n
  <2>3. i + 1 = n \/ (i < Len(u) /\ u[i + 1] = t[i + 1])
    BY <1>1, <1>2
  <2> QED BY <2>1, <2>2, <2>3
<1>7. p \in Paths(t) /\ G[p] \subseteq done
  BY <1>1 DEF Paths, Accounted, n
<1> QED BY <1>2, <1>4, <1>5, <1>6, <1>7 DEF u, n

(* An item is appended after all that it depends on.                       *)
LEMMA AppendOrder ==
  ASSUME NEW G \in Graphs, NEW s \in Seq(Aggregate), IsOrder(s, G),
         NEW p \in Aggregate, p \notin Range(s), G[p] \subseteq Range(s)
  PROVE  /\ Append(s, p) \in Seq(Aggregate) /\ IsOrder(Append(s, p), G)
         /\ Range(Append(s, p)) = Range(s) \cup {p}
<1> DEFINE u == Append(s, p)
           n == Len(s)
<1>1. /\ n \in Nat /\ DOMAIN s = 1 .. n
      /\ u \in Seq(Aggregate) /\ DOMAIN u = 1 .. n + 1 /\ u[n + 1] = p
      /\ \A i \in 1 .. n : u[i] = s[i]
  OBVIOUS
<1> HIDE DEF u, n
<1>2. DOMAIN u = DOMAIN s \cup {n + 1}
  BY <1>1
<1>3. Range(u) = Range(s) \cup {p}
  BY <1>1, <1>2 DEF Range
<1>4. IsInjective(u)
  BY <1>1, <1>2 DEF IsOrder, IsInjective, Range
<1>5. ASSUME NEW i \in DOMAIN u, NEW d \in G[u[i]]
      PROVE  \E j \in 1 .. i - 1 : u[j] = d
  <2>1. CASE i = n + 1
    <3>1. PICK j \in DOMAIN s : s[j] = d
      BY <1>1, <1>5, <2>1 DEF Range
    <3> QED BY <1>1, <2>1, <3>1
  <2>2. CASE i \in DOMAIN s
    <3>1. PICK j \in 1 .. i - 1 : s[j] = d
      BY <1>1, <1>5, <2>2 DEF IsOrder
    <3>2. j \in 1 .. n
      BY <1>1, <2>2
    <3> QED BY <1>1, <3>1, <3>2
  <2> QED BY <1>2, <2>1, <2>2
<1> QED BY <1>1, <1>3, <1>4, <1>5 DEF IsOrder, u

-----------------------------------------------------------------------------
(* The search, action by action.                                           *)

SearchTypes ==
  /\ keys \subseteq Aggregate /\ stack \in Seq(Frame)
  /\ visited \subseteq Aggregate /\ parents \subseteq visited
  /\ sorted \in Seq(Aggregate)

Search == SearchTypes /\ SearchInv /\ OrderInv

LEMMA SearchStays ==
  ASSUME Search, UNCHANGED <<dependencies, sortVars>>
  PROVE  Search'
<1>1. /\ UNCHANGED <<keys, stack, visited, parents, sorted>>
      /\ Graph' = Graph
  BY DEF sortVars, Graph, References
<1> QED BY <1>1 DEF Search, SearchTypes, SearchInv, OrderInv

LEMMA ResolveSearch ==
  ASSUME Search, stack = <<>>, sorted = <<>>, UNCHANGED sortVars
  PROVE  Search'
<1>1. UNCHANGED <<keys, stack, visited, parents, sorted>>
  BY DEF sortVars
<1>2. DOMAIN stack = {} /\ DOMAIN sorted = {}
  OBVIOUS
<1> QED BY <1>1, <1>2 DEF Search, SearchTypes, SearchInv, OrderInv, IsWalk,
        Accounted, IsOrder, IsInjective

LEMMA VisitSeenSearch ==
  ASSUME Search, NEW path \in Aggregate, VisitSeen(path)
  PROVE  Search'
<1>1. /\ path \notin parents /\ path \in visited /\ Consume(path)
      /\ UNCHANGED <<dependencies, visited, parents, sorted>>
  BY DEF VisitSeen
<1>2. Graph' = Graph /\ Graph \in Graphs
  BY <1>1, GraphType DEF Graph, References
<1>3. path \in Range(sorted)
  BY <1>1 DEF Search, SearchInv
<1>4. CASE stack = <<>>
  <2>1. keys' = keys \ {path} /\ stack' = stack
    BY <1>1, <1>4 DEF Consume
  <2> QED BY <1>1, <1>2, <2>1
          DEF Search, SearchTypes, SearchInv, OrderInv
<1>5. CASE stack # <<>>
  <2>1. /\ stack' = [stack EXCEPT ![Len(stack)].refs = @ \ {path}]
        /\ keys' = keys
    BY <1>1, <1>5 DEF Consume
  <2>2. stack \in Seq(Frame)
    BY DEF Search, SearchTypes
  <2>3. IsTaken(stack, stack', path)
    BY <1>5, <2>1, <2>2, TakeFacts
  <2>4. /\ IsWalk(stack', Graph) /\ Accounted(stack', Graph, Range(sorted))
        /\ Paths(stack') = Paths(stack)
    BY <1>2, <1>3, <1>5, <2>2, <2>3, TakeKeeps DEF Search, SearchInv
  <2>5. stack' \in Seq(Frame)
    BY <2>3 DEF IsTaken
  <2> QED BY <1>1, <1>2, <2>1, <2>4, <2>5
          DEF Search, SearchTypes, SearchInv, OrderInv
<1> QED BY <1>4, <1>5

LEMMA VisitNewSearch ==
  ASSUME Search, NEW path \in Aggregate, VisitNew(path)
  PROVE  Search'
<1> DEFINE frame == [path |-> path, refs |-> References(path)]
           s == [stack EXCEPT ![Len(stack)].refs = @ \ {path}]
<1>1. /\ path \notin parents /\ path \notin visited /\ path \in ToVisit
      /\ visited' = visited \cup {path} /\ parents' = parents \cup {path}
      /\ UNCHANGED <<dependencies, sorted>>
  BY DEF VisitNew, Visiting
<1>2. Graph' = Graph /\ Graph \in Graphs
  BY <1>1, GraphType DEF Graph, References
<1>3. frame \in Frame /\ frame.path = path /\ frame.refs = Graph[path]
  BY GraphType DEF Frame, References
<1>4. /\ parents = Paths(stack) /\ stack \in Seq(Frame)
      /\ Range(sorted) = visited \ parents
      /\ IsWalk(stack, Graph) /\ Accounted(stack, Graph, Range(sorted))
  BY DEF Search, SearchInv, SearchTypes
<1>5. Range(sorted)' = visited' \ parents'
  BY <1>1, <1>4
<1>6. CASE stack = <<>>
  <2>1. keys' = keys \ {path} /\ stack' = <<frame>>
    BY <1>6 DEF VisitNew
  <2>2. path \in keys
    BY <1>1, <1>6 DEF ToVisit
  <2> HIDE DEF frame, s
  <2>3. /\ stack' \in Seq(Frame) /\ DOMAIN stack' = {1} /\ Len(stack') = 1
        /\ stack'[1] = frame
    BY <1>3, <2>1
  <2>4. parents' = Paths(stack')
    BY <1>1, <1>3, <1>4, <1>6, <2>3 DEF Paths
  <2>5. IsWalk(stack', Graph) /\ Accounted(stack', Graph, Range(sorted))
    BY <1>3, <2>3 DEF IsWalk, Accounted
  <2>6. SearchInv'
    <3>1. keys' \cup visited' = Aggregate
      BY <1>1, <2>1, <2>2 DEF Search, SearchInv
    <3> QED BY <1>1, <1>2, <1>5, <2>4, <2>5, <3>1 DEF SearchInv
  <2>7. SearchTypes'
    BY <1>1, <2>1, <2>3 DEF Search, SearchTypes
  <2>8. OrderInv'
    BY <1>1, <1>2 DEF Search, OrderInv
  <2> QED BY <2>6, <2>7, <2>8 DEF Search
<1>7. CASE stack # <<>>
  <2>1. stack' = Append(s, frame) /\ keys' = keys
    BY <1>7 DEF VisitNew
  <2>2. path \in stack[Len(stack)].refs /\ path \notin Paths(stack)
    BY <1>1, <1>4, <1>7 DEF ToVisit, Top
  <2>3. IsTaken(stack, s, path)
    BY <1>4, <1>7, TakeFacts
  <2> HIDE DEF s, frame
  <2>4. /\ IsWalk(stack', Graph) /\ Accounted(stack', Graph, Range(sorted))
        /\ Paths(stack') = Paths(stack) \cup {path}
    BY <1>2, <1>3, <1>4, <1>7, <2>1, <2>2, <2>3, PushKeeps
  <2>5. stack' \in Seq(Frame)
    BY <1>3, <2>1, <2>3, PushFacts DEF IsTaken
  <2> QED BY <1>1, <1>2, <1>4, <1>5, <2>1, <2>4, <2>5
          DEF Search, SearchTypes, SearchInv, OrderInv
<1> QED BY <1>6, <1>7

LEMMA ReturnSearch ==
  ASSUME Search, Return
  PROVE  Search'
<1> DEFINE p == stack[Len(stack)].path
<1>1. /\ stack # <<>> /\ stack[Len(stack)].refs = {}
      /\ sorted' = Append(sorted, p) /\ parents' = parents \ {p}
      /\ stack' = Front(stack)
      /\ UNCHANGED <<dependencies, keys, visited>>
  BY DEF Return, Top, SortedAfter, ParentsLeft
<1>2. Graph' = Graph /\ Graph \in Graphs
  BY <1>1, GraphType DEF Graph, References
<1>3. /\ parents = Paths(stack) /\ stack \in Seq(Frame)
      /\ Range(sorted) = visited \ parents /\ parents \subseteq visited
      /\ IsWalk(stack, Graph) /\ Accounted(stack, Graph, Range(sorted))
      /\ sorted \in Seq(Aggregate) /\ IsOrder(sorted, Graph)
      /\ visited \subseteq Aggregate
  BY DEF Search, SearchInv, SearchTypes, OrderInv
<1> HIDE DEF p
<1>4. /\ stack' \in Seq(Frame) /\ Paths(stack') = parents'
      /\ IsWalk(stack', Graph)
      /\ Accounted(stack', Graph, Range(sorted) \cup {p})
      /\ p \in parents /\ Graph[p] \subseteq Range(sorted)
  BY <1>1, <1>2, <1>3, PopKeeps DEF p
<1>5. p \in Aggregate /\ p \notin Range(sorted)
  BY <1>3, <1>4
<1>6. /\ sorted' \in Seq(Aggregate) /\ IsOrder(sorted', Graph)
      /\ Range(sorted') = Range(sorted) \cup {p}
  BY <1>1, <1>2, <1>3, <1>4, <1>5, AppendOrder
<1>7. Range(sorted') = visited' \ parents' /\ parents' \subseteq visited'
  BY <1>1, <1>3, <1>4, <1>6
<1> QED BY <1>1, <1>2, <1>4, <1>6, <1>7, <1>3
        DEF Search, SearchTypes, SearchInv, OrderInv

LEMMA InitSearch ==
  ASSUME Init
  PROVE  Search
<1>1. /\ keys = Aggregate /\ stack = <<>> /\ visited = {} /\ parents = {}
      /\ sorted = <<>>
  BY DEF Init
<1>2. DOMAIN stack = {} /\ DOMAIN sorted = {} /\ stack \in Seq(Frame)
      /\ sorted \in Seq(Aggregate)
  BY <1>1
<1>3. Range(sorted) = {} /\ Paths(stack) = {}
  BY <1>2 DEF Range, Paths
<1>4. IsWalk(stack, Graph) /\ Accounted(stack, Graph, Range(sorted))
  BY <1>2 DEF IsWalk, Accounted
<1>5. IsOrder(sorted, Graph)
  BY <1>2 DEF IsOrder, IsInjective
<1> QED BY <1>1, <1>2, <1>3, <1>4, <1>5
        DEF Search, SearchTypes, SearchInv, OrderInv

-----------------------------------------------------------------------------
(* The order of printing.                                                  *)

LEMMA ReferencesType ==
  \A n : References(n) \subseteq Aggregate /\ n \notin References(n)
  BY DEF References

LEMMA SearchFromIInv ==
  ASSUME IInv
  PROVE  Search
  BY DEF IInv, TypeOK, Search, SearchTypes

LEMMA CycleFacts ==
  ASSUME IInv, cycle # <<>>
  PROVE  /\ cycle \in Seq(Aggregate) /\ Len(cycle) = 2 /\ cycle[1] # cycle[2]
         /\ cycle[1] \in Aggregate /\ cycle[2] \in Aggregate
         /\ cycle[1] \in References(cycle[2])
<1>1. cycle \in Aggregate \X Aggregate
  BY DEF IInv, TypeOK
<1>2. /\ stack \in Seq(Frame) /\ stack # <<>> /\ cycle[2] = Top.path
      /\ cycle[1] \in Top.refs
  BY DEF IInv, TypeOK, CycleInv
<1>3. Len(stack) \in DOMAIN stack /\ Top = stack[Len(stack)]
  BY <1>2, FrameTypes DEF Top
<1>4. Top.refs \subseteq References(Top.path)
  <2>1. Top.path \in Aggregate
    BY <1>2, <1>3, FrameTypes
  <2>2. Top.refs \subseteq Graph[Top.path]
    BY <1>3 DEF IInv, SearchInv, Accounted
  <2> QED BY <2>1, <2>2, GraphType
<1>5. PICK a \in Aggregate, b \in Aggregate : cycle = <<a, b>>
  BY <1>1
<1>6. /\ cycle \in Seq(Aggregate) /\ Len(cycle) = 2
      /\ cycle[1] \in Aggregate /\ cycle[2] \in Aggregate
  BY <1>5
<1>7. cycle[1] \in References(cycle[2]) /\ cycle[1] # cycle[2]
  BY <1>2, <1>4, ReferencesType
<1> QED BY <1>6, <1>7

LEMMA SortedFacts ==
  ASSUME IInv, stack = <<>>, keys = {}
  PROVE  Range(sorted) = Aggregate
<1>1. Paths(stack) = {}
  BY DEF Paths
<1> QED BY <1>1 DEF IInv, SearchInv

LEMMA OrderFacts ==
  ASSUME IInv, Printing
  PROVE  /\ Order \in Seq(Aggregate) /\ IsInjective(Order)
         /\ Range(Order) = Aggregate
<1>1. CASE cycle = <<>>
  <2>1. stack = <<>> /\ keys = {}
    BY <1>1 DEF IInv, StageInv, Printing
  <2> QED BY <1>1, <2>1, SortedFacts
          DEF Order, IInv, TypeOK, OrderInv, IsOrder
<1>2. CASE cycle # <<>>
  <2> DEFINE R == Remaining(cycle[1], cycle[2])
             s == Ascending(R)
  <2>1. /\ cycle \in Seq(Aggregate) /\ Len(cycle) = 2 /\ cycle[1] # cycle[2]
        /\ cycle[1] \in Aggregate /\ cycle[2] \in Aggregate
    BY <1>2, CycleFacts
  <2>2. R \subseteq Job /\ R = Aggregate \ {cycle[1], cycle[2]}
    BY JobFacts DEF Remaining
  <2>3. s \in Seq(R) /\ DOMAIN s = 1 .. Len(s) /\ Range(s) = R /\ IsInjective(s)
    BY <2>2, AscendingOf
  <2>4. Order = cycle \o s
    BY <1>2 DEF Order
  <2> HIDE DEF R, s
  <2>5. s \in Seq(Aggregate) /\ Len(s) \in Nat
    <3>1. \A i \in 1 .. Len(s) : s[i] \in Aggregate
      BY <2>2, <2>3 DEF Range
    <3> QED BY <2>3, <3>1
  <2>6. /\ Order \in Seq(Aggregate) /\ Len(Order) = 2 + Len(s)
        /\ DOMAIN Order = 1 .. 2 + Len(s)
        /\ Order[1] = cycle[1] /\ Order[2] = cycle[2]
        /\ \A i \in 3 .. 2 + Len(s) : Order[i] = s[i - 2]
    <3>1. /\ cycle \o s \in Seq(Aggregate) /\ Len(cycle \o s) = 2 + Len(s)
          /\ \A i \in 1 .. 2 + Len(s) :
               (cycle \o s)[i] = IF i <= 2 THEN cycle[i] ELSE s[i - 2]
      <4>1. /\ cycle \o s \in Seq(Aggregate)
            /\ Len(cycle \o s) = Len(cycle) + Len(s)
            /\ \A i \in 1 .. Len(cycle) + Len(s) :
                 (cycle \o s)[i] = IF i <= Len(cycle) THEN cycle[i]
                                                     ELSE s[i - Len(cycle)]
        BY <2>1, <2>5, ConcatProperties, Zenon
      <4> QED BY <2>1, <4>1
    <3> QED BY <2>4, <2>5, <3>1
  <2>7. \A i \in 3 .. 2 + Len(s) : /\ i - 2 \in DOMAIN s
                                   /\ Order[i] # cycle[1] /\ Order[i] # cycle[2]
    <3> SUFFICES ASSUME NEW i \in 3 .. 2 + Len(s)
                 PROVE  /\ i - 2 \in DOMAIN s
                        /\ Order[i] # cycle[1] /\ Order[i] # cycle[2]
      OBVIOUS
    <3>1. i - 2 \in DOMAIN s
      BY <2>3, <2>5
    <3> QED BY <2>2, <2>3, <2>6, <3>1 DEF Range
  <2>8. IsInjective(Order)
    <3> SUFFICES ASSUME NEW i \in 1 .. 2 + Len(s), NEW j \in 1 .. 2 + Len(s),
                        Order[i] = Order[j]
                 PROVE  i = j
      BY <2>6 DEF IsInjective
    <3>1. CASE i \in 3 .. 2 + Len(s) /\ j \in 3 .. 2 + Len(s)
      <4>1. s[i - 2] = s[j - 2]
        BY <2>6, <3>1
      <4>2. i - 2 = j - 2
        BY <2>3, <2>7, <3>1, <4>1 DEF IsInjective
      <4> QED BY <4>2
    <3>2. CASE i \in {1, 2} /\ j \in {1, 2}
      BY <2>1, <2>6, <3>2
    <3>3. CASE i \in {1, 2} /\ j \in 3 .. 2 + Len(s)
      BY <2>6, <2>7, <3>3
    <3>4. CASE j \in {1, 2} /\ i \in 3 .. 2 + Len(s)
      BY <2>6, <2>7, <3>4
    <3>5. i \in {1, 2} \cup 3 .. 2 + Len(s) /\ j \in {1, 2} \cup 3 .. 2 + Len(s)
      BY <2>5
    <3> QED BY <3>1, <3>2, <3>3, <3>4, <3>5
  <2>9. Range(Order) = Aggregate
    <3>1. Range(Order) \subseteq Aggregate
      BY <2>6 DEF Range
    <3>2. ASSUME NEW a \in Aggregate
          PROVE  a \in Range(Order)
      <4>1. CASE a \in {cycle[1], cycle[2]}
        BY <2>5, <2>6, <4>1 DEF Range
      <4>2. CASE a \in R
        <5>1. PICK i \in DOMAIN s : s[i] = a
          BY <2>3, <4>2 DEF Range
        <5>2. i + 2 \in 3 .. 2 + Len(s) /\ (i + 2) - 2 = i
          BY <2>3, <2>5
        <5>3. Order[i + 2] = a
          BY <2>6, <5>1, <5>2
        <5>4. i + 2 \in DOMAIN Order
          BY <2>5, <2>6, <5>2
        <5> QED BY <5>3, <5>4 DEF Range
      <4> QED BY <2>2, <4>1, <4>2
    <3> QED BY <3>1, <3>2
  <2> QED BY <2>6, <2>8, <2>9
<1> QED BY <1>1, <1>2

-----------------------------------------------------------------------------
(* A line is printed.                                                      *)

LineType == [attr : Aggregate, drvPath : DrvPath, constituents : Seq(DrvPath),
             error : ErrorText]

LEMMA AppendLine ==
  ASSUME NEW o \in Seq(LineType), NEW l \in LineType
  PROVE  /\ Append(o, l) \in Seq(LineType) /\ Len(Append(o, l)) = Len(o) + 1
         /\ DOMAIN Append(o, l) = DOMAIN o \cup {Len(o) + 1}
         /\ Append(o, l)[Len(o) + 1] = l
         /\ \A i \in DOMAIN o : Append(o, l)[i] = o[i]
         /\ Len(o) \in Nat /\ DOMAIN o = 1 .. Len(o)
  OBVIOUS

(* The next of the queue is printed, and was not printed before.           *)
PrintsNext(n, l) ==
  /\ pc \in {"rewrite", "cycle"} /\ (pc = "cycle" => output # <<>>)
  /\ rest # <<>> /\ n = Head(rest) /\ rest' = Tail(rest)
  /\ l \in LineType /\ l.attr = n /\ output' = Append(output, l)
  /\ UNCHANGED <<input, pc, dependencies, brokenJobs, sortVars, cycle>>

LEMMA NextInQueue ==
  ASSUME IInv, NEW n, NEW l, PrintsNext(n, l)
  PROVE  /\ output \in Seq(LineType) /\ n \in Aggregate
         /\ DOMAIN output = 1 .. Len(output)
         /\ \A i \in DOMAIN output : output[i].attr # n
         /\ \A d \in References(n) : \E i \in DOMAIN output :
              pc = "rewrite" => output[i].attr = d
<1>1. Printing
  BY DEF PrintsNext, Printing
<1>2. /\ Order \in Seq(Aggregate) /\ IsInjective(Order)
      /\ Range(Order) = Aggregate
  BY <1>1, OrderFacts
<1>3. /\ output \in Seq(LineType) /\ rest \in Seq(Aggregate) /\ rest # <<>>
      /\ pc \in {"rewrite", "cycle"} /\ n = rest[1]
  BY DEF IInv, TypeOK, LineType, PrintsNext
<1>4. /\ Len(output) + Len(rest) = Len(Order)
      /\ \A i \in DOMAIN output : output[i].attr = Order[i]
      /\ \A i \in DOMAIN rest : rest[i] = Order[Len(output) + i]
  BY <1>1, <1>3 DEF IInv, QueueInv, StageInv, PrintsNext
<1>5. /\ Len(output) \in Nat /\ DOMAIN output = 1 .. Len(output)
      /\ Len(rest) \in Nat /\ Len(rest) >= 1 /\ DOMAIN rest = 1 .. Len(rest)
      /\ Len(Order) \in Nat /\ DOMAIN Order = 1 .. Len(Order)
  BY <1>2, <1>3
<1>6. n = Order[Len(output) + 1] /\ Len(output) + 1 \in DOMAIN Order
  BY <1>3, <1>4, <1>5
<1>7. n \in Aggregate
  BY <1>2, <1>6
<1>8. \A i \in DOMAIN output : output[i].attr # n
  <2> SUFFICES ASSUME NEW i \in DOMAIN output PROVE output[i].attr # n
    OBVIOUS
  <2>1. i \in DOMAIN Order /\ i # Len(output) + 1
    BY <1>4, <1>5
  <2> QED BY <1>2, <1>4, <1>6, <2>1 DEF IsInjective
<1>9. ASSUME pc = "rewrite", NEW d \in References(n)
      PROVE  \E i \in DOMAIN output : output[i].attr = d
  <2>1. Order = sorted
    BY <1>9 DEF IInv, StageInv, Order
  <2>2. Graph[n] = References(n)
    BY <1>7, GraphType
  <2>3. PICK j \in 1 .. (Len(output) + 1) - 1 : Order[j] = d
    BY <1>6, <1>9, <2>1, <2>2 DEF IInv, OrderInv, IsOrder
  <2>4. j \in DOMAIN output
    BY <1>5, <2>3
  <2> QED BY <1>4, <2>3, <2>4
<1>10. CASE pc = "cycle"
  <2>1. 1 \in DOMAIN output
    BY <1>5, <1>10, <1>3, EmptySeq DEF PrintsNext
  <2> QED BY <1>3, <1>5, <1>7, <1>8, <1>10, <2>1
<1> QED BY <1>3, <1>5, <1>7, <1>8, <1>9, <1>10

LEMMA NextKeepsQueue ==
  ASSUME IInv, NEW n, NEW l, PrintsNext(n, l)
  PROVE  QueueInv' /\ rest' \in Seq(Aggregate)
<1>1. Printing /\ Order' = Order
  BY DEF PrintsNext, Printing, Order, sortVars
<1>2. /\ Order \in Seq(Aggregate) /\ output \in Seq(LineType)
      /\ rest \in Seq(Aggregate) /\ rest # <<>> /\ rest' = Tail(rest)
      /\ n = rest[1] /\ l \in LineType /\ l.attr = n
      /\ output' = Append(output, l) /\ pc' = pc /\ pc # "done"
  <2>1. Order \in Seq(Aggregate)
    BY <1>1, OrderFacts
  <2>2. output \in Seq(LineType) /\ rest \in Seq(Aggregate)
    BY DEF IInv, TypeOK, LineType
  <2> QED BY <2>1, <2>2 DEF PrintsNext
<1>3. /\ Len(output) + Len(rest) = Len(Order)
      /\ \A i \in DOMAIN output : output[i].attr = Order[i]
      /\ \A i \in DOMAIN rest : rest[i] = Order[Len(output) + i]
  BY <1>1 DEF IInv, QueueInv, StageInv, PrintsNext
<1>4. /\ Len(output) \in Nat /\ DOMAIN output = 1 .. Len(output)
      /\ Len(rest) \in Nat /\ Len(rest) >= 1 /\ DOMAIN rest = 1 .. Len(rest)
  BY <1>2
<1>5. /\ Len(output') = Len(output) + 1
      /\ DOMAIN output' = DOMAIN output \cup {Len(output) + 1}
      /\ output'[Len(output) + 1] = l
      /\ \A i \in DOMAIN output : output'[i] = output[i]
  BY <1>2, AppendLine
<1>6. /\ rest' \in Seq(Aggregate) /\ Len(rest') = Len(rest) - 1
      /\ DOMAIN rest' = 1 .. Len(rest) - 1
      /\ \A i \in 1 .. Len(rest) - 1 : rest'[i] = rest[i + 1]
  BY <1>2
<1>7. Len(output') + Len(rest') = Len(Order)
  <2>1. (Len(output) + 1) + (Len(rest) - 1) = Len(output) + Len(rest)
    BY <1>4
  <2> QED BY <1>3, <1>5, <1>6, <2>1
<1>8. \A i \in DOMAIN output' : output'[i].attr = Order[i]
  <2>1. l.attr = Order[Len(output) + 1]
    <3>1. 1 \in DOMAIN rest
      BY <1>4
    <3> QED BY <1>2, <1>3, <3>1
  <2> QED BY <1>3, <1>5, <2>1
<1>9. \A i \in DOMAIN rest' : rest'[i] = Order[Len(output') + i]
  <2> SUFFICES ASSUME NEW i \in 1 .. Len(rest) - 1
               PROVE  rest'[i] = Order[(Len(output) + 1) + i]
    BY <1>5, <1>6
  <2>1. i + 1 \in DOMAIN rest /\ Len(output) + (i + 1) = (Len(output) + 1) + i
    BY <1>4
  <2> QED BY <1>3, <1>6, <2>1
<1>10. output' # <<>>
  BY <1>4, <1>5
<1> QED BY <1>1, <1>2, <1>6, <1>7, <1>8, <1>9, <1>10 DEF QueueInv

-----------------------------------------------------------------------------
(* The records of the jobs, and what is printed of them.                   *)

RecordTypes ==
  /\ input \in [Aggregate -> Input]
  /\ drvPath \in [Job \ Failed -> DrvPath]
  /\ constituents \in [Aggregate -> Seq(DrvPath)]
  /\ roots \subseteq DrvPath /\ output \in Seq(LineType)

Records == RecordTypes /\ DrvInv /\ ListInv /\ OutputInv

LEMMA RecordsFromIInv ==
  ASSUME IInv
  PROVE  Records
  BY DEF IInv, TypeOK, Records, RecordTypes, LineType

LEMMA RecordsStay ==
  ASSUME Records, UNCHANGED <<input, jobVars>>,
         \/ UNCHANGED <<dependencies, brokenJobs, cycle>>
         \/ output = <<>>
  PROVE  Records'
<1>1. UNCHANGED <<input, drvPath, constituents, roots, output>>
  BY DEF jobVars
<1>2. CASE UNCHANGED <<dependencies, brokenJobs, cycle>>
  BY <1>1, <1>2 DEF Records, RecordTypes, DrvInv, ListInv, OutputInv
<1>3. CASE output = <<>>
  <2>1. DOMAIN output' = {}
    BY <1>1, <1>3
  <2> QED BY <1>1, <2>1 DEF Records, RecordTypes, DrvInv, ListInv, OutputInv
<1> QED BY <1>2, <1>3

LEMMA UnwrittenFacts ==
  ASSUME IInv, NEW n, NEW l, PrintsNext(n, l)
  PROVE  /\ n \in Aggregate /\ n \in Job \ Failed
         /\ drvPath[n] = Evaluated(n) /\ drvPath[n] \in roots
         /\ drvPath[n] \in DrvPath /\ constituents[n] \in Seq(DrvPath)
  BY NextInQueue, JobFacts DEF IInv, DrvInv, TypeOK

(* A line with an error leaves the records alone.                          *)
LEMMA ErrorKeepsRecords ==
  ASSUME IInv, NEW n, NEW error \in {"broken", "skipped"},
         PrintsNext(n, Line(n, drvPath[n], constituents[n], error)),
         UNCHANGED <<drvPath, constituents, roots>>
  PROVE  Records'
<1> DEFINE l == Line(n, drvPath[n], constituents[n], error)
           k == Len(output) + 1
<1>1. Records /\ n \in Aggregate /\ output \in Seq(LineType)
  BY RecordsFromIInv, NextInQueue
<1>2. /\ l \in LineType /\ output' = Append(output, l)
      /\ UNCHANGED <<input, dependencies, brokenJobs, cycle>>
  BY DEF PrintsNext
<1>3. /\ l.attr = n /\ l.drvPath = drvPath[n]
      /\ l.constituents = constituents[n] /\ l.error # "none"
  BY DEF Line
<1> HIDE DEF l
<1>4. /\ output' \in Seq(LineType) /\ DOMAIN output' = DOMAIN output \cup {k}
      /\ output'[k] = l /\ \A i \in DOMAIN output : output'[i] = output[i]
  BY <1>1, <1>2, AppendLine
<1> HIDE DEF k
<1>5. drvPath[n] = Evaluated(n)
  BY UnwrittenFacts
<1>6. RecordTypes'
  BY <1>1, <1>2, <1>4 DEF Records, RecordTypes
<1>7. DrvInv'
  BY <1>1, <1>3, <1>4 DEF Records, DrvInv
<1>8. ListInv'
  BY <1>1, <1>2 DEF Records, ListInv
<1>9. OutputInv'
  <2>1. \A i \in DOMAIN output :
          LET m == output[i].attr
          IN  /\ Range(output[i].constituents) \subseteq roots'
              /\ Evaluated(m) \in Range(output[i].constituents) =>
                   m \in input'[m].named
              /\ output[i].error = "none" =>
                   /\ cycle' = <<>> /\ brokenJobs'[m] = {}
                   /\ \A d \in dependencies'[m] \ {m} :
                        drvPath'[d] \in Range(output[i].constituents)
              /\ output[i].error # "none" => output[i].drvPath = Evaluated(m)
    BY <1>1, <1>2 DEF Records, OutputInv
  <2>2. /\ Range(l.constituents) \subseteq roots'
        /\ Evaluated(n) \in Range(l.constituents) => n \in input'[n].named
    BY <1>1, <1>2, <1>3 DEF Records, ListInv
  <2> QED BY <1>3, <1>4, <1>5, <2>1, <2>2 DEF OutputInv
<1> QED BY <1>6, <1>7, <1>8, <1>9 DEF Records

(* What addConstituents appends.                                           *)
LEMMA AddedFacts ==
  ASSUME IInv, NEW n \in Aggregate
  PROVE  /\ Added(n) \in Seq(DrvPath)
         /\ Range(Added(n)) = {drvPath[d] : d \in dependencies[n]}
<1> DEFINE S == dependencies[n]
           s == Ascending(S)
<1>1. /\ S \subseteq Job \ Failed /\ S \subseteq Job
      /\ drvPath \in [Job \ Failed -> DrvPath]
  BY JobFacts DEF IInv, TypeOK
<1>2. s \in Seq(S) /\ DOMAIN s = 1 .. Len(s) /\ Range(s) = S
  BY <1>1, AscendingOf
<1>3. Added(n) = [i \in DOMAIN s |-> drvPath[s[i]]]
  BY DEF Added
<1> HIDE DEF S, s
<1>4. \A i \in DOMAIN s : s[i] \in S
  BY <1>2 DEF Range
<1>5. Len(s) \in Nat
  BY <1>2
<1>6. Added(n) \in [1 .. Len(s) -> DrvPath]
  BY <1>1, <1>2, <1>3, <1>4
<1>7. Range(Added(n)) = {drvPath[d] : d \in S}
  BY <1>2, <1>3, <1>4 DEF Range
<1> QED BY <1>5, <1>6, <1>7 DEF S

LEMMA RangeOfConcat ==
  ASSUME NEW s \in Seq(DrvPath), NEW u \in Seq(DrvPath)
  PROVE  s \o u \in Seq(DrvPath) /\ Range(s \o u) = Range(s) \cup Range(u)
<1> DEFINE c == s \o u
<1>1. /\ c \in Seq(DrvPath) /\ Len(c) = Len(s) + Len(u)
      /\ \A i \in 1 .. Len(s) + Len(u) :
           c[i] = IF i <= Len(s) THEN s[i] ELSE u[i - Len(s)]
  BY ConcatProperties, Zenon
<1>2. /\ DOMAIN c = 1 .. Len(s) + Len(u) /\ Len(s) \in Nat /\ Len(u) \in Nat
      /\ DOMAIN s = 1 .. Len(s) /\ DOMAIN u = 1 .. Len(u)
  BY <1>1
<1> HIDE DEF c
<1>3. ASSUME NEW i \in DOMAIN c
      PROVE  c[i] \in Range(s) \cup Range(u)
  <2>1. i <= Len(s) => i \in DOMAIN s /\ c[i] = s[i]
    BY <1>1, <1>2
  <2>2. ~(i <= Len(s)) => i - Len(s) \in DOMAIN u /\ c[i] = u[i - Len(s)]
    BY <1>1, <1>2
  <2> QED BY <2>1, <2>2 DEF Range
<1>4. ASSUME NEW i \in DOMAIN s
      PROVE  s[i] \in Range(c)
  <2>1. i \in DOMAIN c /\ c[i] = s[i]
    BY <1>1, <1>2
  <2> QED BY <2>1 DEF Range
<1>5. ASSUME NEW i \in DOMAIN u
      PROVE  u[i] \in Range(c)
  <2>1. /\ i + Len(s) \in DOMAIN c /\ ~(i + Len(s) <= Len(s))
        /\ (i + Len(s)) - Len(s) = i
    BY <1>2
  <2>2. c[i + Len(s)] = u[i]
    BY <1>1, <1>2, <2>1
  <2> QED BY <2>1, <2>2 DEF Range
<1> QED BY <1>1, <1>3, <1>4, <1>5 DEF Range, c

(* What a printed aggregate depends on was printed before it.              *)
LEMMA PrintedBefore ==
  ASSUME IInv, pc \in {"rewrite", "done"}, cycle = <<>>, NEW i \in DOMAIN output
  PROVE  \A d \in References(output[i].attr) :
           \E j \in DOMAIN output : output[j].attr = d
<1>1. Order = sorted /\ Printing
  BY DEF Order, Printing
<1>2. /\ output \in Seq(LineType) /\ sorted \in Seq(Aggregate)
      /\ rest \in Seq(Aggregate)
  BY DEF IInv, TypeOK, LineType
<1>3. /\ Len(output) + Len(rest) = Len(sorted)
      /\ \A j \in DOMAIN output : output[j].attr = sorted[j]
  BY <1>1 DEF IInv, QueueInv
<1>4. /\ Len(output) \in Nat /\ DOMAIN output = 1 .. Len(output)
      /\ Len(rest) \in Nat /\ DOMAIN sorted = 1 .. Len(sorted)
  BY <1>2
<1>5. i \in DOMAIN sorted /\ sorted[i] \in Aggregate
  BY <1>2, <1>3, <1>4
<1>6. \A d \in References(sorted[i]) : \E j \in 1 .. i - 1 : sorted[j] = d
  BY <1>5, GraphType DEF IInv, OrderInv, IsOrder
<1>7. \A j \in 1 .. i - 1 : j \in DOMAIN output
  BY <1>4
<1> QED BY <1>3, <1>6, <1>7

(* An aggregate names itself, if it depends on itself.                     *)
LEMMA OwnDependency ==
  ASSUME IInv, pc # "resolve", NEW n \in Aggregate, n \in dependencies[n]
  PROVE  n \in input[n].named
<1>1. n \in Selected(n)
  BY DEF IInv, StageInv, Results
<1> QED BY <1>1 DEF Selected, Expand

(* Rewriting an aggregate: what it depends on is final.                    *)
LEMMA RewritePrints ==
  ASSUME IInv, NEW n, Rewrite(n)
  PROVE  /\ PrintsNext(n, Line(n, NewDrvPath(n), constituents[n] \o Added(n),
                               "none"))
         /\ NewDrvPath(n) \in DrvPath /\ NewDrvPath(n).job = n
         /\ constituents[n] \o Added(n) \in Seq(DrvPath)
<1>1. rest \in Seq(Aggregate) /\ rest # <<>> /\ n = Head(rest)
  BY DEF Rewrite, IInv, TypeOK
<1>2. n \in Aggregate
  BY <1>1
<1>3. /\ constituents[n] \in Seq(DrvPath) /\ drvPath[n] \in DrvPath
      /\ drvPath[n].job = n /\ n \in Job
  BY <1>2, JobFacts DEF IInv, TypeOK, DrvInv
<1>4. constituents[n] \o Added(n) \in Seq(DrvPath)
  BY <1>2, <1>3, AddedFacts, RangeOfConcat
<1>5. Rewritten(n) \in DrvPath /\ Rewritten(n).job = n
  BY <1>3 DEF Rewritten, DrvPath
<1>6. NewDrvPath(n) \in DrvPath /\ NewDrvPath(n).job = n
  BY <1>3, <1>5 DEF NewDrvPath
<1>7. /\ Line(n, NewDrvPath(n), constituents[n] \o Added(n), "none") \in LineType
      /\ Line(n, NewDrvPath(n), constituents[n] \o Added(n), "none").attr = n
  BY <1>2, <1>4, <1>6 DEF Line, LineType, ErrorText
<1> QED BY <1>4, <1>6, <1>7 DEF Rewrite, PrintsNext

LEMMA RewriteKeepsRecords ==
  ASSUME IInv, NEW n, Rewrite(n)
  PROVE  Records'
<1> DEFINE new == NewDrvPath(n)
           list == constituents[n] \o Added(n)
           l == Line(n, new, list, "none")
           k == Len(output) + 1
<1>1. PrintsNext(n, l) /\ new \in DrvPath /\ new.job = n /\ list \in Seq(DrvPath)
  BY RewritePrints
<1>2. /\ drvPath' = [drvPath EXCEPT ![n] = new]
      /\ constituents' = [constituents EXCEPT ![n] = list]
      /\ roots' = roots \cup {new} /\ brokenJobs[n] = {} /\ pc = "rewrite"
  BY DEF Rewrite, RootsWith
<1>3. /\ n \in Aggregate /\ output \in Seq(LineType)
      /\ \A i \in DOMAIN output : output[i].attr # n
      /\ \A d \in References(n) : \E i \in DOMAIN output : output[i].attr = d
  BY <1>1, <1>2, NextInQueue
<1>3a. \A i \in DOMAIN output : output[i].attr \in Aggregate
  <2>1. \A i \in DOMAIN output : output[i] \in LineType
    BY <1>3, ElementOfSeq
  <2> QED BY <2>1 DEF LineType
<1>4. Range(list) = Range(constituents[n]) \cup {drvPath[d] : d \in dependencies[n]}
  <2>1. constituents[n] \in Seq(DrvPath)
    BY <1>3 DEF IInv, TypeOK
  <2> QED BY <1>3, <2>1, AddedFacts, RangeOfConcat
<1>5. /\ l \in LineType /\ output' = Append(output, l) /\ l.attr = n
      /\ UNCHANGED <<input, dependencies, brokenJobs, cycle>>
  BY <1>1 DEF PrintsNext
<1>6. l.drvPath = new /\ l.constituents = list /\ l.error = "none"
  BY DEF Line
<1> HIDE DEF l, new, list
<1>7. /\ output' \in Seq(LineType) /\ DOMAIN output' = DOMAIN output \cup {k}
      /\ output'[k] = l /\ \A i \in DOMAIN output : output'[i] = output[i]
  BY <1>3, <1>5, AppendLine
<1> HIDE DEF k
<1>8. Records
  BY RecordsFromIInv
<1>9. /\ drvPath \in [Job \ Failed -> DrvPath]
      /\ constituents \in [Aggregate -> Seq(DrvPath)]
      /\ roots \subseteq DrvPath /\ n \in Job \ Failed
      /\ dependencies[n] \subseteq Job \ Failed
  BY <1>3, JobFacts DEF IInv, TypeOK
<1>10. /\ drvPath'[n] = new /\ constituents'[n] = list
       /\ \A m \in Job \ Failed : m # n => drvPath'[m] = drvPath[m]
       /\ \A m \in Aggregate : m # n => constituents'[m] = constituents[m]
  BY <1>2, <1>3, <1>9
<1>11. RecordTypes'
  BY <1>1, <1>2, <1>5, <1>7, <1>8, <1>9 DEF Records, RecordTypes
<1>12. \A m \in Job \ Failed : drvPath[m].job = m /\ drvPath[m] \in roots
  BY <1>8 DEF Records, DrvInv
<1>13. DrvInv'
  <2>1. \A m \in Job \ Failed : drvPath'[m].job = m /\ drvPath'[m] \in roots'
    BY <1>1, <1>2, <1>10, <1>12
  <2>2. \A m \in Aggregate : (\A i \in DOMAIN output' : output'[i].attr # m)
                               => drvPath'[m] = Evaluated(m)
    <3> SUFFICES ASSUME NEW m \in Aggregate,
                        \A i \in DOMAIN output' : output'[i].attr # m
                 PROVE  drvPath'[m] = Evaluated(m)
      OBVIOUS
    <3>1. m # n /\ \A i \in DOMAIN output : output[i].attr # m
      BY <1>5, <1>7
    <3> QED BY <1>8, <1>10, <3>1, JobFacts DEF Records, DrvInv
  <2>3. ASSUME NEW i \in DOMAIN output
        PROVE  output[i].drvPath = drvPath'[output[i].attr]
    <3>1. output[i].attr \in Job \ Failed
      BY <1>3a, JobFacts
    <3> QED BY <1>3, <1>8, <1>10, <3>1 DEF Records, DrvInv
  <2> QED BY <1>5, <1>6, <1>7, <1>10, <2>1, <2>2, <2>3 DEF DrvInv
<1>14. Range(list) \subseteq roots'
  BY <1>2, <1>3, <1>4, <1>8, <1>9, <1>12 DEF Records, ListInv
<1>15. Evaluated(n) \in Range(list) => n \in input[n].named
  <2>1. ASSUME NEW d \in dependencies[n], drvPath[d] = Evaluated(n)
        PROVE  n \in input[n].named
    <3>1. d = n
      BY <1>9, <1>12, <2>1 DEF Evaluated
    <3> QED BY <1>2, <1>3, <3>1, OwnDependency
  <2>2. Evaluated(n) \in Range(constituents[n]) => n \in input[n].named
    BY <1>3, <1>8 DEF Records, ListInv
  <2> QED BY <1>4, <2>1, <2>2
<1>16. ListInv'
  BY <1>2, <1>5, <1>8, <1>10, <1>14, <1>15 DEF Records, ListInv
<1>17. cycle = <<>>
  BY <1>2 DEF IInv, StageInv
<1>18. OutputInv'
  <2> SUFFICES ASSUME NEW i \in DOMAIN output'
               PROVE  LET m == output'[i].attr
                      IN  /\ Range(output'[i].constituents) \subseteq roots'
                          /\ Evaluated(m) \in Range(output'[i].constituents) =>
                               m \in input[m].named
                          /\ output'[i].error = "none" =>
                               /\ cycle = <<>> /\ brokenJobs[m] = {}
                               /\ \A d \in dependencies[m] \ {m} :
                                    drvPath'[d] \in Range(output'[i].constituents)
                          /\ output'[i].error # "none" =>
                               output'[i].drvPath = Evaluated(m)
    BY <1>5 DEF OutputInv
  <2>1. CASE i = k
    <3>1. \A d \in dependencies[n] \ {n} : drvPath'[d] \in Range(list)
      BY <1>4, <1>9, <1>10
    <3> QED BY <1>2, <1>5, <1>6, <1>7, <1>14, <1>15, <1>17, <2>1, <3>1
  <2>2. CASE i \in DOMAIN output
    <3> DEFINE m == output[i].attr
    <3>1. output'[i] = output[i] /\ m \in Aggregate /\ m # n
      BY <1>3, <1>7, <1>3a, <2>2
    <3>2. /\ Range(output[i].constituents) \subseteq roots
          /\ Evaluated(m) \in Range(output[i].constituents) => m \in input[m].named
          /\ output[i].error = "none" =>
               /\ cycle = <<>> /\ brokenJobs[m] = {}
               /\ \A d \in dependencies[m] \ {m} :
                    drvPath[d] \in Range(output[i].constituents)
          /\ output[i].error # "none" => output[i].drvPath = Evaluated(m)
      BY <1>8, <2>2 DEF Records, OutputInv
    <3>3. \A d \in dependencies[m] \ {m} : d # n
      <4> SUFFICES ASSUME n \in dependencies[m] \ {m}
                   PROVE  FALSE
        OBVIOUS
      <4>1. n \in References(m)
        BY <1>3 DEF References
      <4>2. \A d \in References(m) : \E j \in DOMAIN output : output[j].attr = d
        BY <1>2, <1>17, <2>2, PrintedBefore
      <4> QED BY <1>3, <4>1, <4>2
    <3>4. dependencies[m] \subseteq Job \ Failed
      BY <3>1 DEF IInv, TypeOK
    <3>5. \A d \in dependencies[m] \ {m} : drvPath'[d] = drvPath[d]
      BY <1>10, <3>3, <3>4
    <3> HIDE DEF m
    <3>6. roots \subseteq roots'
      BY <1>2
    <3> QED BY <3>1, <3>2, <3>5, <3>6 DEF m
  <2> QED BY <1>7, <2>1, <2>2
<1> QED BY <1>11, <1>13, <1>16, <1>18 DEF Records

LEMMA PrintCycleKeeps ==
  ASSUME IInv, PrintCycle
  PROVE  Records' /\ QueueInv'
<1> DEFINE c == [i \in 1 .. 2 |-> Line(cycle[i], drvPath[cycle[i]],
                                       constituents[cycle[i]], "cycle")]
<1>1. /\ pc = "cycle" /\ output = <<>> /\ output' = c /\ cycle # <<>>
      /\ UNCHANGED <<input, pc, dependencies, brokenJobs, sortVars, cycle, rest,
                     drvPath, constituents, roots>>
  BY DEF PrintCycle, IInv, StageInv
<1>2. Records
  BY RecordsFromIInv
<1>3. /\ Len(cycle) = 2 /\ cycle[1] # cycle[2]
      /\ cycle[1] \in Aggregate /\ cycle[2] \in Aggregate
  BY <1>1, CycleFacts
<1>4. \A i \in 1 .. 2 : cycle[i] \in Aggregate
  BY <1>3
<1>5. \A n \in Aggregate :
        /\ drvPath[n] = Evaluated(n) /\ drvPath[n] \in roots
        /\ drvPath[n] \in DrvPath /\ constituents[n] \in Seq(DrvPath)
  <2>1. \A n \in Aggregate :
          drvPath[n] \in DrvPath /\ constituents[n] \in Seq(DrvPath)
    BY <1>2, JobFacts DEF Records, RecordTypes
  <2>2. DOMAIN output = {}
    BY <1>1
  <2> QED BY <1>2, <2>1, <2>2, JobFacts DEF Records, DrvInv
<1>6. \A i \in 1 .. 2 :
        /\ c[i] \in LineType /\ c[i].attr = cycle[i]
        /\ c[i].drvPath = drvPath[cycle[i]]
        /\ c[i].constituents = constituents[cycle[i]] /\ c[i].error = "cycle"
  BY <1>4, <1>5 DEF Line, LineType, ErrorText
<1>7. DOMAIN c = 1 .. 2
  OBVIOUS
<1>8. c \in Seq(LineType) /\ Len(c) = 2
  <2>1. c \in [1 .. 2 -> LineType]
    BY <1>6
  <2> HIDE DEF c
  <2>2. c \in Seq(LineType)
    BY <2>1, SeqDef
  <2> QED BY <1>7, <2>2
<1> HIDE DEF c
<1>9. RecordTypes'
  BY <1>1, <1>2, <1>8 DEF Records, RecordTypes
<1>10. DrvInv' /\ ListInv'
  BY <1>1, <1>2, <1>4, <1>5, <1>6, <1>7 DEF Records, DrvInv, ListInv
<1>11. OutputInv'
  <2>1. \A n \in Aggregate :
          /\ Range(constituents[n]) \subseteq roots
          /\ Evaluated(n) \in Range(constituents[n]) => n \in input[n].named
    BY <1>2 DEF Records, ListInv
  <2> QED BY <1>1, <1>4, <1>5, <1>6, <1>7, <2>1 DEF OutputInv
<1>12. QueueInv'
  <2> DEFINE R == Remaining(cycle[1], cycle[2])
             s == Ascending(R)
  <2>1. rest = s /\ rest \in Seq(Aggregate) /\ cycle \in Seq(Aggregate)
    BY <1>1, CycleFacts DEF IInv, TypeOK, QueueInv, Printing
  <2>2. Order' = cycle \o s
    BY <1>1 DEF Order
  <2> HIDE DEF R, s
  <2>3. /\ Len(cycle \o rest) = Len(cycle) + Len(rest)
        /\ \A i \in 1 .. Len(cycle) + Len(rest) :
             (cycle \o rest)[i] = IF i <= Len(cycle) THEN cycle[i]
                                                     ELSE rest[i - Len(cycle)]
    BY <2>1, ConcatProperties, Zenon
  <2>4. Len(rest) \in Nat /\ DOMAIN rest = 1 .. Len(rest)
    BY <2>1
  <2>5. Len(Order') = 2 + Len(rest) /\ Order'[1] = cycle[1] /\ Order'[2] = cycle[2]
    BY <1>3, <2>1, <2>2, <2>3, <2>4
  <2>6. ASSUME NEW i \in DOMAIN rest
        PROVE  rest[i] = Order'[2 + i]
    <3>1. 2 + i \in 1 .. 2 + Len(rest) /\ ~(2 + i <= 2) /\ (2 + i) - 2 = i
      BY <2>4
    <3> QED BY <1>3, <2>1, <2>2, <2>3, <3>1
  <2>7. \A i \in 1 .. 2 : c[i].attr = Order'[i]
    BY <1>6, <2>5
  <2>8. output' # <<>>
    BY <1>1, <1>8
  <2> QED BY <1>1, <1>7, <1>8, <2>5, <2>6, <2>7, <2>8 DEF QueueInv
<1> QED BY <1>9, <1>10, <1>11, <1>12 DEF Records

-----------------------------------------------------------------------------
(* The invariant is inductive.                                             *)

(* What a step must still show, when the search and the records are known. *)
Rest == /\ pc \in {"resolve", "sort", "rewrite", "cycle", "done", "failed"}
        /\ dependencies \in [Aggregate -> SUBSET (Job \ Failed)]
        /\ brokenJobs \in [Aggregate -> SUBSET (Job \cup Pattern)]
        /\ rest \in Seq(Aggregate)
        /\ cycle = <<>> \/ cycle \in Aggregate \X Aggregate
        /\ StageInv /\ QueueInv /\ CycleInv

LEMMA IInvParts ==
  /\ Search /\ Records /\ Rest => IInv
  /\ Search' /\ Records' /\ Rest' => IInv'
  BY DEF IInv, TypeOK, Search, SearchTypes, Records, RecordTypes, Rest, LineType

(* Before anything is printed, or with nothing of it changed.              *)
LEMMA QueueStays ==
  ASSUME IInv, UNCHANGED <<output, rest, cycle, sorted>>,
         ~Printing' \/ (Printing /\ (pc' = "done" => rest = <<>> /\ (cycle # <<>> => output # <<>>)))
  PROVE  QueueInv'
<1>1. Order' = Order
  BY DEF Order
<1>2. CASE ~Printing'
  BY <1>2 DEF QueueInv
<1>3. CASE Printing /\ (pc' = "done" => rest = <<>> /\ (cycle # <<>> => output # <<>>))
  BY <1>1, <1>3 DEF IInv, QueueInv
<1> QED BY <1>2, <1>3

LEMMA ResolveKeeps ==
  ASSUME IInv, Resolve
  PROVE  IInv'
<1>1. /\ pc = "resolve" /\ pc' = "sort" /\ UNCHANGED <<input, cycle, rest>>
      /\ UNCHANGED sortVars /\ UNCHANGED jobVars
      /\ dependencies' = [n \in Aggregate |-> Results(n)]
      /\ brokenJobs' = [n \in Aggregate |-> Broken(n)]
      /\ stack = <<>> /\ sorted = <<>> /\ cycle = <<>> /\ output = <<>>
      /\ output' = output
  BY DEF Resolve, IInv, StageInv, jobVars
<1>2. Search' /\ Records'
  BY <1>1, SearchFromIInv, RecordsFromIInv, ResolveSearch, RecordsStay
<1>3. \A n \in Aggregate : /\ Results(n) \subseteq Job \ Failed
                           /\ Broken(n) \subseteq Job \cup Pattern
  BY ResultsType DEF IInv
<1>4. \A n \in Aggregate : Results(n)' = Results(n) /\ Broken(n)' = Broken(n)
  BY <1>1 DEF Results, Broken, Selected, Unknown
<1>5. StageInv'
  BY <1>1, <1>4 DEF StageInv
<1>6. Rest'
  BY <1>1, <1>3, <1>5 DEF IInv, TypeOK, Rest, QueueInv, Printing, CycleInv
<1> QED BY <1>2, <1>6, IInvParts

(* The steps of the search.                                                *)
LEMMA SortKeeps ==
  ASSUME IInv, Search', pc = "sort",
         UNCHANGED <<input, pc, dependencies, brokenJobs, cycle, rest, jobVars>>
  PROVE  IInv'
<1>1. Records' /\ UNCHANGED output
  BY RecordsFromIInv, RecordsStay DEF jobVars
<1>2. cycle = <<>> /\ output = <<>>
  BY DEF IInv, StageInv
<1>3. StageInv'
  <2>1. \A n \in Aggregate : Results(n)' = Results(n) /\ Broken(n)' = Broken(n)
    BY DEF Results, Broken, Selected, Unknown
  <2> QED BY <1>1, <1>2, <2>1 DEF IInv, StageInv
<1>4. Rest'
  BY <1>2, <1>3 DEF IInv, TypeOK, Rest, QueueInv, Printing, CycleInv
<1> QED BY <1>1, <1>4, IInvParts

LEMMA VisitCycleKeeps ==
  ASSUME IInv, NEW path \in Aggregate, VisitCycle(path)
  PROVE  IInv'
<1> DEFINE R == Remaining(path, Top.path)
<1>1. /\ pc = "sort" /\ pc' = "cycle" /\ path \in ToVisit /\ path \in parents
      /\ cycle' = <<path, Top.path>> /\ rest' = Ascending(R)
      /\ UNCHANGED <<input, dependencies, brokenJobs, sortVars, jobVars>>
  BY DEF VisitCycle, Visiting
<1>2. /\ UNCHANGED <<stack, sorted, keys, visited, parents, output>>
      /\ cycle = <<>> /\ output = <<>> /\ parents = Paths(stack)
  BY <1>1 DEF IInv, StageInv, SearchInv, sortVars, jobVars
<1>3. stack # <<>> /\ path \in Top.refs /\ stack \in Seq(Frame)
  BY <1>1, <1>2 DEF ToVisit, Paths, IInv, TypeOK
<1>4. Top.path \in Aggregate
  BY <1>3, FrameTypes DEF Top
<1>5. Search' /\ Records'
  BY <1>1, <1>2, SearchFromIInv, RecordsFromIInv, SearchStays, RecordsStay
<1>6. rest' \in Seq(Aggregate)
  <2>1. R \subseteq Job /\ R \subseteq Aggregate
    BY JobFacts DEF Remaining
  <2> HIDE DEF R
  <2>2. rest' \in Seq(R)
    BY <1>1, <2>1, AscendingOf
  <2> QED BY <2>1, <2>2
<1>7. cycle'[1] = path /\ cycle'[2] = Top.path /\ cycle' # <<>>
      /\ cycle' \in Aggregate \X Aggregate
  BY <1>1, <1>4
<1>8. StageInv'
  <2>1. \A n \in Aggregate : Results(n)' = Results(n) /\ Broken(n)' = Broken(n)
    BY <1>1 DEF Results, Broken, Selected, Unknown
  <2> QED BY <1>1, <1>2, <1>7, <2>1 DEF IInv, StageInv
<1>9. QueueInv'
  BY <1>1, <1>2, <1>7 DEF QueueInv
<1>10. CycleInv'
  BY <1>1, <1>2, <1>3, <1>7 DEF CycleInv, Top
<1>11. Rest'
  BY <1>1, <1>6, <1>7, <1>8, <1>9, <1>10 DEF IInv, TypeOK, Rest
<1> QED BY <1>5, <1>11, IInvParts

LEMMA SortedKeeps ==
  ASSUME IInv, Sorted
  PROVE  IInv'
<1>1. /\ pc = "sort" /\ pc' = "rewrite" /\ stack = <<>> /\ keys = {}
      /\ rest' = sorted
      /\ UNCHANGED <<input, dependencies, brokenJobs, sortVars, cycle, jobVars>>
  BY DEF Sorted
<1>2. /\ UNCHANGED <<stack, sorted, keys, output>>
      /\ cycle = <<>> /\ output = <<>> /\ sorted \in Seq(Aggregate)
  BY <1>1 DEF IInv, TypeOK, StageInv, sortVars, jobVars
<1>3. Search' /\ Records'
  BY <1>1, SearchFromIInv, RecordsFromIInv, SearchStays, RecordsStay
<1>4. StageInv'
  <2>1. \A n \in Aggregate : Results(n)' = Results(n) /\ Broken(n)' = Broken(n)
    BY <1>1 DEF Results, Broken, Selected, Unknown
  <2> QED BY <1>1, <1>2, <2>1 DEF IInv, StageInv
<1>5. QueueInv'
  <2>1. /\ Order' = sorted /\ output' = <<>> /\ rest' = sorted
        /\ pc' = "rewrite" /\ cycle' = <<>>
    BY <1>1, <1>2 DEF Order
  <2>2. /\ Len(output') + Len(rest') = Len(Order') /\ DOMAIN output' = {}
        /\ \A i \in DOMAIN rest' : rest'[i] = Order'[Len(output') + i]
    BY <1>2, <2>1
  <2> QED BY <2>1, <2>2 DEF QueueInv
<1>6. Rest'
  BY <1>1, <1>2, <1>4, <1>5 DEF IInv, TypeOK, Rest, CycleInv
<1> QED BY <1>3, <1>6, IInvParts

(* The steps that print the next of the queue.                             *)
LEMMA PrintKeeps ==
  ASSUME IInv, NEW n, NEW l, PrintsNext(n, l), Records'
  PROVE  IInv'
<1>1. /\ UNCHANGED <<input, pc, dependencies, brokenJobs, sortVars, cycle>>
      /\ pc \in {"rewrite", "cycle"} /\ output' = Append(output, l)
  BY DEF PrintsNext
<1>2. UNCHANGED <<stack, sorted, keys, visited, parents>>
  BY <1>1 DEF sortVars
<1>3. Search'
  BY <1>1, SearchFromIInv, SearchStays
<1>4. StageInv'
  <2>1. \A m \in Aggregate : Results(m)' = Results(m) /\ Broken(m)' = Broken(m)
    BY <1>1 DEF Results, Broken, Selected, Unknown
  <2> QED BY <1>1, <1>2, <2>1 DEF IInv, StageInv
<1>5. CycleInv'
  BY <1>1, <1>2 DEF IInv, CycleInv, Top
<1>6. QueueInv' /\ rest' \in Seq(Aggregate)
  BY NextKeepsQueue
<1>7. Rest'
  BY <1>1, <1>4, <1>5, <1>6 DEF IInv, TypeOK, Rest
<1> QED BY <1>3, <1>7, IInvParts

(* The steps that only change the place where main is.                     *)
LEMMA EndKeeps ==
  ASSUME IInv, Finish \/ StoreThrows \/ UNCHANGED vars
  PROVE  IInv'
<1>1. /\ UNCHANGED <<input, dependencies, brokenJobs, sortVars, cycle, rest,
                     jobVars>>
      /\ pc' = pc \/ (pc = "rewrite" /\ pc' = "failed")
           \/ /\ pc \in {"rewrite", "cycle"} /\ pc' = "done" /\ rest = <<>>
              /\ pc = "cycle" => output # <<>>
  BY DEF Finish, StoreThrows, vars
<1>2. UNCHANGED <<stack, sorted, keys, visited, parents, output>>
  BY <1>1 DEF sortVars, jobVars
<1>3. Search' /\ Records'
  BY <1>1, SearchFromIInv, RecordsFromIInv, SearchStays, RecordsStay
<1>4. StageInv'
  <2>1. \A m \in Aggregate : Results(m)' = Results(m) /\ Broken(m)' = Broken(m)
    BY <1>1 DEF Results, Broken, Selected, Unknown
  <2> QED BY <1>1, <1>2, <2>1 DEF IInv, StageInv
<1>5. CycleInv'
  BY <1>1, <1>2 DEF IInv, CycleInv, Top
<1>6. QueueInv'
  <2>1. CASE pc' = pc
    BY <1>1, <1>2, <2>1 DEF IInv, QueueInv, Printing, Order
  <2>2. CASE pc' # pc
    BY <1>1, <1>2, <2>2, QueueStays DEF Printing, IInv, StageInv
  <2> QED BY <2>1, <2>2
<1>7. Rest'
  BY <1>1, <1>4, <1>5, <1>6 DEF IInv, TypeOK, Rest
<1> QED BY <1>3, <1>7, IInvParts

LEMMA NextKeeps ==
  ASSUME IInv, [Next]_vars
  PROVE  IInv'
<1>1. CASE Resolve
  BY <1>1, ResolveKeeps
<1>2. ASSUME NEW n \in Aggregate, VisitSeen(n) \/ VisitNew(n)
      PROVE  IInv'
  <2>1. Search'
    BY <1>2, SearchFromIInv, VisitSeenSearch, VisitNewSearch
  <2>2. /\ pc = "sort"
        /\ UNCHANGED <<input, pc, dependencies, brokenJobs, cycle, rest, jobVars>>
    BY <1>2 DEF VisitSeen, VisitNew, Visiting
  <2> QED BY <2>1, <2>2, SortKeeps
<1>3. ASSUME NEW n \in Aggregate, VisitCycle(n)
      PROVE  IInv'
  BY <1>3, VisitCycleKeeps
<1>4. CASE Return
  <2>1. Search'
    BY <1>4, SearchFromIInv, ReturnSearch
  <2>2. /\ pc = "sort"
        /\ UNCHANGED <<input, pc, dependencies, brokenJobs, cycle, rest, jobVars>>
    BY <1>4 DEF Return
  <2> QED BY <2>1, <2>2, SortKeeps
<1>5. CASE Sorted
  BY <1>5, SortedKeeps
<1>6. ASSUME NEW n \in Aggregate, Rewrite(n)
      PROVE  IInv'
  BY <1>6, RewritePrints, RewriteKeepsRecords, PrintKeeps
<1>7. ASSUME NEW n \in Aggregate, NEW error \in {"broken", "skipped"},
             PrintsNext(n, Line(n, drvPath[n], constituents[n], error)),
             UNCHANGED <<drvPath, constituents, roots>>
      PROVE  IInv'
  BY <1>7, ErrorKeepsRecords, PrintKeeps
<1>8. ASSUME NEW n \in Aggregate, ReportBroken(n) \/ PrintSkipped(n)
      PROVE  IInv'
  <2>1. /\ drvPath[n] \in DrvPath /\ constituents[n] \in Seq(DrvPath)
    BY JobFacts DEF IInv, TypeOK
  <2>2. \A error \in {"broken", "skipped"} :
          LET l == Line(n, drvPath[n], constituents[n], error)
          IN  l \in LineType /\ l.attr = n
    BY <2>1 DEF Line, LineType, ErrorText
  <2>3. CASE ReportBroken(n)
    <3>1. PrintsNext(n, Line(n, drvPath[n], constituents[n], "broken"))
      BY <2>2, <2>3 DEF ReportBroken, PrintsNext
    <3> QED BY <1>7, <2>3, <3>1 DEF ReportBroken
  <2>4. CASE PrintSkipped(n)
    <3>1. PrintsNext(n, Line(n, drvPath[n], constituents[n], "skipped"))
      BY <2>2, <2>4 DEF PrintSkipped, PrintsNext
    <3> QED BY <1>7, <2>4, <3>1 DEF PrintSkipped
  <2> QED BY <1>8, <2>3, <2>4
<1>9. CASE PrintCycle
  <2>1. Records' /\ QueueInv'
    BY <1>9, PrintCycleKeeps
  <2>2. /\ UNCHANGED <<input, pc, dependencies, brokenJobs, sortVars, cycle, rest>>
        /\ pc = "cycle"
    BY <1>9 DEF PrintCycle
  <2>3. Search' /\ UNCHANGED <<stack, sorted, keys, visited, parents>>
    BY <2>2, SearchFromIInv, SearchStays DEF sortVars
  <2>4. StageInv'
    <3>1. \A m \in Aggregate : Results(m)' = Results(m) /\ Broken(m)' = Broken(m)
      BY <2>2 DEF Results, Broken, Selected, Unknown
    <3> QED BY <2>2, <2>3, <3>1 DEF IInv, StageInv
  <2>5. CycleInv'
    BY <2>2, <2>3 DEF IInv, CycleInv, Top
  <2>6. Rest'
    BY <2>1, <2>2, <2>4, <2>5 DEF IInv, TypeOK, Rest
  <2> QED BY <2>1, <2>3, <2>6, IInvParts
<1>10. CASE Finish \/ StoreThrows \/ UNCHANGED vars
  BY <1>10, EndKeeps
<1> QED BY <1>1, <1>2, <1>3, <1>4, <1>5, <1>6, <1>8, <1>9, <1>10
        DEF Next, Step, Terminated

LEMMA InitHolds ==
  ASSUME Init
  PROVE  IInv
<1>1. Search
  BY InitSearch
<1>2. /\ input \in [Aggregate -> Input] /\ pc = "resolve"
      /\ dependencies = [n \in Aggregate |-> {}]
      /\ brokenJobs = [n \in Aggregate |-> {}]
      /\ stack = <<>> /\ visited = {} /\ sorted = <<>>
      /\ cycle = <<>> /\ rest = <<>> /\ output = <<>>
      /\ drvPath = [n \in Job \ Failed |-> Evaluated(n)]
      /\ roots = {Evaluated(n) : n \in Job \ Failed}
      /\ DirectIsAcyclic
  BY DEF Init
<1>3. Rest
  BY <1>2 DEF Rest, StageInv, QueueInv, Printing, CycleInv
<1>4. \A n \in Job \ Failed : Evaluated(n) \in DrvPath /\ Evaluated(n).job = n
  BY DEF Evaluated, DrvPath
<1>5. ASSUME NEW n \in Aggregate
      PROVE  /\ constituents[n] \in Seq(DrvPath)
             /\ Range(constituents[n]) \subseteq roots
             /\ Evaluated(n) \notin Range(constituents[n])
  <2> DEFINE S == input[n].direct
             s == Ascending(S)
  <2>1. input[n] \in Input
    BY <1>2
  <2>2. S \subseteq Job \ Failed /\ S \subseteq Job
    BY <2>1, JobFacts
  <2>3. n \notin S
    BY <1>2 DEF DirectIsAcyclic
  <2>4. s \in Seq(S) /\ DOMAIN s = 1 .. Len(s) /\ Range(s) = S
    BY <2>2, AscendingOf
  <2>5. constituents[n] = [i \in DOMAIN s |-> Evaluated(s[i])]
    BY DEF Init
  <2> HIDE DEF S, s
  <2>6. \A i \in DOMAIN s : s[i] \in S /\ s[i] \in Job \ Failed
    BY <2>2, <2>4 DEF Range
  <2>7. constituents[n] \in [1 .. Len(s) -> DrvPath]
    BY <1>4, <2>4, <2>5, <2>6
  <2>8. Len(s) \in Nat
    BY <2>4
  <2>9. Range(constituents[n]) = {Evaluated(s[i]) : i \in DOMAIN s}
    BY <2>5 DEF Range
  <2>10. ASSUME Evaluated(n) \in Range(constituents[n])
         PROVE  FALSE
    <3>1. PICK i \in DOMAIN s : Evaluated(n) = Evaluated(s[i])
      BY <2>9, <2>10
    <3>2. n = s[i]
      BY <3>1 DEF Evaluated
    <3> QED BY <2>3, <2>6, <3>2
  <2> QED BY <1>2, <2>6, <2>7, <2>8, <2>9, <2>10
<1>6. RecordTypes
  <2>1. constituents \in [Aggregate -> Seq(DrvPath)]
    <3>1. constituents = [n \in Aggregate |-> constituents[n]]
      BY DEF Init
    <3> QED BY <1>5, <3>1
  <2>2. output \in Seq(LineType)
    BY <1>2
  <2> QED BY <1>2, <1>4, <2>1, <2>2 DEF RecordTypes
<1>7. DOMAIN output = {}
  BY <1>2
<1>8. DrvInv
  BY <1>2, <1>4, <1>7, JobFacts DEF DrvInv
<1>9. ListInv /\ OutputInv
  BY <1>5, <1>7 DEF ListInv, OutputInv
<1> QED BY <1>1, <1>3, <1>6, <1>8, <1>9, IInvParts DEF Records

LEMMA Invariant == Spec => []IInv
<1>1. Init => IInv
  BY InitHolds
<1>2. IInv /\ [Next]_vars => IInv'
  BY NextKeeps
<1> QED BY <1>1, <1>2, PTL DEF Spec

-----------------------------------------------------------------------------
(* Reach is a recursive function.  It exists, by the least number of steps *)
(* up to which it would not.                                               *)

Grows(f, k, G, A) ==
  /\ f \in [0 .. k -> SUBSET Aggregate] /\ f[0] = A
  /\ \A i \in 1 .. k : f[i] = f[i - 1] \cup UNION {G[m] : m \in f[i - 1]}

LEMMA GrowthExists ==
  ASSUME NEW G \in Graphs, NEW A \in SUBSET Aggregate, NEW N \in Nat
  PROVE  \E f : Grows(f, N, G, A)
<1> DEFINE T == {k \in Nat : ~\E f : Grows(f, k, G, A)}
<1> SUFFICES T = {}
  OBVIOUS
<1> SUFFICES ASSUME T # {} PROVE FALSE
  OBVIOUS
<1>1. PICK k \in T : \A j \in T : k <= j
  BY LeastMember
<1>2. k \in Nat /\ ~\E f : Grows(f, k, G, A)
  BY <1>1
<1>3. CASE k = 0
  <2>1. [i \in 0 .. 0 |-> A] \in [0 .. 0 -> SUBSET Aggregate]
    OBVIOUS
  <2>2. Grows([i \in 0 .. 0 |-> A], 0, G, A)
    BY <2>1 DEF Grows
  <2> QED BY <1>2, <1>3, <2>2
<1>4. CASE k # 0
  <2>1. k - 1 \in Nat /\ k - 1 \notin T
    BY <1>1, <1>2, <1>4
  <2>2. PICK f : Grows(f, k - 1, G, A)
    BY <2>1
  <2> DEFINE new == f[k - 1] \cup UNION {G[m] : m \in f[k - 1]}
             g == [i \in 0 .. k |-> IF i = k THEN new ELSE f[i]]
  <2>3. k - 1 \in 0 .. k - 1 /\ f[k - 1] \in SUBSET Aggregate
    BY <2>1, <2>2 DEF Grows
  <2>4. new \in SUBSET Aggregate
    BY <2>3 DEF Graphs
  <2>5. \A i \in 0 .. k : i # k => i \in 0 .. k - 1
    BY <1>2
  <2> HIDE DEF new
  <2>6. g \in [0 .. k -> SUBSET Aggregate]
    BY <2>2, <2>4, <2>5 DEF Grows
  <2>7. g[0] = A /\ g[k] = new /\ \A i \in 0 .. k - 1 : g[i] = f[i]
    BY <1>2, <1>4, <2>2 DEF Grows
  <2> HIDE DEF g
  <2>8. ASSUME NEW i \in 1 .. k
        PROVE  g[i] = g[i - 1] \cup UNION {G[m] : m \in g[i - 1]}
    <3>1. i - 1 \in 0 .. k - 1 /\ g[i - 1] = f[i - 1]
      BY <1>2, <2>7
    <3>2. CASE i = k
      BY <2>7, <3>1, <3>2 DEF new
    <3>3. CASE i # k
      <4>1. i \in 1 .. k - 1 /\ i \in 0 .. k - 1
        BY <1>2, <3>3
      <4> QED BY <2>2, <2>7, <3>1, <4>1 DEF Grows
    <3> QED BY <3>2, <3>3
  <2>9. Grows(g, k, G, A)
    BY <2>6, <2>7, <2>8 DEF Grows
  <2> QED BY <1>2, <2>9
<1> QED BY <1>3, <1>4

IsGrow(g, N, A) ==
  g = [k \in 0 .. N |->
         IF k = 0 THEN A
         ELSE g[k - 1] \cup UNION {References(m) : m \in g[k - 1]}]

LEMMA GrowthUnique ==
  ASSUME NEW N \in Nat, NEW A, NEW f, IsGrow(f, N, A), NEW g, IsGrow(g, N, A)
  PROVE  g[N] = f[N]
<1> DEFINE T == {k \in 0 .. N : g[k] # f[k]}
<1>1. ASSUME T # {} PROVE FALSE
  <2>1. T \subseteq Nat
    OBVIOUS
  <2>2. PICK k \in T : \A j \in T : k <= j
    <3> HIDE DEF T
    <3> QED BY <1>1, <2>1, LeastMember
  <2>3. k \in 0 .. N /\ g[k] # f[k]
    BY <2>2
  <2>4. CASE k = 0
    BY <2>3, <2>4 DEF IsGrow
  <2>5. CASE k # 0
    <3>1. k - 1 \in 0 .. N /\ ~(k <= k - 1)
      BY <2>3, <2>5
    <3>2. g[k - 1] = f[k - 1]
      BY <2>2, <3>1
    <3>3. g[k] = g[k - 1] \cup UNION {References(m) : m \in g[k - 1]}
      BY <2>3, <2>5 DEF IsGrow
    <3>4. f[k] = f[k - 1] \cup UNION {References(m) : m \in f[k - 1]}
      BY <2>3, <2>5 DEF IsGrow
    <3> QED BY <2>3, <3>2, <3>3, <3>4
  <2> QED BY <2>4, <2>5
<1>2. N \in 0 .. N
  OBVIOUS
<1> QED BY <1>1, <1>2

LEMMA ReachGrows ==
  ASSUME IsFiniteSet(Aggregate), NEW n \in Aggregate
  PROVE  /\ Cardinality(Aggregate) \in Nat
         /\ \E f : /\ Grows(f, Cardinality(Aggregate), Graph, References(n))
                   /\ Reach(n) = f[Cardinality(Aggregate)]
<1> DEFINE N == Cardinality(Aggregate)
           A == References(n)
<1>1. N \in Nat /\ A \in SUBSET Aggregate /\ Graph \in Graphs
  BY FS_CardinalityType, ReferencesType, GraphType
<1> HIDE DEF N, A
<1>2. PICK f : Grows(f, N, Graph, A)
  BY <1>1, GrowthExists
<1>3. IsGrow(f, N, A)
  <2>1. ASSUME NEW k \in 0 .. N, k # 0
        PROVE  f[k] = f[k - 1] \cup UNION {References(m) : m \in f[k - 1]}
    <3>1. k \in 1 .. N /\ k - 1 \in 0 .. N
      BY <1>1, <2>1
    <3>2. f[k - 1] \subseteq Aggregate
      BY <1>2, <3>1 DEF Grows
    <3>3. {References(m) : m \in f[k - 1]} = {Graph[m] : m \in f[k - 1]}
      BY <3>2, GraphType
    <3> QED BY <1>2, <3>1, <3>3 DEF Grows
  <2>2. f[0] = A /\ f = [k \in 0 .. N |-> f[k]]
    BY <1>2 DEF Grows
  <2> QED BY <2>1, <2>2 DEF IsGrow
<1> DEFINE grow == CHOOSE g : IsGrow(g, N, A)
<1>4. IsGrow(grow, N, A)
  BY <1>3
<1>5. Reach(n) = grow[N]
  BY DEF Reach, IsGrow, N, A
<1> HIDE DEF grow
<1>6. grow[N] = f[N]
  BY <1>1, <1>3, <1>4, GrowthUnique
<1> QED BY <1>1, <1>2, <1>5, <1>6 DEF N, A

(* The jobs of a finite set are within reach in as many steps.             *)
LEMMA AggregatesFinite == IsFiniteSet(Aggregate)
  BY JobFacts, FS_Subset

LEMMA OrderExcludesCycles ==
  ASSUME IInv, Range(sorted) = Aggregate, NEW n \in Aggregate
  PROVE  n \notin Reach(n)
<1> DEFINE N == Cardinality(Aggregate)
<1>1. /\ N \in Nat
      /\ \E f : Grows(f, N, Graph, References(n)) /\ Reach(n) = f[N]
  BY AggregatesFinite, ReachGrows
<1> HIDE DEF N
<1>2. PICK f : Grows(f, N, Graph, References(n)) /\ Reach(n) = f[N]
  BY <1>1
<1>3. PICK p \in DOMAIN sorted : sorted[p] = n
  BY DEF Range
<1>4. /\ sorted \in Seq(Aggregate) /\ IsInjective(sorted)
      /\ \A i \in DOMAIN sorted : \A d \in Graph[sorted[i]] :
           \E j \in 1 .. i - 1 : sorted[j] = d
  BY DEF IInv, TypeOK, OrderInv, IsOrder
<1>5. Len(sorted) \in Nat /\ DOMAIN sorted = 1 .. Len(sorted)
  BY <1>4
<1> DEFINE Before == {sorted[j] : j \in 1 .. p - 1}
           T == {k \in 0 .. N : ~(f[k] \subseteq Before)}
<1>6. n \notin Before
  <2>1. \A j \in 1 .. p - 1 : j \in DOMAIN sorted /\ j # p
    BY <1>3, <1>5
  <2> QED BY <1>3, <1>4, <2>1 DEF IsInjective
<1>7. \A m \in Before : Graph[m] \subseteq Before
  <2> SUFFICES ASSUME NEW i \in 1 .. p - 1, NEW d \in Graph[sorted[i]]
               PROVE  d \in Before
    OBVIOUS
  <2>1. i \in DOMAIN sorted
    BY <1>3, <1>5
  <2>2. PICK j \in 1 .. i - 1 : sorted[j] = d
    BY <1>4, <2>1
  <2>3. j \in 1 .. p - 1
    BY <1>3, <1>5, <2>2
  <2> QED BY <2>2, <2>3
<1>8. References(n) \subseteq Before
  BY <1>3, <1>4, GraphType
<1> HIDE DEF Before
<1>9. ASSUME T # {} PROVE FALSE
  <2>1. T \subseteq Nat
    OBVIOUS
  <2>2. PICK k \in T : \A j \in T : k <= j
    <3> HIDE DEF T
    <3> QED BY <1>9, <2>1, LeastMember
  <2>3. k \in 0 .. N /\ ~(f[k] \subseteq Before)
    BY <2>2
  <2>4. k # 0
    BY <1>2, <1>8, <2>3 DEF Grows
  <2>5. k - 1 \in 0 .. N /\ ~(k <= k - 1) /\ k \in 1 .. N
    BY <1>1, <2>3, <2>4
  <2>6. f[k - 1] \subseteq Before
    BY <2>2, <2>5
  <2>7. f[k] = f[k - 1] \cup UNION {Graph[m] : m \in f[k - 1]}
    BY <1>2, <2>5 DEF Grows
  <2> QED BY <1>7, <2>3, <2>6, <2>7
<1>10. N \in 0 .. N
  BY <1>1
<1> QED BY <1>2, <1>6, <1>9, <1>10

LEMMA StackReaches ==
  ASSUME IInv, NEW i \in DOMAIN stack, i < Len(stack)
  PROVE  Top.path \in Reach(stack[i].path)
<1> DEFINE N == Cardinality(Aggregate)
           n == stack[i].path
           L == Len(stack)
<1>1. stack \in Seq(Frame) /\ IsWalk(stack, Graph) /\ Graph \in Graphs
  BY GraphType DEF IInv, TypeOK, SearchInv
<1>2. /\ L \in Nat /\ DOMAIN stack = 1 .. L
      /\ \A j \in DOMAIN stack : stack[j].path \in Aggregate
  BY <1>1, FrameTypes
<1>3. /\ N \in Nat
      /\ \E f : Grows(f, N, Graph, References(n)) /\ Reach(n) = f[N]
  BY <1>2, AggregatesFinite, ReachGrows
<1>4. PICK f : Grows(f, N, Graph, References(n)) /\ Reach(n) = f[N]
  BY <1>3
<1>5. L <= N
  <2> DEFINE q == [j \in 1 .. L |-> stack[j].path]
  <2>1. q \in Injection(1 .. L, Aggregate)
    BY <1>1, <1>2 DEF IsWalk, Injection, IsInjective
  <2> HIDE DEF q, L
  <2>2. Cardinality(1 .. L) = L
    BY <1>2, FS_Interval
  <2>3. Cardinality(1 .. L) <= N
    BY <2>1, AggregatesFinite, FS_Injection
  <2> QED BY <2>2, <2>3
<1> HIDE DEF N, L
<1>6. \A j \in 1 .. L : j > 1 => stack[j].path \in Graph[stack[j - 1].path]
  BY <1>1, <1>2 DEF IsWalk
<1>7. Graph[n] = References(n) /\ i \in 1 .. L
  BY <1>2, GraphType
<1> DEFINE Reached(k) == \A j \in 1 .. L : i < j /\ j <= i + 1 + k =>
                           stack[j].path \in f[k]
           T == {k \in 0 .. N : ~Reached(k)}
<1>8. Reached(0)
  <2> SUFFICES ASSUME NEW j \in 1 .. L, i < j, j <= i + 1 + 0
               PROVE  stack[j].path \in f[0]
    OBVIOUS
  <2>1. j > 1 /\ j - 1 = i
    BY <1>2, <1>7
  <2> QED BY <1>4, <1>6, <1>7, <2>1 DEF Grows
<1>9. ASSUME NEW k \in 1 .. N, Reached(k - 1)
      PROVE  Reached(k)
  <2> SUFFICES ASSUME NEW j \in 1 .. L, i < j, j <= i + 1 + k
               PROVE  stack[j].path \in f[k]
    OBVIOUS
  <2>1. f[k] = f[k - 1] \cup UNION {Graph[m] : m \in f[k - 1]}
    BY <1>4 DEF Grows
  <2>2. CASE j <= i + 1 + (k - 1)
    BY <1>9, <2>1, <2>2
  <2>3. CASE ~(j <= i + 1 + (k - 1))
    <3>1. /\ j - 1 \in 1 .. L /\ i < j - 1 /\ j - 1 <= i + 1 + (k - 1)
          /\ j > 1
      BY <1>2, <1>3, <1>7, <2>3
    <3>2. stack[j - 1].path \in f[k - 1]
      BY <1>9, <3>1
    <3>3. stack[j].path \in Graph[stack[j - 1].path]
      BY <1>6, <3>1
    <3> QED BY <2>1, <3>2, <3>3
  <2> QED BY <2>2, <2>3
<1>10. ASSUME T # {} PROVE FALSE
  <2>1. T \subseteq Nat
    OBVIOUS
  <2>2. PICK k \in T : \A j \in T : k <= j
    <3> HIDE DEF T
    <3> QED BY <1>10, <2>1, LeastMember
  <2>3. k \in 0 .. N /\ ~Reached(k) /\ \A j \in 0 .. N : ~Reached(j) => k <= j
    BY <2>2
  <2> HIDE DEF Reached
  <2>4. k # 0
    BY <1>8, <2>3
  <2>5. k - 1 \in 0 .. N /\ ~(k <= k - 1) /\ k \in 1 .. N
    BY <1>3, <2>3, <2>4
  <2> QED BY <1>9, <2>3, <2>5
<1>11. Reached(N) /\ N \in 0 .. N
  BY <1>3, <1>10
<1>12. L \in 1 .. L /\ i < L /\ L <= i + 1 + N
  BY <1>2, <1>3, <1>5, <1>7 DEF L
<1>13. stack[L].path \in f[N]
  BY <1>11, <1>12
<1> QED BY <1>4, <1>13 DEF Top, L

-----------------------------------------------------------------------------
(* What the runs check, for every value of the constants.                  *)

(* The variables of --constituents have the values that main gives them,   *)
(* and a frame of dfsVisit visits references of its own path only.         *)
THEOREM ConstituentsTyped == Spec => []TypeOK
<1>1. IInv => TypeOK
  BY DEF IInv
<1> QED BY <1>1, Invariant, PTL

(* rewriteAggregates works on a topological order: when it starts every    *)
(* aggregate is listed once, after all the others that it depends on.      *)
THEOREM RewritesInOrder == Spec => []SortedTopologically
<1>1. ASSUME IInv
      PROVE  SortedTopologically
  <2> SUFFICES ASSUME pc = "rewrite"
               PROVE  /\ Range(sorted) = Aggregate
                      /\ Len(sorted) = Cardinality(Aggregate)
                      /\ \A i \in DOMAIN sorted : \A d \in References(sorted[i]) :
                           \E j \in 1 .. i - 1 : sorted[j] = d
    BY DEF SortedTopologically
  <2>1. Range(sorted) = Aggregate
    BY SortedFacts, <1>1 DEF IInv, StageInv
  <2>2. sorted \in Seq(Aggregate) /\ IsInjective(sorted)
    BY <1>1 DEF IInv, TypeOK, OrderInv, IsOrder
  <2>3. Len(sorted) = Cardinality(Aggregate)
    BY <2>1, <2>2, LengthOfDistinct
  <2>4. \A i \in DOMAIN sorted : sorted[i] \in Aggregate
    BY <2>1 DEF Range
  <2>5. \A i \in DOMAIN sorted : \A d \in References(sorted[i]) :
          \E j \in 1 .. i - 1 : sorted[j] = d
    BY <1>1, <2>4, GraphType DEF IInv, OrderInv, IsOrder
  <2> QED BY <2>1, <2>3, <2>5
<1> QED BY <1>1, Invariant, PTL

(* dfsVisit throws DependencyCycle exactly when there is a cycle: once     *)
(* everything is sorted no aggregate depends on itself over any number of  *)
(* steps, and the two that an exception names are different and on one.    *)
THEOREM CyclesAreReal == Spec => []CycleIsReal
<1>1. ASSUME IInv
      PROVE  CycleIsReal
  <2>1. ASSUME pc = "rewrite", NEW n \in Aggregate
        PROVE  n \notin Reach(n)
    <3>1. Range(sorted) = Aggregate
      BY <1>1, <2>1, SortedFacts DEF IInv, StageInv
    <3> QED BY <1>1, <3>1, OrderExcludesCycles
  <2>2. ASSUME pc = "cycle"
        PROVE  /\ cycle[1] # cycle[2] /\ cycle[1] \in References(cycle[2])
               /\ cycle[2] \in Reach(cycle[1])
    <3>1. cycle # <<>> /\ stack # <<>> /\ stack \in Seq(Frame)
      BY <1>1, <2>2 DEF IInv, TypeOK, StageInv, CycleInv
    <3>2. cycle[1] # cycle[2] /\ cycle[1] \in References(cycle[2])
      BY <1>1, <3>1, CycleFacts
    <3>3. cycle[2] = Top.path /\ cycle[1] \in Paths(stack)
      BY <1>1, <3>1 DEF IInv, CycleInv
    <3>4. PICK i \in DOMAIN stack : stack[i].path = cycle[1]
      BY <3>3 DEF Paths
    <3>5. i # Len(stack)
      BY <3>2, <3>3, <3>4 DEF Top
    <3>6. i < Len(stack)
      BY <3>1, <3>5, FrameTypes
    <3> QED BY <1>1, <3>2, <3>3, <3>4, <3>6, StackReaches
  <2> QED BY <2>1, <2>2 DEF CycleIsReal
<1> QED BY <1>1, Invariant, PTL

(* handleConstituents prints each aggregate once, sorted, broken, skipped  *)
(* or on the cycle: no line is doubled, and at the end none is missing.    *)
THEOREM EachPrintedOnce == Spec => []PrintedOnce
<1>1. ASSUME IInv
      PROVE  PrintedOnce
  <2>1. CASE output = <<>> /\ pc # "done"
    <3>1. DOMAIN output = {}
      BY <2>1
    <3> QED BY <2>1, <3>1 DEF PrintedOnce
  <2>2. CASE output # <<>> \/ pc = "done"
    <3>1. Printing /\ ~(cycle # <<>> /\ output = <<>>)
      BY <1>1, <2>2 DEF IInv, TypeOK, StageInv, Printing
    <3>2. /\ Order \in Seq(Aggregate) /\ IsInjective(Order)
          /\ Range(Order) = Aggregate
      BY <1>1, <3>1, OrderFacts
    <3>3. /\ Len(output) + Len(rest) = Len(Order)
          /\ \A i \in DOMAIN output : output[i].attr = Order[i]
          /\ pc = "done" => rest = <<>>
      BY <1>1, <3>1 DEF IInv, QueueInv
    <3>4. output \in Seq(LineType) /\ rest \in Seq(Aggregate)
      BY <1>1 DEF IInv, TypeOK, LineType
    <3>5. /\ Len(output) \in Nat /\ DOMAIN output = 1 .. Len(output)
          /\ Len(rest) \in Nat /\ DOMAIN Order = 1 .. Len(Order)
      BY <3>2, <3>4
    <3>6. DOMAIN output \subseteq DOMAIN Order
      BY <3>3, <3>5
    <3>7. ASSUME NEW i \in DOMAIN output, NEW j \in DOMAIN output, i # j
          PROVE  output[i].attr # output[j].attr
      BY <3>2, <3>3, <3>6, <3>7 DEF IsInjective
    <3>8. ASSUME pc = "done"
          PROVE  {output[i].attr : i \in DOMAIN output} = Aggregate
      <4>1. DOMAIN output = DOMAIN Order
        BY <3>3, <3>5, <3>8
      <4>2. {output[i].attr : i \in DOMAIN output} = {Order[i] : i \in DOMAIN Order}
        BY <3>3, <4>1
      <4> QED BY <3>2, <4>2 DEF Range
    <3> QED BY <3>7, <3>8 DEF PrintedOnce
  <2> QED BY <2>1, <2>2
<1> QED BY <1>1, Invariant, PTL

(* addConstituents copies derivations that do not change any more: at the  *)
(* end an aggregate without error lists the derivations that its           *)
(* constituents are printed with, and a gc root protects all of them.      *)
THEOREM ConstituentsStand == Spec => []ConstituentsAreFinal
<1>1. ASSUME IInv
      PROVE  ConstituentsAreFinal
  <2> SUFFICES ASSUME NEW i \in DOMAIN output
               PROVE  LET n == output[i].attr
                      IN  /\ {output[i].drvPath} \cup Range(output[i].constituents)
                               \subseteq roots
                          /\ Evaluated(n) \in Range(output[i].constituents) =>
                               n \in input[n].named
                          /\ pc = "done" /\ output[i].error = "none" =>
                               \A d \in dependencies[n] \ {n} :
                                 /\ drvPath[d] \in Range(output[i].constituents)
                                 /\ \A j \in DOMAIN output : output[j].attr = d =>
                                      output[j].drvPath = drvPath[d]
    BY DEF ConstituentsAreFinal
  <2>1. \A j \in DOMAIN output : /\ output[j] \in LineType
                                 /\ output[j].attr \in Job \ Failed
    <3>1. output \in Seq(LineType)
      BY <1>1 DEF IInv, TypeOK, LineType
    <3>2. \A j \in DOMAIN output : output[j] \in LineType
      BY <3>1, ElementOfSeq
    <3> QED BY <3>2, JobFacts DEF LineType
  <2>2. \A j \in DOMAIN output : /\ output[j].drvPath = drvPath[output[j].attr]
                                 /\ output[j].drvPath \in roots
    BY <1>1, <2>1 DEF IInv, DrvInv
  <2> QED BY <1>1, <2>2 DEF IInv, OutputInv
<1> QED BY <1>1, Invariant, PTL

(* resolveNamedConstituents passes over no name: an aggregate that names a *)
(* job that failed, or nothing, is printed with an error, and whatever is  *)
(* printed with an error has the derivation that was evaluated.            *)
THEOREM BrokenAreReported == Spec => []BrokenIsReported
<1>1. ASSUME IInv
      PROVE  BrokenIsReported
  <2> SUFFICES ASSUME NEW i \in DOMAIN output
               PROVE  LET n == output[i].attr
                          missing == \E s \in input[n].named :
                            \/ s \in Failed
                            \/ /\ s \in Pattern
                               /\ input[n].glob => Matches[s] \ {n} \subseteq Failed
                      IN  /\ missing => output[i].error # "none"
                          /\ output[i].error # "none" =>
                               output[i].drvPath = Evaluated(n)
    BY DEF BrokenIsReported
  <2> DEFINE n == output[i].attr
  <2>1. n \in Aggregate
    <3>1. output \in Seq(LineType)
      BY <1>1 DEF IInv, TypeOK, LineType
    <3>2. output[i] \in LineType
      BY <3>1, ElementOfSeq
    <3> QED BY <3>2 DEF LineType
  <2>2. pc # "resolve"
    BY <1>1 DEF IInv, StageInv
  <2>3. brokenJobs[n] = Broken(n)
    BY <1>1, <2>1, <2>2 DEF IInv, StageInv
  <2>4. /\ output[i].error = "none" => brokenJobs[n] = {}
        /\ output[i].error # "none" => output[i].drvPath = Evaluated(n)
    BY <1>1 DEF IInv, OutputInv
  <2> HIDE DEF n
  <2>5. ASSUME NEW s \in input[n].named, s \in Failed
        PROVE  s \in Broken(n)
    BY <2>5, JobFacts DEF Broken, Selected, IsBroken
  <2>6. ASSUME NEW s \in input[n].named, s \in Pattern,
               input[n].glob => Matches[s] \ {n} \subseteq Failed
        PROVE  s \in Broken(n)
    <3>1. s \in Unknown(n)
      BY <2>6, JobFacts DEF Unknown
    <3>2. input[n].glob => \A c \in Expand(n, s) : IsBroken(c)
      BY <2>6 DEF Expand, IsBroken
    <3> QED BY <3>1, <3>2 DEF Broken
  <2> QED BY <2>3, <2>4, <2>5, <2>6 DEF n
<1> QED BY <1>1, Invariant, PTL
=============================================================================
