-------------------------- MODULE JobRequestProofs --------------------------
(***************************************************************************)
(* What a worker process reports of an expression, for every expression:   *)
(* proofs of the invariants of JobRequest and of Evaluator: of what is     *)
(* reported, that no derivation is left out, that paths have different     *)
(* names, and that messages come to their lines.                           *)
(***************************************************************************)
EXTENDS JobRequest, ResponseJsonProofs, SequenceLemmas

(***************************************************************************)
(* An expression does not change.  What Evaluator says of it is said here  *)
(* of any expression, so that it is the same before and after a step.      *)
(***************************************************************************)
CalledIn(e, v, n) == IF v \in Function THEN [of |-> e.returns[v], call |-> n]
                                       ELSE [of |-> v, call |-> 0]

ValueIn(e, p) ==
  LET v[i \in 0 .. Len(p)] ==
        IF i = 0 THEN e.root ELSE e.attrs[CalledIn(e, v[i - 1], 0).of][p[i]]
  IN  v[Len(p)]

SetIn(e, p) == CalledIn(e, ValueIn(e, p), 0).of

MayRecurseIn(e, s, top) ==
  \/ e.forceRecurse
  \/ IF RecurseFor \in DOMAIN e.attrs[s]
     THEN CalledIn(e, e.attrs[s][RecurseFor], 0).of = "true"
     ELSE top

Prefix(p, i) == SubSeq(p, 1, i)

(* The very set was passed on the way. *)
Repeats(e, p) ==
  /\ ValueIn(e, p) \in AttrSet
  /\ \E i \in 0 .. Len(p) - 1 : ValueIn(e, Prefix(p, i)) = ValueIn(e, p)

(* What is found at p is a set that is recursed into. *)
IsOpen(e, p) ==
  /\ SetIn(e, p) \in AttrSet
  /\ MayRecurseIn(e, SetIn(e, p), p = <<>>)
  /\ ~Repeats(e, p)

(* The traversal may come to p. *)
IsWay(e, p) ==
  /\ p \in Seq(Name)
  /\ \A i \in 0 .. Len(p) - 1 :
       /\ IsOpen(e, Prefix(p, i))
       /\ p[i + 1] \in DOMAIN e.attrs[SetIn(e, Prefix(p, i))]

FailsIn(e, p) ==
  \/ SetIn(e, p) = "throws"
  \/ /\ SetIn(e, p) \in AttrSet /\ RecurseFor \in DOMAIN e.attrs[SetIn(e, p)]
     /\ ~e.forceRecurse
     /\ CalledIn(e, e.attrs[SetIn(e, p)][RecurseFor], 0).of
          \notin {"true", "false"}
  \/ Repeats(e, p)

QuirksIn(e, p) ==
  LET slot == <<SetIn(e, Front(p)), Last(p)>>
  IN  IF slot \in DOMAIN e.quirks THEN e.quirks[slot] ELSE {}

DerivationFailsIn(e, p) ==
  /\ p # <<>> /\ SetIn(e, p) = "derivation"
  /\ \/ "outputsThrow" \in QuirksIn(e, p)
     \/ "caOutputs" \in QuirksIn(e, p) /\ "caDerivations" \notin e.args
     \/ "meta" \in e.args /\ "metaThrows" \in QuirksIn(e, p)
     \/ "apply" \in e.args /\ "applyThrows" \in QuirksIn(e, p)
     \/ "gcRoots" \in e.args /\ "rootThrows" \in QuirksIn(e, p)
     \/ "constituents" \in e.args /\ "noConstituents" \in QuirksIn(e, p)

IsImprecise(e, p) ==
  p # <<>> /\ QuirksIn(e, p) \cap {"unreadable", "badOptions"} # {}

RootWantedIn(e) ==
  "gcRoots" \in e.args /\ "readOnly" \notin e.args /\ e.store = "local"

ReadsStore(e) == "readOnly" \notin e.args /\ e.store # "wire"

(***************************************************************************)
(* The inductive invariant.                                                *)
(***************************************************************************)

(* The walk has come down the path to depth. *)
WalkInv ==
  /\ expr \in Expression
  /\ IsWay(expr, path)
  /\ busy \in BOOLEAN
  /\ depth \in 0 .. Len(path)
  /\ value = CalledIn(expr, ValueIn(expr, Prefix(path, depth)), depth + 1)
  /\ ancestors =
       [i \in 1 .. depth |->
          CalledIn(expr, ValueIn(expr, Prefix(path, i - 1)), i)]

InHand == IF busy THEN {path} ELSE {}

(* A path is in one place; above it is one that was answered. *)
PathInv ==
  /\ \A p \in todo \cup DOMAIN answer : IsWay(expr, p)
  /\ todo \cap DOMAIN answer = {}
  /\ InHand \cap (todo \cup DOMAIN answer) = {}
  /\ \A p \in todo \cup DOMAIN answer \cup InHand :
       p # <<>> => Front(p) \in DOMAIN answer
  /\ Range(answer) \subseteq Payload
  /\ retried \subseteq todo \cup DOMAIN answer \cup InHand

(* The record that is put together is the one of the path. *)
JobInv ==
  /\ stage \in {"walk", "apply", "record", "root", "respond"}
  /\ stage # "walk" =>
       /\ busy /\ depth = Len(path) /\ value.of = "derivation"
       /\ IsDrv(job.drv) /\ job.drv.cacheStatus = "unknown"
       /\ IsOptional(job.extraValue)
       /\ job = [drv |-> job.drv, extraValue |-> job.extraValue]
       /\ job.drv.drvPath = DrvSlot
  /\ stage = "respond" /\ RootWantedIn(expr) => DrvSlot \in gcRoots
  /\ stage \in {"root", "respond"} /\ ReadsStore(expr) =>
       \/ \E q \in DOMAIN answer \cup {path} : IsImprecise(expr, q)
       \/ /\ job.drv.requiredSystemFeatures # {}
          /\ "showInputDrvs" \in expr.args => job.drv.inputDrvs # {}

ProcessInv ==
  /\ DOMAIN logs = DOMAIN NoLogs /\ IsLogs(logs)
  /\ forced \subseteq Slot /\ gcRoots \subseteq Slot
  /\ storeReads \in BOOLEAN /\ events \in 0 .. MaxEvents
  /\ ~storeReads =>
       \E q \in DOMAIN answer \cup
                  (IF stage \in {"root", "respond"} THEN {path} ELSE {}) :
         IsImprecise(expr, q)

IsLineOf(line, type) ==
  \E r : /\ IsResponse(r) /\ line = ToJson(r)
         /\ type = "job" => /\ r.payload.type = "job"
                            /\ r.payload.drv.cacheStatus = "unknown"

(* A line is a response, of the type of the answer. *)
LineInv ==
  /\ DOMAIN lines \subseteq DOMAIN answer
  /\ \A p \in DOMAIN answer \ DOMAIN lines : answer[p].type = "abort"
  /\ \A p \in DOMAIN lines : IsLineOf(lines[p], answer[p].type)

(* A job may have cost a process n times.                                  *)
Costs(e, k, p, n) ==
  SetIn(e, p) = "unprintable" \/ ("kill" \in e.env /\ k >= n)

(* What was answered is justified, and so is what is evaluated again. *)
AnswerInv ==
  /\ \A p \in retried : Costs(expr, events, p, 1)
  /\ \A p \in DOMAIN answer : answer[p].type = "error" =>
       \/ FailsIn(expr, p) \/ DerivationFailsIn(expr, p)
       \/ p \in retried /\ Costs(expr, events, p, 2)
  /\ \A p \in DOMAIN answer : answer[p].type = "job" =>
       /\ RootWantedIn(expr) => lines[p].drvPath \in gcRoots
       /\ ReadsStore(expr) =>
            \/ \E q \in DOMAIN answer : IsImprecise(expr, q)
            \/ /\ "requiredSystemFeatures" \in DOMAIN lines[p]
               /\ "showInputDrvs" \in expr.args =>
                    "inputDrvs" \in DOMAIN lines[p]

IInv ==
  WalkInv /\ PathInv /\ JobInv /\ ProcessInv /\ LineInv /\ AnswerInv

(***************************************************************************)
(* Prefixes of paths.                                                      *)
(***************************************************************************)
LEMMA PrefixIs ==
  ASSUME NEW p \in Seq(Name), NEW i \in 0 .. Len(p)
  PROVE  /\ Prefix(p, i) \in Seq(Name) /\ Len(Prefix(p, i)) = i
         /\ \A j \in 1 .. i : Prefix(p, i)[j] = p[j]
<1>1. Len(p) \in Nat /\ p \in [1 .. Len(p) -> Name]
  BY LenProperties
<1>2. i \in Int /\ 1 \in Int /\ \A j \in 1 .. i : p[j] \in Name
  BY <1>1
<1>3. /\ SubSeq(p, 1, i) \in Seq(Name)
      /\ Len(SubSeq(p, 1, i)) = IF 1 <= i THEN i - 1 + 1 ELSE 0
      /\ \A j \in 1 .. i - 1 + 1 : SubSeq(p, 1, i)[j] = p[1 + j - 1]
  BY <1>2, SubSeqProperties
<1> HIDE DEF Prefix
<1>4. Prefix(p, i) = SubSeq(p, 1, i)
  BY DEF Prefix
<1>5. i - 1 + 1 = i /\ (~(1 <= i) => i = 0) /\ \A j \in 1 .. i : 1 + j - 1 = j
  BY <1>1
<1> QED BY <1>3, <1>4, <1>5

LEMMA SamePath ==
  ASSUME NEW p \in Seq(Name), NEW q \in Seq(Name), Len(p) = Len(q),
         \A j \in 1 .. Len(p) : p[j] = q[j]
  PROVE  p = q
BY SeqEqual

LEMMA PrefixEnds ==
  ASSUME NEW p \in Seq(Name)
  PROVE  /\ Prefix(p, 0) = <<>> /\ Prefix(p, Len(p)) = p
         /\ Len(p) \in Nat /\ (Len(p) = 0 <=> p = <<>>)
         /\ p # <<>> => Front(p) = Prefix(p, Len(p) - 1) /\ Last(p) = p[Len(p)]
<1>1. Len(p) \in Nat /\ (Len(p) = 0 <=> p = <<>>)
  BY LenProperties, EmptySeq
<1>2. Prefix(p, Len(p)) = p
  BY SubSeqFull DEF Prefix
<1>3. Prefix(p, 0) = <<>>
  <2>1. 0 \in 0 .. Len(p)
    BY <1>1
  <2>2. Prefix(p, 0) \in Seq(Name) /\ Len(Prefix(p, 0)) = 0
    BY <2>1, PrefixIs
  <2> HIDE DEF Prefix
  <2> QED BY <2>2, EmptySeq
<1> QED BY <1>1, <1>2, <1>3 DEF Front, Last, Prefix

LEMMA PrefixOfPrefix ==
  ASSUME NEW p \in Seq(Name), NEW i \in 0 .. Len(p), NEW j \in 0 .. i
  PROVE  Prefix(Prefix(p, i), j) = Prefix(p, j)
<1>1. Len(p) \in Nat /\ j \in 0 .. Len(p) /\ i \in Nat
  BY LenProperties
<1> DEFINE q == Prefix(p, i)
<1>2. /\ q \in Seq(Name) /\ Len(q) = i
      /\ \A k \in 1 .. i : q[k] = p[k]
  BY PrefixIs
<1> HIDE DEF q
<1>3. j \in 0 .. Len(q)
  BY <1>2
<1>4. /\ Prefix(q, j) \in Seq(Name) /\ Len(Prefix(q, j)) = j
      /\ \A k \in 1 .. j : Prefix(q, j)[k] = q[k]
  BY <1>2, <1>3, PrefixIs
<1>5. /\ Prefix(p, j) \in Seq(Name) /\ Len(Prefix(p, j)) = j
      /\ \A k \in 1 .. j : Prefix(p, j)[k] = p[k]
  BY <1>1, PrefixIs
<1>6. \A k \in 1 .. j : k \in 1 .. i
  OBVIOUS
<1> HIDE DEF Prefix
<1>7. Prefix(q, j) = Prefix(p, j)
  BY <1>2, <1>4, <1>5, <1>6, SamePath
<1> QED BY <1>7 DEF q

LEMMA PrefixOfAppend ==
  ASSUME NEW p \in Seq(Name), NEW a \in Name
  PROVE  /\ Append(p, a) \in Seq(Name) /\ Len(Append(p, a)) = Len(p) + 1
         /\ Append(p, a) # <<>>
         /\ Front(Append(p, a)) = p /\ Last(Append(p, a)) = a
         /\ Append(p, a)[Len(p) + 1] = a
         /\ \A i \in 1 .. Len(p) : Append(p, a)[i] = p[i]
         /\ \A i \in 0 .. Len(p) : Prefix(Append(p, a), i) = Prefix(p, i)
<1> DEFINE q == Append(p, a)
<1>1. /\ q \in Seq(Name) /\ Len(q) = Len(p) + 1 /\ Len(p) \in Nat
      /\ q[Len(p) + 1] = a /\ \A i \in 1 .. Len(p) : q[i] = p[i]
  BY AppendProperties, LenProperties
<1> HIDE DEF q
<1>2. ASSUME NEW i \in 0 .. Len(p)
      PROVE  Prefix(q, i) = Prefix(p, i)
  <2>1. i \in 0 .. Len(q) /\ \A k \in 1 .. i : k \in 1 .. Len(p)
    BY <1>1
  <2>2. /\ Prefix(q, i) \in Seq(Name) /\ Len(Prefix(q, i)) = i
        /\ \A k \in 1 .. i : Prefix(q, i)[k] = q[k]
    BY <1>1, <2>1, PrefixIs
  <2>3. /\ Prefix(p, i) \in Seq(Name) /\ Len(Prefix(p, i)) = i
        /\ \A k \in 1 .. i : Prefix(p, i)[k] = p[k]
    BY PrefixIs
  <2> HIDE DEF Prefix
  <2> QED BY <1>1, <2>1, <2>2, <2>3, SamePath
<1>3. q # <<>>
  BY <1>1, EmptySeq
<1>4. Front(q) = p /\ Last(q) = a
  <2>1. Front(q) = Prefix(q, Len(q) - 1) /\ Last(q) = q[Len(q)]
    BY <1>1, <1>3, PrefixEnds
  <2>2. Len(q) - 1 = Len(p) /\ Len(p) \in 0 .. Len(p)
    BY <1>1
  <2>3. Prefix(q, Len(p)) = Prefix(p, Len(p)) /\ Prefix(p, Len(p)) = p
    BY <1>2, <2>2, PrefixEnds
  <2> QED BY <1>1, <2>1, <2>2, <2>3
<1> QED BY <1>1, <1>2, <1>3, <1>4 DEF q

(***************************************************************************)
(* The value that a path names: that of the root, and an attribute of what *)
(* is found above it.                                                      *)
(***************************************************************************)
IsValues(e, p, v) ==
  v = [i \in 0 .. Len(p) |->
         IF i = 0 THEN e.root ELSE e.attrs[CalledIn(e, v[i - 1], 0).of][p[i]]]

Next1(e, p, i, w) == e.attrs[CalledIn(e, w, 0).of][p[i]]

LEMMA ValuesExist ==
  ASSUME NEW e, NEW p \in Seq(Name)
  PROVE  \E v : IsValues(e, p, v)
<1> DEFINE IsTo(k, v) == v = [i \in 0 .. k |->
                                IF i = 0 THEN e.root ELSE Next1(e, p, i, v[i - 1])]
           T == {k \in Nat : ~\E v : IsTo(k, v)}
<1>1. T = {}
  <2> SUFFICES ASSUME T # {} PROVE FALSE
    OBVIOUS
  <2>1. PICK k \in T : \A j \in T : k <= j
    BY LeastMember
  <2>2. k \in Nat /\ ~\E v : IsTo(k, v)
    BY <2>1
  <2>3. CASE k = 0
    <3> DEFINE v == [i \in 0 .. 0 |-> e.root]
    <3>1. v = [i \in 0 .. 0 |-> IF i = 0 THEN e.root
                                        ELSE Next1(e, p, i, v[i - 1])]
      OBVIOUS
    <3> QED BY <2>2, <2>3, <3>1
  <2>4. CASE k # 0
    <3>1. k - 1 \in Nat /\ k - 1 \notin T
      <4>1. k - 1 \in Nat /\ ~(k <= k - 1)
        BY <2>2, <2>4
      <4> HIDE DEF T
      <4> QED BY <2>1, <4>1
    <3>2. PICK v : IsTo(k - 1, v)
      BY <3>1
    <3> DEFINE w == [i \in 0 .. k |-> IF i = k THEN Next1(e, p, k, v[k - 1])
                                              ELSE v[i]]
    <3>3. \A i \in 0 .. k - 1 : w[i] = v[i]
      BY <2>2
    <3>4. w[k] = Next1(e, p, k, v[k - 1])
      BY <2>2
    <3>5. \A i \in 0 .. k - 1 :
            v[i] = IF i = 0 THEN e.root ELSE Next1(e, p, i, v[i - 1])
      BY <3>2
    <3>6. ASSUME NEW i \in 0 .. k
          PROVE  w[i] = IF i = 0 THEN e.root ELSE Next1(e, p, i, w[i - 1])
      <4>1. CASE i = k
        <5>1. k - 1 \in 0 .. k - 1
          BY <3>1
        <5> HIDE DEF w
        <5> QED BY <2>4, <3>3, <3>4, <4>1, <5>1
      <4>2. CASE i # k
        <5>1. i \in 0 .. k - 1 /\ (i # 0 => i - 1 \in 0 .. k - 1)
          BY <2>2, <4>2
        <5> HIDE DEF w
        <5> QED BY <3>3, <3>5, <5>1
      <4> QED BY <4>1, <4>2
    <3>7. w = [i \in 0 .. k |-> w[i]]
      OBVIOUS
    <3> HIDE DEF w
    <3>8. w = [i \in 0 .. k |-> IF i = 0 THEN e.root
                                        ELSE Next1(e, p, i, w[i - 1])]
      BY <3>6, <3>7
    <3> QED BY <2>2, <3>8
  <2> QED BY <2>3, <2>4
<1>2. Len(p) \in Nat
  BY LenProperties
<1>3. PICK v : IsTo(Len(p), v)
  BY <1>1, <1>2
<1> QED BY <1>3 DEF IsValues, Next1

Follow(e, p, v) ==
  /\ v[0] = e.root
  /\ \A i \in 1 .. Len(p) : v[i] = Next1(e, p, i, v[i - 1])

LEMMA ValuesAre ==
  ASSUME NEW e, NEW p \in Seq(Name), NEW v, IsValues(e, p, v)
  PROVE  Follow(e, p, v)
<1>1. Len(p) \in Nat
  BY LenProperties
<1>2. \A i \in 0 .. Len(p) :
        v[i] = IF i = 0 THEN e.root ELSE Next1(e, p, i, v[i - 1])
  BY DEF IsValues, Next1
<1>3. 0 \in 0 .. Len(p) /\ \A i \in 1 .. Len(p) : i \in 0 .. Len(p) /\ i # 0
  BY <1>1
<1> QED BY <1>2, <1>3 DEF Follow

Agree(p, q, n) == \A i \in 1 .. n : p[i] = q[i]

LEMMA ValuesUnique ==
  ASSUME NEW e, NEW p \in Seq(Name), NEW q \in Seq(Name),
         NEW v, IsValues(e, p, v), NEW w, IsValues(e, q, w),
         NEW n \in 0 .. Len(p), n <= Len(q), Agree(p, q, n)
  PROVE  v[n] = w[n]
<1> DEFINE T == {i \in 0 .. n : v[i] # w[i]}
<1>1. Len(p) \in Nat /\ Len(q) \in Nat /\ n \in Nat
  BY LenProperties
<1>2. T = {}
  <2> SUFFICES ASSUME T # {} PROVE FALSE
    OBVIOUS
  <2>1. T \subseteq Nat
    BY <1>1
  <2>2. PICK k \in T : \A j \in T : k <= j
    <3> HIDE DEF T
    <3> QED BY <2>1, LeastMember
  <2>3. k \in 0 .. n /\ v[k] # w[k]
    BY <2>2
  <2>4. k # 0
    <3>1. Follow(e, p, v) /\ Follow(e, q, w)
      BY ValuesAre
    <3> QED BY <2>3, <3>1 DEF Follow
  <2>5. k - 1 \in 0 .. n /\ ~(k <= k - 1)
    BY <1>1, <2>3, <2>4
  <2>6. v[k - 1] = w[k - 1]
    BY <2>2, <2>5
  <2>7. k \in 1 .. Len(p) /\ k \in 1 .. Len(q) /\ k \in 1 .. n
    BY <1>1, <2>3, <2>4
  <2>8. v[k] = Next1(e, p, k, v[k - 1]) /\ w[k] = Next1(e, q, k, w[k - 1])
    <3>1. Follow(e, p, v) /\ Follow(e, q, w)
      BY ValuesAre
    <3> QED BY <2>7, <3>1 DEF Follow
  <2>9. p[k] = q[k]
    BY <2>7 DEF Agree
  <2> QED BY <2>3, <2>6, <2>8, <2>9 DEF Next1
<1>3. n \in 0 .. n
  BY <1>1
<1> QED BY <1>2, <1>3

LEMMA ValueInIs ==
  ASSUME NEW e, NEW p \in Seq(Name)
  PROVE  \E v : IsValues(e, p, v) /\ ValueIn(e, p) = v[Len(p)]
<1> DEFINE u == CHOOSE v : IsValues(e, p, v)
<1>1. IsValues(e, p, u)
  BY ValuesExist
<1>2. ValueIn(e, p) = u[Len(p)]
  BY DEF ValueIn, IsValues
<1> QED BY <1>1, <1>2

LEMMA ValueOfPrefix ==
  ASSUME NEW e, NEW p \in Seq(Name), NEW v, IsValues(e, p, v),
         NEW i \in 0 .. Len(p)
  PROVE  ValueIn(e, Prefix(p, i)) = v[i]
<1> DEFINE q == Prefix(p, i)
<1>1. /\ q \in Seq(Name) /\ Len(q) = i
      /\ \A j \in 1 .. i : q[j] = p[j]
  BY PrefixIs
<1> HIDE DEF q
<1>2. PICK w : IsValues(e, q, w) /\ ValueIn(e, q) = w[Len(q)]
  BY <1>1, ValueInIs
<1>3. i \in 0 .. Len(q) /\ i <= Len(p)
  BY <1>1, LenProperties
<1>4. w[i] = v[i]
  <2>1. IsValues(e, q, w) /\ i <= Len(p) /\ Agree(q, p, i)
    BY <1>1, <1>2, <1>3 DEF Agree
  <2> QED BY <1>1, <1>3, <2>1, ValuesUnique
<1> QED BY <1>1, <1>2, <1>4 DEF q

LEMMA ValueOfRoot ==
  ASSUME NEW e
  PROVE  ValueIn(e, <<>>) = e.root
<1>1. <<>> \in Seq(Name) /\ Len(<<>>) = 0
  OBVIOUS
<1>2. PICK v : IsValues(e, <<>>, v) /\ ValueIn(e, <<>>) = v[Len(<<>>)]
  BY <1>1, ValueInIs
<1>3. v[0] = e.root
  BY <1>1, <1>2, ValuesAre DEF Follow
<1> QED BY <1>1, <1>2, <1>3

LEMMA ValueBelow ==
  ASSUME NEW e, NEW p \in Seq(Name), NEW i \in 1 .. Len(p)
  PROVE  ValueIn(e, Prefix(p, i)) = e.attrs[SetIn(e, Prefix(p, i - 1))][p[i]]
<1>1. PICK v : IsValues(e, p, v)
  BY ValuesExist
<1>2. i \in 0 .. Len(p) /\ i - 1 \in 0 .. Len(p)
  BY LenProperties
<1>3. ValueIn(e, Prefix(p, i)) = v[i]
  BY <1>1, <1>2, ValueOfPrefix
<1>4. ValueIn(e, Prefix(p, i - 1)) = v[i - 1]
  BY <1>1, <1>2, ValueOfPrefix
<1>5. v[i] = Next1(e, p, i, v[i - 1])
  <2>1. Follow(e, p, v)
    BY <1>1, ValuesAre
  <2> QED BY <2>1 DEF Follow
<1> HIDE DEF Prefix
<1> QED BY <1>3, <1>4, <1>5 DEF Next1, SetIn

LEMMA ValueOfAppend ==
  ASSUME NEW e, NEW p \in Seq(Name), NEW a \in Name
  PROVE  ValueIn(e, Append(p, a)) = e.attrs[SetIn(e, p)][a]
<1> DEFINE q == Append(p, a)
           n == Len(p) + 1
<1>1. /\ q \in Seq(Name) /\ Len(q) = n /\ q[n] = a
      /\ \A i \in 0 .. Len(p) : Prefix(q, i) = Prefix(p, i)
  BY PrefixOfAppend
<1> HIDE DEF q
<1>2. Len(p) \in Nat /\ Prefix(p, Len(p)) = p /\ Prefix(q, n) = q
  BY <1>1, PrefixEnds
<1>3. n \in 1 .. Len(q) /\ n - 1 = Len(p) /\ Len(p) \in 0 .. Len(p)
  BY <1>1, <1>2
<1>4. ValueIn(e, Prefix(q, n)) = e.attrs[SetIn(e, Prefix(q, n - 1))][q[n]]
  BY <1>1, <1>3, ValueBelow
<1> QED BY <1>1, <1>2, <1>3, <1>4 DEF q

(***************************************************************************)
(* What the expressions are made of.                                       *)
(***************************************************************************)
LEMMA ExpressionIs ==
  ASSUME NEW e \in Expression
  PROVE  /\ e.root \in AttrSet \cup Function
         /\ \A s \in AttrSet : \A a \in DOMAIN e.attrs[s] :
              a \in Name /\ e.attrs[s][a] \in Value
         /\ \A f \in Function : e.returns[f] \in AttrSet
         /\ e.forceRecurse \in BOOLEAN
BY ExpressionAssumption DEF ExpressionAssumption, Range

LEMMA Distinct ==
  /\ AttrSet \cap Function = {}
  /\ \A l \in Leaf : l \notin AttrSet /\ l \notin Function
BY ExpressionAssumption DEF ExpressionAssumption

LEMMA CalledIs ==
  ASSUME NEW e \in Expression, NEW v \in Value, NEW n
  PROVE  /\ CalledIn(e, v, n).of = CalledIn(e, v, 0).of
         /\ CalledIn(e, v, n).of \in Value \ Function
         /\ v \in Leaf => CalledIn(e, v, n).of = v
         /\ CalledIn(e, v, n).of \in Leaf => v = CalledIn(e, v, n).of
         /\ v \in Function => CalledIn(e, v, n).of \in AttrSet
         /\ v \notin Function => CalledIn(e, v, n).of = v
<1>1. \A f \in Function : e.returns[f] \in AttrSet
  BY ExpressionIs
<1>2. CASE v \in Function
  <2>1. CalledIn(e, v, n).of = e.returns[v] /\ CalledIn(e, v, 0).of = e.returns[v]
    BY <1>2 DEF CalledIn
  <2> QED BY <1>1, <1>2, <2>1, Distinct DEF Value
<1>3. CASE v \notin Function
  <2>1. CalledIn(e, v, n).of = v /\ CalledIn(e, v, 0).of = v
    BY <1>3 DEF CalledIn
  <2> QED BY <1>3, <2>1
<1> QED BY <1>2, <1>3

(* Every path of the traversal names a value. *)
LEMMA WayValue ==
  ASSUME NEW e \in Expression, NEW p, IsWay(e, p), NEW i \in 0 .. Len(p)
  PROVE  /\ ValueIn(e, Prefix(p, i)) \in Value
         /\ i < Len(p) => SetIn(e, Prefix(p, i)) \in AttrSet
         /\ i = 0 => SetIn(e, Prefix(p, i)) \in AttrSet
<1>1. p \in Seq(Name)
  BY DEF IsWay
<1>2. Len(p) \in Nat
  BY <1>1, LenProperties
<1>3. i < Len(p) => SetIn(e, Prefix(p, i)) \in AttrSet
  BY <1>2 DEF IsWay, IsOpen
<1>4. CASE i = 0
  <2>1. ValueIn(e, Prefix(p, 0)) = e.root
    BY <1>1, PrefixEnds, ValueOfRoot
  <2>2. e.root \in AttrSet \cup Function
    BY ExpressionIs
  <2>3. e.root \in Value
    BY <2>2 DEF Value
  <2>4. CalledIn(e, e.root, 0).of \in AttrSet
    <3>1. /\ e.root \in Function => CalledIn(e, e.root, 0).of \in AttrSet
          /\ e.root \notin Function => CalledIn(e, e.root, 0).of = e.root
      BY <2>3, CalledIs
    <3> QED BY <2>2, <3>1
  <2>5. SetIn(e, Prefix(p, 0)) \in AttrSet
    BY <2>1, <2>4 DEF SetIn
  <2> QED BY <1>3, <1>4, <2>1, <2>3, <2>5
<1>5. CASE i # 0
  <2>1. i \in 1 .. Len(p) /\ i - 1 \in 0 .. Len(p) - 1
    BY <1>2, <1>5
  <2>2. ValueIn(e, Prefix(p, i)) = e.attrs[SetIn(e, Prefix(p, i - 1))][p[i]]
    BY <1>1, <2>1, ValueBelow
  <2>3. /\ SetIn(e, Prefix(p, i - 1)) \in AttrSet
        /\ p[i - 1 + 1] \in DOMAIN e.attrs[SetIn(e, Prefix(p, i - 1))]
    BY <2>1 DEF IsWay, IsOpen
  <2>4. i - 1 + 1 = i
    BY <1>2
  <2> HIDE DEF Prefix
  <2>5. ValueIn(e, Prefix(p, i)) \in Value
    BY <2>2, <2>3, <2>4, ExpressionIs
  <2> QED BY <1>3, <1>5, <2>5
<1> QED BY <1>4, <1>5

LEMMA WayEnd ==
  ASSUME NEW e \in Expression, NEW p, IsWay(e, p)
  PROVE  /\ p \in Seq(Name) /\ ValueIn(e, p) \in Value
         /\ SetIn(e, p) \in Value \ Function
<1>1. p \in Seq(Name)
  BY DEF IsWay
<1>2. Len(p) \in 0 .. Len(p) /\ Prefix(p, Len(p)) = p
  BY <1>1, PrefixEnds
<1>3. ValueIn(e, p) \in Value
  <2>1. ValueIn(e, Prefix(p, Len(p))) \in Value
    BY <1>2, WayValue
  <2> QED BY <1>2, <2>1
<1> QED BY <1>1, <1>3, CalledIs DEF SetIn

LEMMA WayOfRoot ==
  ASSUME NEW e \in Expression
  PROVE  IsWay(e, <<>>)
BY DEF IsWay

(* The attributes of what is recursed into are visited. *)
LEMMA WayDown ==
  ASSUME NEW e \in Expression, NEW p, IsWay(e, p), IsOpen(e, p),
         NEW a \in DOMAIN e.attrs[SetIn(e, p)]
  PROVE  a \in Name /\ IsWay(e, Append(p, a))
<1>1. p \in Seq(Name) /\ SetIn(e, p) \in AttrSet
  BY DEF IsWay, IsOpen
<1>2. a \in Name
  BY <1>1, ExpressionIs
<1> DEFINE q == Append(p, a)
<1>3. /\ q \in Seq(Name) /\ Len(q) = Len(p) + 1 /\ q[Len(p) + 1] = a
      /\ \A i \in 1 .. Len(p) : q[i] = p[i]
      /\ \A i \in 0 .. Len(p) : Prefix(q, i) = Prefix(p, i)
  BY <1>1, <1>2, PrefixOfAppend
<1> HIDE DEF q
<1>4. Len(p) \in Nat /\ Prefix(p, Len(p)) = p
  BY <1>1, PrefixEnds
<1>5. ASSUME NEW i \in 0 .. Len(q) - 1
      PROVE  /\ IsOpen(e, Prefix(q, i))
             /\ q[i + 1] \in DOMAIN e.attrs[SetIn(e, Prefix(q, i))]
  <2>1. i \in 0 .. Len(p) /\ Prefix(q, i) = Prefix(p, i)
    BY <1>3, <1>4
  <2>2. CASE i = Len(p)
    BY <1>3, <1>4, <2>1, <2>2
  <2>3. CASE i # Len(p)
    <3>1. i \in 0 .. Len(p) - 1 /\ i + 1 \in 1 .. Len(p)
      BY <1>4, <2>1, <2>3
    <3>2. q[i + 1] = p[i + 1]
      BY <1>3, <3>1
    <3>3. /\ IsOpen(e, Prefix(p, i))
          /\ p[i + 1] \in DOMAIN e.attrs[SetIn(e, Prefix(p, i))]
      BY <3>1 DEF IsWay
    <3> QED BY <2>1, <3>2, <3>3
  <2> QED BY <2>2, <2>3
<1>6. IsWay(e, q)
  BY <1>3, <1>5 DEF IsWay
<1> QED BY <1>2, <1>6 DEF q

(* Above a path of the traversal there is one. *)
LEMMA WayUp ==
  ASSUME NEW e \in Expression, NEW p, IsWay(e, p), p # <<>>
  PROVE  /\ IsWay(e, Front(p)) /\ IsOpen(e, Front(p))
         /\ Last(p) \in DOMAIN e.attrs[SetIn(e, Front(p))]
         /\ SetIn(e, Front(p)) \in AttrSet /\ Last(p) \in Name
<1>1. p \in Seq(Name)
  BY DEF IsWay
<1>2. /\ Len(p) \in Nat /\ Len(p) # 0
      /\ Front(p) = Prefix(p, Len(p) - 1) /\ Last(p) = p[Len(p)]
  BY <1>1, PrefixEnds
<1> DEFINE n == Len(p) - 1
           q == Prefix(p, n)
<1>3. n \in 0 .. Len(p) /\ n \in 0 .. Len(p) - 1 /\ n + 1 = Len(p)
  BY <1>2
<1>4. /\ q \in Seq(Name) /\ Len(q) = n
      /\ \A j \in 1 .. n : q[j] = p[j]
  BY <1>1, <1>3, PrefixIs
<1>5. \A j \in 0 .. n : Prefix(q, j) = Prefix(p, j)
  BY <1>1, <1>3, PrefixOfPrefix
<1>6. IsOpen(e, q) /\ p[Len(p)] \in DOMAIN e.attrs[SetIn(e, q)]
  <2>1. IsOpen(e, q) /\ p[n + 1] \in DOMAIN e.attrs[SetIn(e, q)]
    BY <1>3 DEF IsWay
  <2> QED BY <1>3, <2>1
<1> HIDE DEF q
<1>7. IsWay(e, q)
  <2> SUFFICES ASSUME NEW i \in 0 .. Len(q) - 1
               PROVE  /\ IsOpen(e, Prefix(q, i))
                      /\ q[i + 1] \in DOMAIN e.attrs[SetIn(e, Prefix(q, i))]
    BY <1>4 DEF IsWay
  <2>1. i \in 0 .. Len(p) - 1 /\ i \in 0 .. n /\ i + 1 \in 1 .. n
    BY <1>2, <1>4
  <2>2. Prefix(q, i) = Prefix(p, i) /\ q[i + 1] = p[i + 1]
    BY <1>4, <1>5, <2>1
  <2>3. /\ IsOpen(e, Prefix(p, i))
        /\ p[i + 1] \in DOMAIN e.attrs[SetIn(e, Prefix(p, i))]
    BY <2>1 DEF IsWay
  <2> QED BY <2>2, <2>3
<1>8. SetIn(e, q) \in AttrSet
  BY <1>6 DEF IsOpen
<1>9. Front(p) = q /\ Last(p) = p[Len(p)]
  BY <1>2 DEF q
<1> QED BY <1>6, <1>7, <1>8, <1>9, ExpressionIs

(* The sets on the way are different ones, unless they were returned by    *)
(* calls: there are no more of them than there are sets.                   *)
CallsIn(e, p) == {i \in 0 .. Len(p) : ValueIn(e, Prefix(p, i)) \in Function}

LEMMA DepthOfWay ==
  ASSUME NEW e \in Expression, NEW p, IsWay(e, p)
  PROVE  Len(p) <= Cardinality(AttrSet) + Cardinality(CallsIn(e, Front(p)))
<1>1. p \in Seq(Name) /\ Len(p) \in Nat
  BY LenProperties DEF IsWay
<1>2. IsFiniteSet(AttrSet) /\ Cardinality(AttrSet) \in Nat
  BY ExpressionAssumption, FS_CardinalityType DEF ExpressionAssumption
<1>3. CASE p = <<>>
  <2>1. Front(p) = <<>>
    BY <1>3 DEF Front
  <2>2. CallsIn(e, Front(p)) \in SUBSET (0 .. 0)
    BY <2>1 DEF CallsIn
  <2>3. IsFiniteSet(0 .. 0)
    <3>1. 0 \in Int
      OBVIOUS
    <3> QED BY <3>1, FS_Interval
  <2>4. Cardinality(CallsIn(e, Front(p))) \in Nat
    BY <2>2, <2>3, FS_Subset, FS_CardinalityType
  <2>5. Len(p) = 0
    BY <1>3
  <2> QED BY <1>2, <2>4, <2>5
<1>4. CASE p # <<>>
  <2> DEFINE P == 0 .. Len(p) - 1
             C == {i \in P : ValueIn(e, Prefix(p, i)) \in Function}
             D == P \ C
             f == [i \in D |-> ValueIn(e, Prefix(p, i))]
  <2>1. Len(p) # 0 /\ Front(p) = Prefix(p, Len(p) - 1)
    BY <1>1, <1>4, PrefixEnds
  <2>2. Len(p) - 1 \in 0 .. Len(p)
    BY <1>1, <2>1
  <2>3. /\ Len(Front(p)) = Len(p) - 1
        /\ \A i \in P : Prefix(Front(p), i) = Prefix(p, i)
    BY <1>1, <2>1, <2>2, PrefixIs, PrefixOfPrefix
  <2>4. CallsIn(e, Front(p)) = C
    <3> HIDE DEF Prefix
    <3> QED BY <2>3 DEF CallsIn
  <2>5. IsFiniteSet(P) /\ Cardinality(P) = Len(p)
    BY <1>1, <2>1, FS_Interval
  <2>6. \A i \in D : i \in 0 .. Len(p) - 1 /\ ValueIn(e, Prefix(p, i)) \in AttrSet
    <3> SUFFICES ASSUME NEW i \in D
                 PROVE  ValueIn(e, Prefix(p, i)) \in AttrSet
      OBVIOUS
    <3>1. i \in 0 .. Len(p) /\ i \in 0 .. Len(p) - 1
      BY <1>1
    <3>2. /\ ValueIn(e, Prefix(p, i)) \in Value
          /\ ValueIn(e, Prefix(p, i)) \notin Function
      BY <3>1, WayValue
    <3>3. SetIn(e, Prefix(p, i)) \in AttrSet
      BY <3>1 DEF IsWay, IsOpen
    <3>4. SetIn(e, Prefix(p, i)) = ValueIn(e, Prefix(p, i))
      BY <3>2, CalledIs DEF SetIn
    <3> QED BY <3>3, <3>4
  <2>7. ASSUME NEW i \in D, NEW j \in D, i < j,
               ValueIn(e, Prefix(p, i)) = ValueIn(e, Prefix(p, j))
        PROVE  FALSE
    <3>1. j \in 0 .. Len(p) - 1 /\ j \in 0 .. Len(p) /\ i \in 0 .. j
          /\ i \in 0 .. j - 1
      BY <1>1, <2>7
    <3>2. ~Repeats(e, Prefix(p, j))
      BY <3>1 DEF IsWay, IsOpen
    <3>3. Len(Prefix(p, j)) = j /\ Prefix(Prefix(p, j), i) = Prefix(p, i)
      BY <1>1, <3>1, PrefixIs, PrefixOfPrefix
    <3> HIDE DEF Prefix
    <3> QED BY <2>6, <2>7, <3>1, <3>2, <3>3 DEF Repeats
  <2>8. f \in Injection(D, AttrSet)
    <3>1. f \in [D -> AttrSet]
      BY <2>6
    <3>2. \A i, j \in D : f[i] = f[j] => i = j
      <4> SUFFICES ASSUME NEW i \in D, NEW j \in D, f[i] = f[j], i # j
                   PROVE  FALSE
        OBVIOUS
      <4>1. i < j \/ j < i
        BY <1>1
      <4> QED BY <2>7, <4>1
    <3> HIDE DEF f, D
    <3> QED BY <3>1, <3>2, Fun_IsInj
  <2>9. Cardinality(D) <= Cardinality(AttrSet)
    <3> HIDE DEF f, D
    <3> QED BY <1>2, <2>8, FS_Injection
  <2>10. C = P \cap C
    OBVIOUS
  <2> HIDE DEF P, C
  <2>11. Cardinality(D) = Cardinality(P) - Cardinality(P \cap C)
    BY <2>5, FS_Difference
  <2>12. Cardinality(C) \in Nat /\ Cardinality(D) \in Nat
    BY <2>5, <2>10, FS_Intersection, FS_Difference, FS_CardinalityType
  <2> HIDE DEF D, f
  <2>13. Cardinality(P \cap C) = Cardinality(C)
    BY <2>10
  <2>14. Cardinality(P) = Cardinality(D) + Cardinality(C)
    BY <1>1, <2>5, <2>11, <2>12, <2>13
  <2>15. Len(p) <= Cardinality(AttrSet) + Cardinality(C)
    BY <1>1, <1>2, <2>5, <2>9, <2>12, <2>14
  <2> QED BY <2>4, <2>15
<1> QED BY <1>3, <1>4

(***************************************************************************)
(* The walk, in the terms above.                                           *)
(***************************************************************************)
LEMMA CalledNow == \A v, n : Called(v, n) = CalledIn(expr, v, n)
BY DEF Called, CalledIn

LEMMA ValueNow ==
  \A p : /\ ValueAt(p) = ValueIn(expr, p) /\ SetAt(p) = SetIn(expr, p)
        /\ QuirksAt(p) = QuirksIn(expr, p)
<1>1. \A p : ValueAt(p) = ValueIn(expr, p)
  BY DEF ValueAt, ValueIn, AttrsOf, Called, CalledIn
<1>2. \A p : SetAt(p) = SetIn(expr, p)
  BY <1>1, CalledNow DEF SetAt, SetIn
<1> QED BY <1>1, <1>2 DEF QuirksAt, QuirksIn

LEMMA RecurseNow ==
  \A s, top : MayRecurse(s, top) = MayRecurseIn(expr, s, top)
BY CalledNow DEF MayRecurse, MayRecurseIn, AttrsOf

LEMMA FailsNow ==
  ASSUME NEW p
  PROVE  /\ FailsIn(expr, p) => WalkFails(p)
         /\ DerivationFailsIn(expr, p) => DerivationFails(p)
<1>1. FailsIn(expr, p) => WalkFails(p)
  BY ValueNow, CalledNow DEF WalkFails, FailsIn, Repeats, AttrsOf, Prefix
<1>2. DerivationFailsIn(expr, p) => DerivationFails(p)
  BY ValueNow DEF DerivationFails, DerivationFailsIn, Asked
<1> QED BY <1>1, <1>2

(* Where the walk has arrived. *)
LEMMA Arrived ==
  ASSUME WalkInv
  PROVE  /\ expr \in Expression /\ path \in Seq(Name) /\ IsWay(expr, path)
         /\ depth \in Nat /\ depth <= Len(path) /\ Len(path) \in Nat
         /\ value.of = SetIn(expr, Prefix(path, depth))
         /\ value.of \in Value \ Function
         /\ ValueIn(expr, Prefix(path, depth)) \in Value
         /\ Len(ancestors) = depth
<1>1. /\ expr \in Expression /\ IsWay(expr, path) /\ path \in Seq(Name)
      /\ depth \in 0 .. Len(path)
      /\ value = CalledIn(expr, ValueIn(expr, Prefix(path, depth)), depth + 1)
      /\ ancestors =
           [i \in 1 .. depth |->
              CalledIn(expr, ValueIn(expr, Prefix(path, i - 1)), i)]
  BY DEF WalkInv, IsWay
<1>2. Len(path) \in Nat /\ depth \in Nat /\ depth <= Len(path)
  BY <1>1, LenProperties
<1>3. ValueIn(expr, Prefix(path, depth)) \in Value
  BY <1>1, WayValue
<1>4. /\ value.of = SetIn(expr, Prefix(path, depth))
      /\ value.of \in Value \ Function
  BY <1>1, <1>3, CalledIs DEF SetIn
<1>5. Len(ancestors) = depth
  BY <1>1, <1>2
<1> QED BY <1>1, <1>2, <1>3, <1>4, <1>5

LEMMA SelectedIs ==
  ASSUME WalkInv, depth = Len(path)
  PROVE  /\ value.of = SetIn(expr, path)
         /\ value.of \in AttrSet => (ContainsItself <=> Repeats(expr, path))
         /\ value.of \in AttrSet =>
              /\ Recurse <=> MayRecurseIn(expr, SetIn(expr, path), path = <<>>)
              /\ HasFlag <=> RecurseFor \in DOMAIN expr.attrs[SetIn(expr, path)]
              /\ Flag = CalledIn(expr,
                          expr.attrs[SetIn(expr, path)][RecurseFor], 0).of
<1>1. /\ expr \in Expression /\ path \in Seq(Name) /\ IsWay(expr, path)
      /\ depth \in Nat /\ Len(path) \in Nat
      /\ value.of = SetIn(expr, Prefix(path, depth))
      /\ ValueIn(expr, Prefix(path, depth)) \in Value
  BY Arrived
<1>2. Prefix(path, depth) = path
  BY <1>1, PrefixEnds
<1>3. value = CalledIn(expr, ValueIn(expr, path), depth + 1)
  BY <1>2 DEF WalkInv
<1>4. /\ value.of = SetIn(expr, path) /\ ValueIn(expr, path) \in Value
  BY <1>1, <1>2
<1>5. ASSUME value.of \in AttrSet
      PROVE  ContainsItself <=> Repeats(expr, path)
  <2>1. Range(ancestors) =
          {CalledIn(expr, ValueIn(expr, Prefix(path, i - 1)), i) :
             i \in 1 .. depth}
    BY DEF WalkInv, Range
  <2>2. ContainsItself <=>
          \E i \in 1 .. depth :
            CalledIn(expr, ValueIn(expr, Prefix(path, i - 1)), i) =
              CalledIn(expr, ValueIn(expr, path), depth + 1)
    BY <1>3, <2>1 DEF ContainsItself
  <2>3. ASSUME NEW i \in 1 .. depth
        PROVE  CalledIn(expr, ValueIn(expr, Prefix(path, i - 1)), i) =
                 CalledIn(expr, ValueIn(expr, path), depth + 1)
               <=> /\ ValueIn(expr, path) \in AttrSet
                   /\ ValueIn(expr, Prefix(path, i - 1)) = ValueIn(expr, path)
    <3>1. i # depth + 1 /\ i # 0 /\ depth + 1 # 0
      BY <1>1
    <3>2. CASE ValueIn(expr, path) \in Function
      <4>1. CalledIn(expr, ValueIn(expr, path), depth + 1).call = depth + 1
        BY <3>2 DEF CalledIn
      <4>2. CalledIn(expr, ValueIn(expr, Prefix(path, i - 1)), i).call \in {0, i}
        BY DEF CalledIn
      <4>3. ValueIn(expr, path) \notin AttrSet
        BY <3>2, Distinct
      <4> QED BY <3>1, <4>1, <4>2, <4>3
    <3>3. CASE ValueIn(expr, path) \notin Function
      <4>1. CalledIn(expr, ValueIn(expr, path), depth + 1) =
              [of |-> ValueIn(expr, path), call |-> 0]
        BY <3>3 DEF CalledIn
      <4>2. ValueIn(expr, path) \in AttrSet
        BY <1>3, <1>5, <4>1
      <4>3. CASE ValueIn(expr, Prefix(path, i - 1)) \in Function
        <5>1. CalledIn(expr, ValueIn(expr, Prefix(path, i - 1)), i).call = i
          BY <4>3 DEF CalledIn
        <5>2. CalledIn(expr, ValueIn(expr, path), depth + 1).call = 0
          BY <4>1
        <5> QED BY <3>1, <3>3, <4>3, <5>1, <5>2
      <4>4. CASE ValueIn(expr, Prefix(path, i - 1)) \notin Function
        <5>1. CalledIn(expr, ValueIn(expr, Prefix(path, i - 1)), i) =
                [of |-> ValueIn(expr, Prefix(path, i - 1)), call |-> 0]
          BY <4>4 DEF CalledIn
        <5> QED BY <4>1, <4>2, <5>1
      <4> QED BY <4>3, <4>4
    <3> QED BY <3>2, <3>3
  <2>4. ContainsItself <=>
          /\ ValueIn(expr, path) \in AttrSet
          /\ \E i \in 1 .. depth :
               ValueIn(expr, Prefix(path, i - 1)) = ValueIn(expr, path)
    <3>1. ContainsItself =>
            \E i \in 1 .. depth :
              /\ ValueIn(expr, path) \in AttrSet
              /\ ValueIn(expr, Prefix(path, i - 1)) = ValueIn(expr, path)
      BY <2>2, <2>3
    <3>2. (\E i \in 1 .. depth :
              /\ ValueIn(expr, path) \in AttrSet
              /\ ValueIn(expr, Prefix(path, i - 1)) = ValueIn(expr, path))
            => ContainsItself
      BY <2>2, <2>3
    <3> QED BY <3>1, <3>2
  <2>5. \A i \in 1 .. depth : i - 1 \in 0 .. Len(path) - 1
    BY <1>1
  <2>6. \A i \in 0 .. Len(path) - 1 : i + 1 \in 1 .. depth /\ (i + 1) - 1 = i
    BY <1>1
  <2> HIDE DEF Prefix
  <2> QED BY <2>4, <2>5, <2>6 DEF Repeats
<1>6. ASSUME value.of \in AttrSet
      PROVE  /\ Recurse <=> MayRecurseIn(expr, SetIn(expr, path), path = <<>>)
             /\ HasFlag <=> RecurseFor \in DOMAIN expr.attrs[SetIn(expr, path)]
             /\ Flag = CalledIn(expr,
                         expr.attrs[SetIn(expr, path)][RecurseFor], 0).of
  BY <1>4, CalledNow DEF Recurse, HasFlag, Flag, AttrsOf, MayRecurseIn,
     RecurseByDefault
<1> QED BY <1>4, <1>5, <1>6

(***************************************************************************)
(* Steps have much in common.                                              *)
(***************************************************************************)
LEMMA WalkStays ==
  ASSUME WalkInv, UNCHANGED <<expr, path, depth, value, ancestors>>,
         busy' \in BOOLEAN
  PROVE  WalkInv'
BY DEF WalkInv

LEMMA PathsStay ==
  ASSUME PathInv, UNCHANGED <<expr, todo, answer, path, busy, retried>>
  PROVE  PathInv'
BY DEF PathInv, InHand

LEMMA LinesStay ==
  ASSUME LineInv, UNCHANGED <<answer, lines>>
  PROVE  LineInv'
BY DEF LineInv

(* The count of the events only grows. *)
Counts == events \in Nat /\ events' \in Nat /\ events <= events'

LEMMA CountsOn ==
  ASSUME ProcessInv, events' = events \/ \E event : Happens(event)
  PROVE  Counts
BY JobAssumption DEF ProcessInv, Happens, JobAssumption, Counts

LEMMA CostsStay ==
  ASSUME Counts, NEW p, NEW n \in Nat, Costs(expr, events, p, n)
  PROVE  Costs(expr, events', p, n)
BY DEF Counts, Costs

LEMMA AnswersStay ==
  ASSUME AnswerInv, Counts, UNCHANGED <<expr, answer, lines>>,
         retried \subseteq retried', gcRoots \subseteq gcRoots',
         \A p \in retried' \ retried : Costs(expr, events', p, 1)
  PROVE  AnswerInv'
<1>0. \A p \in retried' : Costs(expr', events', p, 1)
  BY CostsStay DEF AnswerInv
<1>1. \A p \in DOMAIN answer' : answer'[p].type = "error" =>
        \/ FailsIn(expr', p) \/ DerivationFailsIn(expr', p)
        \/ p \in retried' /\ Costs(expr', events', p, 2)
  BY CostsStay DEF AnswerInv
<1>2. \A p \in DOMAIN answer' : answer'[p].type = "job" =>
        /\ RootWantedIn(expr') => lines'[p].drvPath \in gcRoots'
        /\ ReadsStore(expr') =>
             \/ \E q \in DOMAIN answer' : IsImprecise(expr', q)
             \/ /\ "requiredSystemFeatures" \in DOMAIN lines'[p]
                /\ "showInputDrvs" \in expr'.args =>
                     "inputDrvs" \in DOMAIN lines'[p]
  BY DEF AnswerInv
<1> QED BY <1>0, <1>1, <1>2 DEF AnswerInv

(* A path that is answered leaves the process, and lists new ones.         *)
LEMMA AnswerPaths ==
  ASSUME WalkInv, PathInv, busy,
         NEW type \in {"attrs", "job", "error", "fatal", "abort"},
         NEW names \in SUBSET Name, Answer(type, names),
         \A a \in names : IsWay(expr, Append(path, a)),
         retried' = retried
  PROVE  /\ WalkInv' /\ PathInv'
         /\ DOMAIN answer' = DOMAIN answer \cup {path}
         /\ answer'[path] = [type |-> type, attrs |-> names]
         /\ \A p \in DOMAIN answer : p # path /\ answer'[p] = answer[p]
         /\ expr' = expr /\ busy' = FALSE
<1>1. /\ answer' = [p \in DOMAIN answer \cup {path} |->
                      IF p = path THEN [type |-> type, attrs |-> names]
                                  ELSE answer[p]]
      /\ todo' = todo \cup {Append(path, a) : a \in names}
      /\ busy' = FALSE
      /\ UNCHANGED <<expr, path, depth, value, ancestors>>
  BY DEF Answer
<1>2. WalkInv'
  BY <1>1, WalkStays
<1>3. path \notin todo /\ path \notin DOMAIN answer
  BY DEF PathInv, InHand
<1>4. /\ DOMAIN answer' = DOMAIN answer \cup {path}
      /\ answer'[path] = [type |-> type, attrs |-> names]
      /\ \A p \in DOMAIN answer : p # path /\ answer'[p] = answer[p]
  BY <1>1, <1>3
<1>5. path \in Seq(Name) /\ IsWay(expr, path)
  BY Arrived
<1>6. \A a \in names : /\ Append(path, a) # <<>>
                       /\ Front(Append(path, a)) = path
                       /\ Append(path, a) # path
  <2> SUFFICES ASSUME NEW a \in names
               PROVE  /\ Append(path, a) # <<>>
                      /\ Front(Append(path, a)) = path
                      /\ Append(path, a) # path
    OBVIOUS
  <2>1. /\ Append(path, a) # <<>> /\ Front(Append(path, a)) = path
        /\ Len(Append(path, a)) = Len(path) + 1
    BY <1>5, PrefixOfAppend
  <2>2. Len(path) \in Nat
    BY <1>5, PrefixEnds
  <2> QED BY <2>1, <2>2
<1> DEFINE new == {Append(path, a) : a \in names}
<1>7. \A p \in new : /\ IsWay(expr, p) /\ p # <<>> /\ Front(p) = path /\ p # path
  BY <1>6
<1>8. todo' = todo \cup new
  BY <1>1
<1> HIDE DEF new
<1>9. \A p \in new : p \notin DOMAIN answer /\ p \notin todo
  BY <1>3, <1>7 DEF PathInv
<1>10. \A p \in todo' \cup DOMAIN answer' : IsWay(expr', p)
  BY <1>1, <1>4, <1>5, <1>7, <1>8 DEF PathInv
<1>11. todo' \cap DOMAIN answer' = {}
  BY <1>3, <1>4, <1>7, <1>8, <1>9 DEF PathInv
<1>12. InHand' = {}
  BY <1>1 DEF InHand
<1>13. \A p \in todo' \cup DOMAIN answer' : p # <<>> => Front(p) \in DOMAIN answer'
  <2>1. \A p \in todo \cup DOMAIN answer \cup {path} :
          p # <<>> => Front(p) \in DOMAIN answer
    BY DEF PathInv, InHand
  <2> QED BY <1>4, <1>7, <1>8, <2>1
<1>14. Range(answer') \subseteq Payload
  <2>1. [type |-> type, attrs |-> names] \in Payload
    BY DEF Payload
  <2>2. \A p \in DOMAIN answer : answer[p] \in Payload
    BY DEF PathInv, Range
  <2>3. \A p \in DOMAIN answer' : answer'[p] \in Payload
    BY <1>4, <2>1, <2>2
  <2> QED BY <2>3 DEF Range
<1>15. retried' \subseteq todo' \cup DOMAIN answer' \cup InHand'
  BY <1>4, <1>8 DEF PathInv, InHand
<1>16. PathInv'
  BY <1>10, <1>11, <1>12, <1>13, <1>14, <1>15 DEF PathInv
<1> QED BY <1>1, <1>2, <1>4, <1>16

(* Everything but a derivation. *)
LEMMA AnswerLines ==
  ASSUME WalkInv, PathInv, LineInv, AnswerInv, Counts, busy,
         NEW type \in {"attrs", "error", "fatal", "abort"},
         NEW names \in SUBSET Name, Answer(type, names),
         \A a \in names : IsWay(expr, Append(path, a)),
         type = "error" => \/ FailsIn(expr, path)
                           \/ DerivationFailsIn(expr, path)
                           \/ /\ path \in retried
                              /\ Costs(expr, events', path, 2),
         \/ type = "abort" /\ lines' = lines
         \/ \E r : /\ IsResponse(r)
                   /\ lines' = [p \in DOMAIN lines \cup {path} |->
                                  IF p = path THEN ToJson(r) ELSE lines[p]],
         retried' = retried, gcRoots \subseteq gcRoots'
  PROVE  WalkInv' /\ PathInv' /\ LineInv' /\ AnswerInv'
<1>1. /\ WalkInv' /\ PathInv'
      /\ DOMAIN answer' = DOMAIN answer \cup {path}
      /\ answer'[path] = [type |-> type, attrs |-> names]
      /\ \A p \in DOMAIN answer : p # path /\ answer'[p] = answer[p]
      /\ expr' = expr
  BY AnswerPaths
<1>2. answer'[path].type = type
  BY <1>1
<1>3. /\ DOMAIN lines \subseteq DOMAIN lines'
      /\ DOMAIN lines' \subseteq DOMAIN lines \cup {path}
      /\ path \in DOMAIN lines' \/ type = "abort"
      /\ \A p \in DOMAIN lines : lines'[p] = lines[p]
      /\ path \in DOMAIN lines' =>
           \E r : IsResponse(r) /\ lines'[path] = ToJson(r)
  <2>1. path \notin DOMAIN lines /\ DOMAIN lines \subseteq DOMAIN answer
    BY <1>1 DEF LineInv
  <2>2. CASE lines' = lines /\ type = "abort"
    BY <2>1, <2>2
  <2>3. CASE \E r : /\ IsResponse(r)
                   /\ lines' = [p \in DOMAIN lines \cup {path} |->
                                  IF p = path THEN ToJson(r) ELSE lines[p]]
    <3>1. PICK r : /\ IsResponse(r)
                   /\ lines' = [p \in DOMAIN lines \cup {path} |->
                                  IF p = path THEN ToJson(r) ELSE lines[p]]
      BY <2>3
    <3>2. /\ DOMAIN lines' = DOMAIN lines \cup {path}
          /\ lines'[path] = ToJson(r)
          /\ \A p \in DOMAIN lines : lines'[p] = lines[p]
      BY <2>1, <3>1
    <3> QED BY <1>1, <3>1, <3>2
  <2> QED BY <2>2, <2>3
<1>4. LineInv'
  <2>1. \A p \in DOMAIN answer' \ DOMAIN lines' : answer'[p].type = "abort"
    BY <1>1, <1>2, <1>3 DEF LineInv
  <2>2. ASSUME NEW p \in DOMAIN lines'
        PROVE  IsLineOf(lines'[p], answer'[p].type)
    <3>1. CASE p = path
      BY <1>2, <1>3, <3>1 DEF IsLineOf
    <3>2. CASE p # path
      BY <1>1, <1>3, <3>2 DEF LineInv
    <3> QED BY <3>1, <3>2
  <2>3. DOMAIN lines' \subseteq DOMAIN answer'
    BY <1>1, <1>3 DEF LineInv
  <2> QED BY <2>1, <2>2, <2>3 DEF LineInv
<1>5. AnswerInv'
  <2>1. \A p \in DOMAIN answer : answer[p].type = "job" => p \in DOMAIN lines
    BY DEF LineInv
  <2>0. \A p \in retried' : Costs(expr', events', p, 1)
    BY <1>1, CostsStay DEF AnswerInv
  <2>2. \A p \in DOMAIN answer' : answer'[p].type = "error" =>
          \/ FailsIn(expr', p) \/ DerivationFailsIn(expr', p)
          \/ p \in retried' /\ Costs(expr', events', p, 2)
    BY <1>1, <1>2, CostsStay DEF AnswerInv
  <2>3. \A p \in DOMAIN answer' : answer'[p].type = "job" =>
          p \in DOMAIN answer /\ answer[p].type = "job" /\ lines'[p] = lines[p]
    BY <1>1, <1>2, <1>3, <2>1
  <2>4. \A p \in DOMAIN answer' : answer'[p].type = "job" =>
          /\ RootWantedIn(expr') => lines'[p].drvPath \in gcRoots'
          /\ ReadsStore(expr') =>
               \/ \E q \in DOMAIN answer' : IsImprecise(expr', q)
               \/ /\ "requiredSystemFeatures" \in DOMAIN lines'[p]
                  /\ "showInputDrvs" \in expr'.args =>
                       "inputDrvs" \in DOMAIN lines'[p]
    BY <1>1, <2>3 DEF AnswerInv
  <2> QED BY <2>0, <2>2, <2>4 DEF AnswerInv
<1> QED BY <1>1, <1>4, <1>5

(* A derivation is an attribute of the set above it. *)
LEMMA DerivationAt ==
  ASSUME WalkInv, depth = Len(path), value.of = "derivation"
  PROVE  /\ path # <<>> /\ SetIn(expr, path) = "derivation"
         /\ DrvSlot = <<SetIn(expr, Front(path)), Last(path)>>
         /\ DrvSlot \in Slot /\ Quirks = QuirksIn(expr, path)
<1>1. /\ expr \in Expression /\ path \in Seq(Name) /\ IsWay(expr, path)
      /\ depth \in Nat /\ Len(path) \in Nat /\ Len(ancestors) = depth
  BY Arrived
<1>2. SetIn(expr, path) = "derivation"
  BY SelectedIs
<1>3. "derivation" \notin AttrSet
  BY Distinct DEF Leaf
<1>4. path # <<>>
  <2>1. 0 \in 0 .. Len(path)
    BY <1>1
  <2>2. SetIn(expr, Prefix(path, 0)) \in AttrSet
    BY <1>1, <2>1, WayValue
  <2>3. Prefix(path, 0) = <<>>
    BY <1>1, PrefixEnds
  <2> QED BY <1>2, <1>3, <2>2, <2>3
<1>5. /\ SetIn(expr, Front(path)) \in AttrSet /\ Last(path) \in Name
  BY <1>1, <1>4, WayUp
<1>6. Last(ancestors).of = SetIn(expr, Front(path))
  <2>1. depth # 0 /\ depth \in 1 .. depth /\ depth - 1 \in 0 .. Len(path)
        /\ Front(path) = Prefix(path, depth - 1)
    BY <1>1, <1>4, PrefixEnds
  <2>2. ancestors[depth] =
          CalledIn(expr, ValueIn(expr, Prefix(path, depth - 1)), depth)
    BY <2>1 DEF WalkInv
  <2>3. ValueIn(expr, Prefix(path, depth - 1)) \in Value
    BY <1>1, <2>1, WayValue
  <2>4. ancestors[depth].of =
          CalledIn(expr, ValueIn(expr, Prefix(path, depth - 1)), 0).of
    BY <1>1, <2>2, <2>3, CalledIs
  <2>5. Last(ancestors) = ancestors[depth]
    BY <1>1 DEF Last
  <2> HIDE DEF Prefix
  <2> QED BY <2>1, <2>4, <2>5 DEF SetIn
<1>7. DrvSlot = <<SetIn(expr, Front(path)), Last(path)>>
  BY <1>6 DEF DrvSlot
<1>8. DrvSlot \in Slot
  BY <1>5, <1>7 DEF Slot
<1>9. Quirks = QuirksIn(expr, path)
  BY <1>7 DEF Quirks, QuirksIn
<1> QED BY <1>2, <1>4, <1>7, <1>8, <1>9

LEMMA NoLogsAreLogs == IsLogs(NoLogs) /\ DOMAIN NoLogs = {"warnings", "traces"}
BY DEF IsLogs, NoLogs

LEMMA CapturedAreLogs ==
  ASSUME IsLogs(logs), NEW messages
  PROVE  IsLogs(Captured(messages))
<1>1. DOMAIN logs = DOMAIN NoLogs
  BY DEF IsLogs
<1> DEFINE more == [k \in DOMAIN logs |->
                      logs[k] \o SetToSeq({s \in messages : expr.says[s] = k})]
<1>2. DOMAIN more = DOMAIN logs /\ more = [k \in DOMAIN more |-> more[k]]
  OBVIOUS
<1> HIDE DEF more
<1>3. IsLogs(more)
  BY <1>1, <1>2 DEF IsLogs
<1> QED BY <1>3 DEF Captured, more

(* The steps that leave the walk and the answers alone. *)
LEMMA ReadCommandStep ==
  ASSUME IInv, ReadCommand, UNCHANGED events
  PROVE  IInv'
<1> USE DEF IInv
<1>1. /\ ~busy /\ busy' = TRUE /\ depth' = 0 /\ ancestors' = <<>>
      /\ value' = Called(expr.root, 1)
      /\ path' \in todo /\ todo' = todo \ {path'}
      /\ UNCHANGED <<expr, answer>>
      /\ stage' = "walk" /\ logs' = NoLogs
      /\ UNCHANGED <<job, forced, storeReads, gcRoots, lines, retried>>
  BY DEF ReadCommand, TakeJob, Takeable, NoAncestors, LogsBeforeJob
<1>2. expr \in Expression /\ IsWay(expr, path')
  BY <1>1 DEF WalkInv, PathInv
<1>3. WalkInv'
  <2>1. path' \in Seq(Name) /\ Len(path') \in Nat /\ Prefix(path', 0) = <<>>
    BY <1>2, PrefixEnds DEF IsWay
  <2>2. value' = CalledIn(expr', ValueIn(expr', Prefix(path', depth')), depth' + 1)
    BY <1>1, <2>1, CalledNow, ValueOfRoot
  <2>3. ancestors' =
          [i \in 1 .. depth' |->
             CalledIn(expr', ValueIn(expr', Prefix(path', i - 1)), i)]
    BY <1>1
  <2>4. depth' \in 0 .. Len(path')
    BY <1>1, <2>1
  <2> QED BY <1>1, <1>2, <2>2, <2>3, <2>4 DEF WalkInv
<1>4. PathInv'
  <2>1. InHand = {} /\ InHand' = {path'}
    BY <1>1 DEF InHand
  <2>2. path' \notin DOMAIN answer
    BY <1>1 DEF PathInv
  <2>3. \A p \in todo' \cup DOMAIN answer' \cup InHand' :
          p # <<>> => Front(p) \in DOMAIN answer'
    BY <1>1, <2>1 DEF PathInv
  <2> QED BY <1>1, <2>1, <2>2, <2>3 DEF PathInv
<1>5. JobInv'
  BY <1>1 DEF JobInv
<1>6. ProcessInv'
  <2>1. ~storeReads => \E q \in DOMAIN answer : IsImprecise(expr, q)
    BY <1>1 DEF ProcessInv, JobInv
  <2> QED BY <1>1, <2>1, NoLogsAreLogs DEF ProcessInv
<1>7. LineInv'
  BY <1>1, LinesStay
<1>8. AnswerInv'
  BY <1>1, CountsOn, AnswersStay
<1> QED BY <1>3, <1>4, <1>5, <1>6, <1>7, <1>8

LEMMA SelectStep ==
  ASSUME IInv, Select, UNCHANGED events
  PROVE  IInv'
<1> USE DEF IInv
<1>1. /\ busy /\ depth < Len(path) /\ value.of \in AttrSet
      /\ path[depth + 1] \in DOMAIN expr.attrs[value.of]
      /\ ancestors' = Append(ancestors, value)
      /\ value' = Called(expr.attrs[value.of][path[depth + 1]], depth + 2)
      /\ depth' = depth + 1
      /\ UNCHANGED <<expr, todo, answer, path, busy>>
      /\ UNCHANGED <<stage, job, storeReads, gcRoots, lines, retried>>
      /\ logs' = Captured(Message(value, path[depth + 1]))
      /\ forced' = ForcedWith(value, path[depth + 1])
  BY DEF Select, SelectAttr, ForceAttr, AttrsOf
<1>2. /\ expr \in Expression /\ path \in Seq(Name) /\ IsWay(expr, path)
      /\ depth \in Nat /\ depth <= Len(path) /\ Len(path) \in Nat
      /\ value.of = SetIn(expr, Prefix(path, depth))
      /\ Len(ancestors) = depth
  BY Arrived
<1>3. stage = "walk"
  BY <1>1, <1>2 DEF JobInv
<1>4. WalkInv'
  <2>1. depth + 1 \in 1 .. Len(path) /\ depth + 1 \in 0 .. Len(path)
    BY <1>1, <1>2
  <2>2. ValueIn(expr, Prefix(path, depth + 1)) =
          expr.attrs[SetIn(expr, Prefix(path, depth))][path[depth + 1]]
    <3> DEFINE n == depth + 1
    <3>1. n \in 1 .. Len(path) /\ n - 1 = depth
      BY <1>2, <2>1
    <3> HIDE DEF n
    <3>2. ValueIn(expr, Prefix(path, n)) =
            expr.attrs[SetIn(expr, Prefix(path, n - 1))][path[n]]
      BY <1>2, <3>1, ValueBelow
    <3> QED BY <3>1, <3>2 DEF n
  <2>3. value' = CalledIn(expr, ValueIn(expr, Prefix(path, depth + 1)),
                          depth + 1 + 1)
    <3>1. depth + 2 = depth + 1 + 1
      BY <1>2
    <3> QED BY <1>1, <1>2, <2>2, <3>1, CalledNow
  <2>4. ancestors' =
          [i \in 1 .. depth + 1 |->
             CalledIn(expr, ValueIn(expr, Prefix(path, i - 1)), i)]
    <3> DEFINE old == [i \in 1 .. depth |->
                  CalledIn(expr, ValueIn(expr, Prefix(path, i - 1)), i)]
               new == [i \in 1 .. depth + 1 |->
                  CalledIn(expr, ValueIn(expr, Prefix(path, i - 1)), i)]
    <3>1. ancestors = old
      BY DEF WalkInv
    <3>2. value = CalledIn(expr, ValueIn(expr, Prefix(path, depth)), depth + 1)
      BY DEF WalkInv
    <3>3. new[depth + 1] = value
      <4> DEFINE n == depth + 1
      <4>1. n \in 1 .. n /\ n - 1 = depth
        BY <1>2
      <4> HIDE DEF n
      <4>2. [i \in 1 .. n |->
               CalledIn(expr, ValueIn(expr, Prefix(path, i - 1)), i)][n]
              = CalledIn(expr, ValueIn(expr, Prefix(path, n - 1)), n)
        BY <4>1
      <4> QED BY <3>2, <4>1, <4>2 DEF n
    <3>4. \A i \in 1 .. depth : new[i] = ancestors[i]
      BY <1>2, <3>1
    <3>5. new = [i \in 1 .. depth + 1 |-> new[i]]
      OBVIOUS
    <3> HIDE DEF old, new
    <3>6. ancestors' = [i \in 1 .. depth + 1 |->
                          IF i = depth + 1 THEN value ELSE ancestors[i]]
      <4> DEFINE S == {ancestors[i] : i \in 1 .. depth} \cup {value}
                 s == [i \in 1 .. depth + 1 |->
                         IF i = depth + 1 THEN value ELSE ancestors[i]]
      <4>1. ancestors \in Seq(S)
        <5>1. ancestors = [i \in 1 .. depth |-> ancestors[i]]
          BY <3>1 DEF old
        <5> QED BY <1>2, <5>1
      <4>2. s \in [1 .. depth + 1 -> S] /\ depth + 1 \in Nat
        BY <1>2
      <4>3. s \in Seq(S) /\ Len(s) = depth + 1
        <5> HIDE DEF s, S
        <5> QED BY <4>2, SeqDef
      <4>4. s[depth + 1] = value /\ \A i \in 1 .. depth : s[i] = ancestors[i]
        BY <1>2
      <4>5. value \in S
        OBVIOUS
      <4> HIDE DEF s, S
      <4>6. /\ Append(ancestors, value) \in Seq(S)
            /\ Len(Append(ancestors, value)) = depth + 1
            /\ Append(ancestors, value)[depth + 1] = value
            /\ \A i \in 1 .. depth : Append(ancestors, value)[i] = ancestors[i]
        BY <1>2, <4>1, <4>5, AppendProperties
      <4>7. \A i \in 1 .. depth + 1 : Append(ancestors, value)[i] = s[i]
        <5>1. \A i \in 1 .. depth + 1 : i = depth + 1 \/ i \in 1 .. depth
          BY <1>2
        <5> QED BY <4>4, <4>6, <5>1
      <4>8. Append(ancestors, value) = s
        BY <4>3, <4>6, <4>7, SeqEqual
      <4> QED BY <1>1, <4>8 DEF s
    <3>7. \A i \in 1 .. depth + 1 :
            new[i] = IF i = depth + 1 THEN value ELSE ancestors[i]
      <4>1. \A i \in 1 .. depth + 1 : i # depth + 1 => i \in 1 .. depth
        BY <1>2
      <4> QED BY <3>3, <3>4, <4>1
    <3>8. ancestors' = new
      BY <3>5, <3>6, <3>7
    <3> QED BY <3>8 DEF new
  <2> HIDE DEF Prefix
  <2> QED BY <1>1, <1>2, <2>1, <2>3, <2>4 DEF WalkInv
<1>5. PathInv'
  BY <1>1, PathsStay
<1>6. JobInv'
  BY <1>1, <1>3 DEF JobInv
<1>7. ProcessInv'
  <2>1. IsLogs(logs')
    BY <1>1, CapturedAreLogs DEF ProcessInv
  <2>2. forced' \subseteq Slot
    <3>1. path[depth + 1] \in Name
      <4>1. depth + 1 \in 1 .. Len(path)
        BY <1>1, <1>2
      <4> QED BY <1>2, <4>1, ElementOfSeq
    <3>2. <<value.of, path[depth + 1]>> \in Slot
      BY <1>1, <3>1 DEF Slot
    <3> QED BY <1>1, <3>2 DEF ForcedWith, ProcessInv
  <2> QED BY <1>1, <1>3, <2>1, <2>2 DEF ProcessInv, IsLogs
<1>8. LineInv'
  BY <1>1, LinesStay
<1>9. AnswerInv'
  BY <1>1, CountsOn, AnswersStay
<1> QED BY <1>4, <1>5, <1>6, <1>7, <1>8, <1>9

(* What evaluate answers when it finds no derivation. *)
Evaluates == EvaluateThrows \/ EvaluateOther \/ EvaluateCycle \/ EvaluateSet

LEMMA EvaluatesIs ==
  ASSUME WalkInv, Evaluates
  PROVE  /\ Selected /\ value.of # "derivation"
         /\ \E type \in {"attrs", "error", "fatal"}, names \in SUBSET Name :
              /\ Answer(type, names)
              /\ \A a \in names : IsWay(expr, Append(path, a))
              /\ type = "error" => FailsIn(expr, path)
<1>1. expr \in Expression /\ IsWay(expr, path)
  BY Arrived
<1>2. {} \in SUBSET Name
  OBVIOUS
<1>3. CASE EvaluateThrows
  <2>1. Selected
    BY <1>3 DEF EvaluateThrows
  <2>2. value.of = SetIn(expr, path)
    BY <2>1, SelectedIs DEF Selected
  <2>3. CASE value.of = "throws" /\ Answer("error", {})
    <3>1. FailsIn(expr, path)
      BY <2>2, <2>3 DEF FailsIn
    <3> QED BY <1>2, <2>1, <2>3, <3>1
  <2>4. CASE value.of = "overflow" /\ Answer("fatal", {})
    BY <1>2, <2>1, <2>4
  <2> QED BY <1>3, <2>3, <2>4 DEF EvaluateThrows
<1>4. CASE EvaluateOther
  BY <1>2, <1>4 DEF EvaluateOther
<1>5. CASE EvaluateCycle
  <2>1. Selected /\ value.of \in AttrSet /\ ContainsItself /\ Answer("error", {})
    BY <1>5 DEF EvaluateCycle
  <2>2. Repeats(expr, path)
    BY <2>1, SelectedIs DEF Selected
  <2>3. FailsIn(expr, path)
    BY <2>2 DEF FailsIn
  <2>4. value.of # "derivation"
    BY <2>1, Distinct DEF Leaf
  <2> QED BY <1>2, <2>1, <2>3, <2>4
<1>6. CASE EvaluateSet
  <2>1. /\ Selected /\ value.of \in AttrSet /\ ~ContainsItself
        /\ \/ FlagThrows
              /\ Answer(IF Flag = "overflow" THEN "fatal" ELSE "error", {})
           \/ ~FlagThrows /\ Answer("attrs", Listed)
    BY <1>6 DEF EvaluateSet
  <2>2. depth = Len(path)
    BY <2>1 DEF Selected
  <2>3. /\ value.of = SetIn(expr, path) /\ ~Repeats(expr, path)
        /\ Recurse <=> MayRecurseIn(expr, SetIn(expr, path), path = <<>>)
        /\ HasFlag <=> RecurseFor \in DOMAIN expr.attrs[SetIn(expr, path)]
        /\ Flag = CalledIn(expr,
                    expr.attrs[SetIn(expr, path)][RecurseFor], 0).of
    BY <2>1, <2>2, SelectedIs
  <2>4. value.of # "derivation"
    BY <2>1, Distinct DEF Leaf
  <2>5. CASE FlagThrows /\ Answer(IF Flag = "overflow" THEN "fatal" ELSE "error", {})
    <3>1. FailsIn(expr, path)
      BY <2>1, <2>3, <2>5 DEF FlagThrows, FailsIn
    <3>2. CASE Flag = "overflow"
      <4>1. Answer("fatal", {})
        BY <2>5, <3>2
      <4> QED BY <1>2, <2>1, <2>4, <4>1
    <3>3. CASE Flag # "overflow"
      <4>1. Answer("error", {})
        BY <2>5, <3>3
      <4> QED BY <1>2, <2>1, <2>4, <3>1, <4>1
    <3> QED BY <3>2, <3>3
  <2>6. CASE ~FlagThrows /\ Answer("attrs", Listed)
    <3>1. Listed \in SUBSET Name
      BY <1>1, <2>1, ExpressionIs DEF Listed, AttrsOf
    <3>2. \A a \in Listed : IsWay(expr, Append(path, a))
      <4> SUFFICES ASSUME NEW a \in Listed
                   PROVE  IsWay(expr, Append(path, a))
        OBVIOUS
      <4>1. Recurse /\ a \in DOMAIN expr.attrs[SetIn(expr, path)]
        BY <2>3 DEF Listed, AttrsOf
      <4>2. IsOpen(expr, path)
        BY <2>1, <2>3, <4>1 DEF IsOpen
      <4> QED BY <1>1, <4>1, <4>2, WayDown
    <3> QED BY <2>1, <2>4, <2>6, <3>1, <3>2
  <2> QED BY <2>1, <2>5, <2>6
<1> QED BY <1>3, <1>4, <1>5, <1>6 DEF Evaluates

LEMMA WalkPayloadIs ==
  ASSUME NEW type \in {"attrs", "error", "fatal"}, NEW names
  PROVE  IsPayload(WalkPayload([type |-> type, attrs |-> names]))
<1> DEFINE answered == [type |-> type, attrs |-> names]
<1>1. answered.type = type /\ answered.attrs = names
  OBVIOUS
<1>2. CASE type = "attrs"
  BY <1>2 DEF WalkPayload, IsPayload
<1>3. CASE type # "attrs"
  <2>1. WalkPayload(answered) = ErrorPayload(type = "fatal")
    BY <1>3 DEF WalkPayload
  <2> QED BY <2>1 DEF ErrorPayload, IsPayload
<1> QED BY <1>2, <1>3

LEMMA RespondWalkStep ==
  ASSUME IInv, RespondWalk, UNCHANGED events
  PROVE  IInv'
<1> USE DEF IInv
<1> DEFINE said == IF ForcesFlag THEN Message(value, RecurseFor) ELSE {}
           captured == Captured(said)
<1>1. /\ Evaluates
      /\ WriteLine(WalkPayload(answer'[path]), captured)
      /\ forced' = IF ForcesFlag THEN ForcedWith(value, RecurseFor) ELSE forced
      /\ UNCHANGED <<job, storeReads, gcRoots, retried>>
  BY DEF RespondWalk, Evaluates
<1>2. busy /\ value.of # "derivation"
  BY <1>1, EvaluatesIs DEF Selected
<1>3. PICK type \in {"attrs", "error", "fatal"}, names \in SUBSET Name :
        /\ Answer(type, names)
        /\ \A a \in names : IsWay(expr, Append(path, a))
        /\ type = "error" => FailsIn(expr, path)
  BY <1>1, EvaluatesIs
<1>4. IsLogs(captured)
  BY CapturedAreLogs DEF ProcessInv
<1> HIDE DEF captured
<1>5. answer'[path] = [type |-> type, attrs |-> names]
  BY <1>3 DEF Answer
<1> DEFINE r == [attrPath |-> path, logs |-> captured,
                 payload |-> WalkPayload(answer'[path])]
<1>6. /\ lines' = [p \in DOMAIN lines \cup {path} |->
                     IF p = path THEN ToJson(r) ELSE lines[p]]
      /\ logs' = NoLogs /\ stage' = "walk"
  BY <1>1 DEF WriteLine, Report, LogsAfterResponse
<1>7. IsResponse(r)
  <2>1. IsPayload(WalkPayload(answer'[path]))
    BY <1>5, WalkPayloadIs
  <2> HIDE DEF IsPayload
  <2> QED BY <1>4, <2>1 DEF IsResponse
<1> HIDE DEF r
<1>8. WalkInv' /\ PathInv' /\ LineInv' /\ AnswerInv'
  <2>1. /\ \E x : /\ IsResponse(x)
                  /\ lines' = [p \in DOMAIN lines \cup {path} |->
                                 IF p = path THEN ToJson(x) ELSE lines[p]]
        /\ retried' = retried /\ gcRoots \subseteq gcRoots'
    BY <1>1, <1>6, <1>7
  <2>2. type \in {"attrs", "error", "fatal", "abort"}
    OBVIOUS
  <2> QED BY <1>2, <1>3, <2>1, <2>2, CountsOn, AnswerLines
<1>9. JobInv'
  BY <1>6 DEF JobInv
<1>10. stage \notin {"root", "respond"}
  BY <1>2 DEF JobInv
<1>11. ProcessInv'
  <2>1. forced' \subseteq Slot
    <3>1. ForcesFlag => <<value.of, RecurseFor>> \in Slot
      BY ExpressionAssumption DEF ExpressionAssumption, ForcesFlag, Slot
    <3> QED BY <1>1, <3>1 DEF ForcedWith, ProcessInv
  <2>2. DOMAIN answer \subseteq DOMAIN answer' /\ expr' = expr
    BY <1>3 DEF Answer
  <2>3. ~storeReads' => \E q \in DOMAIN answer' : IsImprecise(expr', q)
    BY <1>1, <1>10, <2>2 DEF ProcessInv
  <2> QED BY <1>1, <1>6, <2>1, <2>3, NoLogsAreLogs DEF ProcessInv
<1> QED BY <1>8, <1>9, <1>11

(* An exception in processDerivation ends the job, whatever the stage. *)
LEMMA RespondErrorStep ==
  ASSUME IInv, busy, RespondError, DerivationFailsIn(expr, path),
         storeReads' \in BOOLEAN,
         ~storeReads' =>
           \E q \in DOMAIN answer \cup {path} : IsImprecise(expr, q),
         UNCHANGED events
  PROVE  IInv'
<1> USE DEF IInv
<1>1. /\ Answer("error", {}) /\ stage' = "walk" /\ logs' = NoLogs
      /\ lines' = [p \in DOMAIN lines \cup {path} |->
                     IF p = path
                     THEN ToJson([attrPath |-> path, logs |-> logs,
                                  payload |-> ErrorPayload(FALSE)])
                     ELSE lines[p]]
      /\ UNCHANGED <<job, forced, gcRoots, retried>>
  BY DEF RespondError, WriteLine, Report, LogsOfError, LogsAfterResponse
<1> DEFINE r == [attrPath |-> path, logs |-> logs,
                 payload |-> ErrorPayload(FALSE)]
<1>2. IsResponse(r)
  BY DEF IsResponse, ProcessInv, IsPayload, ErrorPayload
<1> HIDE DEF r
<1>3. \E x : /\ IsResponse(x)
            /\ lines' = [p \in DOMAIN lines \cup {path} |->
                           IF p = path THEN ToJson(x) ELSE lines[p]]
  BY <1>1, <1>2 DEF r
<1>4. WalkInv' /\ PathInv' /\ LineInv' /\ AnswerInv'
  <2>1. /\ "error" \in {"attrs", "error", "fatal", "abort"}
        /\ {} \in SUBSET Name /\ \A a \in {} : IsWay(expr, Append(path, a))
        /\ retried' = retried /\ gcRoots \subseteq gcRoots'
    BY <1>1
  <2> QED BY <1>1, <1>3, <2>1, CountsOn, AnswerLines
<1>5. JobInv'
  BY <1>1 DEF JobInv
<1>6. ProcessInv'
  <2>1. DOMAIN answer' = DOMAIN answer \cup {path} /\ expr' = expr
    BY <1>1 DEF Answer
  <2> QED BY <1>1, <2>1, NoLogsAreLogs DEF ProcessInv
<1> QED BY <1>4, <1>5, <1>6

(* A step of processDerivation that goes on to the next. *)
LEMMA GoOnStep ==
  ASSUME IInv, NEW s, GoOn(s), gcRoots \subseteq gcRoots', JobInv', ProcessInv',
         UNCHANGED events
  PROVE  IInv'
<1> USE DEF IInv
<1>1. UNCHANGED <<evaluatorVars, logs, forced, lines, retried>>
  BY DEF GoOn
<1>2. WalkInv'
  BY <1>1 DEF WalkInv, evaluatorVars, walkVars
<1>3. PathInv'
  BY <1>1, PathsStay DEF evaluatorVars, walkVars
<1>4. LineInv'
  BY <1>1, LinesStay DEF evaluatorVars
<1>5. AnswerInv'
  BY <1>1, CountsOn, AnswersStay DEF evaluatorVars, walkVars
<1> QED BY <1>2, <1>3, <1>4, <1>5

LEMMA EmptyDrvIs ==
  ASSUME NEW slot, NEW c, IsConstituents(c)
  PROVE  LET d == [EmptyDrv(slot, <<>>) EXCEPT !.constituents = c]
         IN  IsDrv(d) /\ d.cacheStatus = "unknown" /\ d.drvPath = slot
<1> DEFINE d == [drvPath |-> slot, outputs |-> <<>>, system |-> "",
                 meta |-> {}, inputDrvs |-> {}, requiredSystemFeatures |-> {},
                 constituents |-> c, cacheStatus |-> "unknown",
                 neededBuilds |-> <<>>, neededSubstitutes |-> <<>>]
<1>1. [EmptyDrv(slot, <<>>) EXCEPT !.constituents = c] = d
  <2> DEFINE old == EmptyDrv(slot, <<>>)
  <2>1. old = [drvPath |-> slot, outputs |-> <<>>, system |-> "",
               meta |-> {}, inputDrvs |-> {}, requiredSystemFeatures |-> {},
               constituents |-> NoConstituents, cacheStatus |-> "unknown",
               neededBuilds |-> <<>>, neededSubstitutes |-> <<>>]
    BY DEF EmptyDrv
  <2> HIDE DEF old
  <2>2. /\ old.drvPath = slot /\ old.outputs = <<>> /\ old.system = ""
        /\ old.meta = {} /\ old.inputDrvs = {}
        /\ old.requiredSystemFeatures = {} /\ old.cacheStatus = "unknown"
        /\ old.neededBuilds = <<>> /\ old.neededSubstitutes = <<>>
    BY <2>1
  <2>3. old = [drvPath |-> old.drvPath, outputs |-> old.outputs,
               system |-> old.system, meta |-> old.meta,
               inputDrvs |-> old.inputDrvs,
               requiredSystemFeatures |-> old.requiredSystemFeatures,
               constituents |-> old.constituents,
               cacheStatus |-> old.cacheStatus,
               neededBuilds |-> old.neededBuilds,
               neededSubstitutes |-> old.neededSubstitutes]
    BY <2>1, <2>2
  <2>4. [old EXCEPT !.constituents = c] =
          [drvPath |-> old.drvPath, outputs |-> old.outputs,
           system |-> old.system, meta |-> old.meta,
           inputDrvs |-> old.inputDrvs,
           requiredSystemFeatures |-> old.requiredSystemFeatures,
           constituents |-> c, cacheStatus |-> old.cacheStatus,
           neededBuilds |-> old.neededBuilds,
           neededSubstitutes |-> old.neededSubstitutes]
    BY <2>3
  <2> QED BY <2>2, <2>4 DEF old
<1>2. IsDrv(d) /\ d.cacheStatus = "unknown" /\ d.drvPath = slot
  BY DEF IsDrv, IsOptional
<1> QED BY <1>1, <1>2

LEMMA ExtractConstituentsStep ==
  ASSUME IInv, ExtractConstituents, UNCHANGED events
  PROVE  IInv'
<1> USE DEF IInv
<1>1. /\ busy /\ stage = "walk" /\ depth = Len(path)
      /\ value.of = "derivation" /\ UNCHANGED <<storeReads, gcRoots>>
  BY DEF ExtractConstituents, At, Selected
<1>2. /\ path # <<>> /\ SetIn(expr, path) = "derivation"
      /\ Quirks = QuirksIn(expr, path)
  BY <1>1, DerivationAt
<1>3. ~storeReads => \E q \in DOMAIN answer : IsImprecise(expr, q)
  BY <1>1 DEF ProcessInv
<1>4. CASE IsAggregate /\ "noConstituents" \in Quirks /\ RespondError
  <2>1. DerivationFailsIn(expr, path)
    BY <1>2, <1>4 DEF DerivationFailsIn, IsAggregate, Asked
  <2>2. storeReads' \in BOOLEAN
    BY <1>1 DEF ProcessInv
  <2> QED BY <1>1, <1>3, <1>4, <2>1, <2>2, RespondErrorStep
<1>5. CASE /\ job' = [drv |-> [EmptyDrv(DrvSlot, <<>>) EXCEPT !.constituents =
                                IF IsAggregate THEN Aggregate ELSE @],
                      extraValue |-> {}]
           /\ GoOn("apply")
  <2> DEFINE c == IF IsAggregate THEN Aggregate ELSE NoConstituents
             d == [EmptyDrv(DrvSlot, <<>>) EXCEPT !.constituents = c]
  <2>1. job' = [drv |-> d, extraValue |-> {}]
    BY <1>5 DEF EmptyDrv
  <2>2. IsConstituents(c)
    BY DEF IsConstituents, Aggregate, NoConstituents
  <2> HIDE DEF c
  <2>3. IsDrv(d) /\ d.cacheStatus = "unknown" /\ d.drvPath = DrvSlot
    BY <2>2, EmptyDrvIs
  <2> HIDE DEF d
  <2>4. /\ stage' = "apply"
        /\ UNCHANGED <<evaluatorVars, logs, forced, lines, retried>>
    BY <1>5 DEF GoOn
  <2>5. /\ job'.drv = d /\ job'.extraValue = {}
        /\ job' = [drv |-> job'.drv, extraValue |-> job'.extraValue]
    BY <2>1
  <2>6. DrvSlot' = DrvSlot
    BY <2>4 DEF DrvSlot, evaluatorVars, walkVars
  <2>7. JobInv'
    BY <1>1, <2>3, <2>4, <2>5, <2>6 DEF JobInv, evaluatorVars, walkVars, IsOptional
  <2>8. ProcessInv'
    BY <1>1, <1>3, <2>4 DEF ProcessInv, evaluatorVars
  <2> QED BY <1>1, <1>5, <2>7, <2>8, GoOnStep
<1> QED BY <1>4, <1>5 DEF ExtractConstituents

LEMMA ApplyExprStep ==
  ASSUME IInv, ApplyExpr, UNCHANGED events
  PROVE  IInv'
<1> USE DEF IInv
<1>1. busy /\ stage = "apply" /\ UNCHANGED <<storeReads, gcRoots>>
  BY DEF ApplyExpr, At
<1>2. /\ depth = Len(path) /\ value.of = "derivation"
      /\ IsDrv(job.drv) /\ job.drv.cacheStatus = "unknown"
      /\ job = [drv |-> job.drv, extraValue |-> job.extraValue]
      /\ job.drv.drvPath = DrvSlot
  BY <1>1 DEF JobInv
<1>3. /\ path # <<>> /\ SetIn(expr, path) = "derivation"
      /\ Quirks = QuirksIn(expr, path)
  BY <1>2, DerivationAt
<1>4. ~storeReads => \E q \in DOMAIN answer : IsImprecise(expr, q)
  BY <1>1 DEF ProcessInv
<1>5. CASE Asked("apply") /\ "applyThrows" \in Quirks /\ RespondError
  <2>1. DerivationFailsIn(expr, path)
    BY <1>3, <1>5 DEF DerivationFailsIn, Asked
  <2>2. storeReads' \in BOOLEAN
    BY <1>1 DEF ProcessInv
  <2> QED BY <1>1, <1>4, <1>5, <2>1, <2>2, RespondErrorStep
<1>6. CASE /\ job' = [job EXCEPT !.extraValue =
                        IF Asked("apply") THEN {"value"} ELSE {}]
           /\ GoOn("record")
  <2> DEFINE x == IF Asked("apply") THEN {"value"} ELSE {}
  <2>1. job' = [drv |-> job.drv, extraValue |-> x]
    BY <1>2, <1>6
  <2>2. IsOptional(x)
    BY DEF IsOptional
  <2> HIDE DEF x
  <2>3. /\ stage' = "record"
        /\ UNCHANGED <<evaluatorVars, logs, forced, lines, retried>>
    BY <1>6 DEF GoOn
  <2>4. /\ job'.drv = job.drv /\ job'.extraValue = x
        /\ job' = [drv |-> job'.drv, extraValue |-> job'.extraValue]
    BY <2>1
  <2>5. DrvSlot' = DrvSlot
    BY <2>3 DEF DrvSlot, evaluatorVars, walkVars
  <2>6. JobInv'
    BY <1>1, <1>2, <2>2, <2>3, <2>4, <2>5 DEF JobInv, evaluatorVars, walkVars
  <2>7. ProcessInv'
    BY <1>1, <1>4, <2>3 DEF ProcessInv, evaluatorVars
  <2> QED BY <1>1, <1>6, <2>6, <2>7, GoOnStep
<1> QED BY <1>5, <1>6 DEF ApplyExpr

(* What is filled in of a record. *)
LEMMA RecordIs ==
  ASSUME IsDrv(job.drv), job.drv.cacheStatus = "unknown"
  PROVE  /\ IsDrv(Record) /\ Record.cacheStatus = "unknown"
         /\ Record.drvPath = job.drv.drvPath
         /\ Record.inputDrvs =
              IF TryRead /\ "unreadable" \notin Quirks THEN InputDrvs ELSE {}
         /\ Record.requiredSystemFeatures =
              IF TryRead /\ ~ReadFails THEN {"features"} ELSE {}
<1> DEFINE d == job.drv
           i == IF TryRead /\ "unreadable" \notin Quirks THEN InputDrvs ELSE {}
           f == IF TryRead /\ ~ReadFails THEN {"features"} ELSE {}
           new == [drvPath |-> d.drvPath, outputs |-> Outputs,
                   system |-> "system", meta |-> Meta, inputDrvs |-> i,
                   requiredSystemFeatures |-> f,
                   constituents |-> d.constituents,
                   cacheStatus |-> d.cacheStatus,
                   neededBuilds |-> d.neededBuilds,
                   neededSubstitutes |-> d.neededSubstitutes]
<1>1. Record = [d EXCEPT !.outputs = Outputs, !.system = "system",
                         !.inputDrvs = i, !.requiredSystemFeatures = f,
                         !.meta = Meta]
  BY DEF Record
<1>2. /\ d = [drvPath |-> d.drvPath, outputs |-> d.outputs, system |-> d.system,
              meta |-> d.meta, inputDrvs |-> d.inputDrvs,
              requiredSystemFeatures |-> d.requiredSystemFeatures,
              constituents |-> d.constituents, cacheStatus |-> d.cacheStatus,
              neededBuilds |-> d.neededBuilds,
              neededSubstitutes |-> d.neededSubstitutes]
      /\ IsConstituents(d.constituents)
      /\ d.neededBuilds = <<>> /\ d.neededSubstitutes = <<>>
      /\ d.cacheStatus = "unknown"
  BY DEF IsDrv
<1>3. IsOptional(Meta) /\ IsOptional(i) /\ IsOptional(f)
  BY DEF IsOptional, Meta, InputDrvs
<1> HIDE DEF d, i, f
<1>4. Record = new
  BY <1>1, <1>2
<1>5. IsDrv(new)
  BY <1>2, <1>3 DEF IsDrv
<1>6. /\ new.cacheStatus = "unknown" /\ new.drvPath = d.drvPath
      /\ new.inputDrvs = i /\ new.requiredSystemFeatures = f
  BY <1>2
<1> HIDE DEF new
<1> QED BY <1>4, <1>5, <1>6 DEF d, i, f

LEMMA FromPackageInfoStep ==
  ASSUME IInv, FromPackageInfo, UNCHANGED events
  PROVE  IInv'
<1> USE DEF IInv
<1>1. /\ busy /\ stage = "record" /\ UNCHANGED gcRoots
      /\ storeReads \in BOOLEAN
  BY DEF FromPackageInfo, At, ProcessInv
<1>2. /\ depth = Len(path) /\ value.of = "derivation"
      /\ IsDrv(job.drv) /\ job.drv.cacheStatus = "unknown"
      /\ IsOptional(job.extraValue)
      /\ job = [drv |-> job.drv, extraValue |-> job.extraValue]
      /\ job.drv.drvPath = DrvSlot
  BY <1>1 DEF JobInv
<1>3. /\ path # <<>> /\ SetIn(expr, path) = "derivation"
      /\ Quirks = QuirksIn(expr, path)
  BY <1>2, DerivationAt
<1>4. ~storeReads => \E q \in DOMAIN answer : IsImprecise(expr, q)
  BY <1>1 DEF ProcessInv
<1>5. ReadFails => IsImprecise(expr, path)
  BY <1>3 DEF ReadFails, IsImprecise
<1>6. CASE OutputsThrow /\ RespondError /\ UNCHANGED storeReads
  <2>1. DerivationFailsIn(expr, path)
    BY <1>3, <1>6 DEF DerivationFailsIn, OutputsThrow, Asked
  <2> QED BY <1>1, <1>4, <1>6, <2>1, RespondErrorStep
<1>7. ASSUME ~OutputsThrow, storeReads' = (storeReads /\ ~ReadFails)
      PROVE  /\ storeReads' \in BOOLEAN
             /\ ~storeReads' =>
                  \E q \in DOMAIN answer \cup {path} : IsImprecise(expr, q)
  <2>1. storeReads' \in BOOLEAN
    BY <1>7
  <2>2. ~storeReads' => ~storeReads \/ ReadFails
    BY <1>7
  <2> QED BY <1>4, <1>5, <2>1, <2>2
<1>8. CASE /\ ~OutputsThrow /\ storeReads' = (storeReads /\ ~ReadFails)
           /\ Asked("meta") /\ "metaThrows" \in Quirks /\ RespondError
  <2>1. DerivationFailsIn(expr, path)
    BY <1>3, <1>8 DEF DerivationFailsIn, Asked
  <2> QED BY <1>1, <1>7, <1>8, <2>1, RespondErrorStep
<1>9. CASE /\ ~OutputsThrow /\ storeReads' = (storeReads /\ ~ReadFails)
           /\ job' = [job EXCEPT !.drv = Record] /\ GoOn("root")
  <2>1. /\ IsDrv(Record) /\ Record.cacheStatus = "unknown"
        /\ Record.drvPath = DrvSlot
        /\ Record.inputDrvs =
             IF TryRead /\ "unreadable" \notin Quirks THEN InputDrvs ELSE {}
        /\ Record.requiredSystemFeatures =
             IF TryRead /\ ~ReadFails THEN {"features"} ELSE {}
    BY <1>2, RecordIs
  <2>2. job' = [drv |-> Record, extraValue |-> job.extraValue]
    BY <1>2, <1>9
  <2>3. /\ stage' = "root"
        /\ UNCHANGED <<evaluatorVars, logs, forced, lines, retried>>
    BY <1>9 DEF GoOn
  <2>4. /\ job'.drv = Record /\ job'.extraValue = job.extraValue
        /\ job' = [drv |-> job'.drv, extraValue |-> job'.extraValue]
    BY <2>2
  <2>5. DrvSlot' = DrvSlot
    BY <2>3 DEF DrvSlot, evaluatorVars, walkVars
  <2>6. ReadsStore(expr) =>
          \/ \E q \in DOMAIN answer \cup {path} : IsImprecise(expr, q)
          \/ /\ Record.requiredSystemFeatures # {}
             /\ "showInputDrvs" \in expr.args => Record.inputDrvs # {}
    <3>1. CASE ~storeReads \/ ReadFails
      BY <1>4, <1>5, <3>1
    <3>2. CASE ReadsStore(expr) /\ storeReads /\ ~ReadFails
      <4>1. TryRead
        BY <3>2 DEF TryRead, ReadsStore, Asked
      <4>2. "unreadable" \notin Quirks
        BY <3>2, <4>1 DEF ReadFails
      <4> QED BY <2>1, <3>2, <4>1, <4>2 DEF InputDrvs, Asked
    <3> QED BY <3>1, <3>2
  <2>7. JobInv'
    BY <1>1, <1>2, <2>1, <2>3, <2>4, <2>5, <2>6
       DEF JobInv, evaluatorVars, walkVars
  <2>8. ProcessInv'
    BY <1>1, <1>7, <1>9, <2>3 DEF ProcessInv, evaluatorVars, walkVars
  <2> QED BY <1>1, <1>9, <2>7, <2>8, GoOnStep
<1> QED BY <1>6, <1>8, <1>9 DEF FromPackageInfo

LEMMA RegisterGCRootStep ==
  ASSUME IInv, RegisterGCRoot, UNCHANGED events
  PROVE  IInv'
<1> USE DEF IInv
<1>1. busy /\ stage = "root" /\ UNCHANGED storeReads /\ storeReads \in BOOLEAN
  BY DEF RegisterGCRoot, At, ProcessInv
<1>2. /\ depth = Len(path) /\ value.of = "derivation"
      /\ job.drv.drvPath = DrvSlot
  BY <1>1 DEF JobInv
<1>3. /\ path # <<>> /\ SetIn(expr, path) = "derivation" /\ DrvSlot \in Slot
      /\ Quirks = QuirksIn(expr, path)
  BY <1>2, DerivationAt
<1>4. ~storeReads => \E q \in DOMAIN answer \cup {path} : IsImprecise(expr, q)
  BY <1>1 DEF ProcessInv
<1>5. CASE AddsRoot /\ "rootThrows" \in Quirks /\ RespondError
  <2>1. DerivationFailsIn(expr, path)
    BY <1>3, <1>5 DEF DerivationFailsIn, AddsRoot, RootWanted, Asked
  <2> QED BY <1>1, <1>4, <1>5, <2>1, RespondErrorStep
<1>6. CASE /\ gcRoots' = gcRoots \cup IF RootWanted THEN {job.drv.drvPath} ELSE {}
           /\ GoOn("respond") /\ UNCHANGED job
  <2>1. /\ stage' = "respond"
        /\ UNCHANGED <<evaluatorVars, logs, forced, lines, retried>>
    BY <1>6 DEF GoOn
  <2>2. DrvSlot' = DrvSlot
    BY <2>1 DEF DrvSlot, evaluatorVars, walkVars
  <2>3. gcRoots \subseteq gcRoots' /\ gcRoots' \subseteq gcRoots \cup {DrvSlot}
    BY <1>2, <1>6
  <2>4. RootWantedIn(expr) => DrvSlot \in gcRoots'
    BY <1>2, <1>6 DEF RootWantedIn, RootWanted, Asked
  <2>5. JobInv'
    BY <1>1, <1>6, <2>1, <2>2, <2>4 DEF JobInv, evaluatorVars, walkVars
  <2>6. ProcessInv'
    BY <1>1, <1>3, <1>4, <2>1, <2>3 DEF ProcessInv, evaluatorVars, walkVars
  <2> QED BY <1>1, <1>6, <2>3, <2>5, <2>6, GoOnStep
<1> QED BY <1>5, <1>6 DEF RegisterGCRoot

LEMMA RespondJobStep ==
  ASSUME IInv, RespondJob, UNCHANGED events
  PROVE  IInv'
<1> USE DEF IInv
<1> DEFINE r == [attrPath |-> path, logs |-> logs,
                 payload |-> [type |-> "job", drv |-> job.drv,
                              extraValue |-> job.extraValue]]
           line == ToJson(r)
           type == IF Parses(lines'[path]) THEN "job" ELSE "abort"
<1>1. /\ busy /\ stage = "respond" /\ Answer(type, {})
      /\ stage' = "walk" /\ logs' = NoLogs
      /\ lines' = [p \in DOMAIN lines \cup {path} |->
                     IF p = path THEN line ELSE lines[p]]
      /\ UNCHANGED <<job, forced, storeReads, gcRoots, retried>>
  BY DEF RespondJob, At, WriteLine, Report, LogsAfterResponse
<1>2. /\ IsDrv(job.drv) /\ job.drv.cacheStatus = "unknown"
      /\ IsOptional(job.extraValue) /\ job.drv.drvPath = DrvSlot
      /\ RootWantedIn(expr) => DrvSlot \in gcRoots
      /\ ReadsStore(expr) =>
           \/ \E q \in DOMAIN answer \cup {path} : IsImprecise(expr, q)
           \/ /\ job.drv.requiredSystemFeatures # {}
              /\ "showInputDrvs" \in expr.args => job.drv.inputDrvs # {}
  BY <1>1 DEF JobInv
<1>3. IsResponse(r) /\ r.payload.type = "job" /\ r.payload.drv = job.drv
  <2>1. IsPayload(r.payload)
    BY <1>2 DEF IsPayload
  <2>2. IsLogs(r.logs)
    BY DEF ProcessInv
  <2> HIDE DEF IsPayload
  <2> QED BY <2>1, <2>2 DEF IsResponse
<1>4. /\ line.drvPath = DrvSlot
      /\ job.drv.requiredSystemFeatures # {} =>
           "requiredSystemFeatures" \in DOMAIN line
      /\ job.drv.inputDrvs # {} => "inputDrvs" \in DOMAIN line
  <2> DEFINE drv == DrvToJson(job.drv)
  <2>1. HasFieldsOf(line, drv)
    <3>1. line = ToJson(r) /\ drv = DrvToJson(r.payload.drv)
      BY <1>3
    <3> HIDE DEF r, line, drv
    <3> QED BY <1>3, <3>1, DrvInLine
  <2>2. IsDrvJson(drv, job.drv)
    BY <1>2, DrvKeys
  <2> HIDE DEF drv, line
  <2> QED BY <1>2, <2>1, <2>2 DEF IsDrvJson, DrvFields, HasFieldsOf
<1> HIDE DEF r
<1>5. type \in {"attrs", "job", "error", "fatal", "abort"}
  OBVIOUS
<1> HIDE DEF type
<1>6. /\ WalkInv' /\ PathInv'
      /\ DOMAIN answer' = DOMAIN answer \cup {path}
      /\ answer'[path] = [type |-> type, attrs |-> {}]
      /\ \A p \in DOMAIN answer : p # path /\ answer'[p] = answer[p]
      /\ expr' = expr
  <2>1. {} \in SUBSET Name /\ \A a \in {} : IsWay(expr, Append(path, a))
    OBVIOUS
  <2> QED BY <1>1, <1>5, <2>1, AnswerPaths
<1>7. type \in {"job", "abort"} /\ answer'[path].type = type
  BY <1>6 DEF type
<1>8. path \notin DOMAIN lines /\ DOMAIN lines \subseteq DOMAIN answer
  BY <1>6 DEF LineInv
<1>9. /\ DOMAIN lines' = DOMAIN lines \cup {path} /\ lines'[path] = line
      /\ \A p \in DOMAIN lines : lines'[p] = lines[p]
  BY <1>1, <1>8
<1> HIDE DEF line
<1>10. LineInv'
  <2>1. \A p \in DOMAIN answer' \ DOMAIN lines' : answer'[p].type = "abort"
    BY <1>6, <1>9 DEF LineInv
  <2>2. ASSUME NEW p \in DOMAIN lines'
        PROVE  IsLineOf(lines'[p], answer'[p].type)
    <3>1. CASE p = path
      BY <1>2, <1>3, <1>9, <3>1 DEF line, IsLineOf
    <3>2. CASE p # path
      BY <1>6, <1>8, <1>9, <3>2 DEF LineInv
    <3> QED BY <3>1, <3>2
  <2>3. DOMAIN lines' \subseteq DOMAIN answer'
    BY <1>6, <1>8, <1>9
  <2> QED BY <2>1, <2>2, <2>3 DEF LineInv
<1>11. AnswerInv'
  <2>1. \A p \in DOMAIN answer : answer[p].type = "job" => p \in DOMAIN lines
    BY DEF LineInv
  <2>0. /\ \A p \in retried' : Costs(expr', events', p, 1)
        /\ \A p \in DOMAIN answer' : answer'[p].type = "error" =>
             \/ FailsIn(expr', p) \/ DerivationFailsIn(expr', p)
             \/ p \in retried' /\ Costs(expr', events', p, 2)
    BY <1>1, <1>6, <1>7 DEF AnswerInv
  <2>3. ASSUME NEW p \in DOMAIN answer', answer'[p].type = "job"
        PROVE  /\ RootWantedIn(expr') => lines'[p].drvPath \in gcRoots'
               /\ ReadsStore(expr') =>
                    \/ \E q \in DOMAIN answer' : IsImprecise(expr', q)
                    \/ /\ "requiredSystemFeatures" \in DOMAIN lines'[p]
                       /\ "showInputDrvs" \in expr'.args =>
                            "inputDrvs" \in DOMAIN lines'[p]
    <3>1. CASE p = path
      BY <1>1, <1>2, <1>4, <1>6, <1>9, <3>1
    <3>2. CASE p # path
      <4>1. p \in DOMAIN answer /\ answer[p].type = "job" /\ lines'[p] = lines[p]
        BY <1>6, <1>9, <2>1, <2>3, <3>2
      <4> QED BY <1>1, <1>6, <4>1 DEF AnswerInv
    <3> QED BY <3>1, <3>2
  <2> QED BY <2>0, <2>3 DEF AnswerInv
<1>12. JobInv'
  BY <1>1 DEF JobInv
<1>13. ProcessInv'
  <2>1. ~storeReads => \E q \in DOMAIN answer' : IsImprecise(expr', q)
    BY <1>1, <1>6 DEF ProcessInv
  <2> QED BY <1>1, <2>1, NoLogsAreLogs DEF ProcessInv
<1> QED BY <1>6, <1>10, <1>11, <1>12, <1>13

(* A process is lost while it works on a path. *)
LEMMA LostStep ==
  ASSUME IInv, busy, Lost, events' \in 0 .. MaxEvents, Counts,
         \/ SetIn(expr, path) = "unprintable"
         \/ "kill" \in expr.env /\ events' = events + 1
  PROVE  IInv'
<1> USE DEF IInv
<1>1. /\ logs' = NoLogs /\ forced' = {} /\ storeReads' = TRUE
      /\ stage' = "walk" /\ UNCHANGED <<job, gcRoots>>
  BY DEF Lost, FreshProcess
<1>2. JobInv'
  BY <1>1 DEF JobInv
<1>3. ProcessInv'
  BY <1>1, NoLogsAreLogs DEF ProcessInv
<1>4. CASE path \in retried
  <2> DEFINE r == [attrPath |-> path, logs |-> NoLogs,
                   payload |-> ErrorPayload(FALSE)]
  <2>1. /\ Answer("error", {}) /\ UNCHANGED retried
        /\ lines' = [p \in DOMAIN lines \cup {path} |->
                       IF p = path THEN ToJson(r) ELSE lines[p]]
    BY <1>4 DEF Lost, GivesUp, QueuedAgain, Report
  <2>2. IsResponse(r)
    BY NoLogsAreLogs DEF IsResponse, IsPayload, ErrorPayload
  <2> HIDE DEF r
  <2>3. \E x : /\ IsResponse(x)
              /\ lines' = [p \in DOMAIN lines \cup {path} |->
                             IF p = path THEN ToJson(x) ELSE lines[p]]
    BY <2>1, <2>2
  <2>4. WalkInv' /\ PathInv' /\ LineInv' /\ AnswerInv'
    <3>1. /\ "error" \in {"attrs", "error", "fatal", "abort"}
          /\ {} \in SUBSET Name /\ \A a \in {} : IsWay(expr, Append(path, a))
          /\ retried' = retried /\ gcRoots \subseteq gcRoots'
      BY <1>1, <2>1
    <3>2. Costs(expr, events, path, 1)
      BY <1>4 DEF AnswerInv
    <3>3. Costs(expr, events', path, 2)
      BY <3>2 DEF Costs, Counts
    <3> QED BY <1>4, <2>1, <2>3, <3>1, <3>3, AnswerLines
  <2> QED BY <1>2, <1>3, <2>4
<1>5. CASE path \notin retried
  <2>1. /\ retried' = retried \cup {path}
        /\ todo' = todo \cup {path} /\ busy' = FALSE
        /\ UNCHANGED <<expr, answer, path, depth, value, ancestors, lines>>
    BY <1>5 DEF Lost, GivesUp, QueuedAgain
  <2>2. WalkInv'
    BY <2>1, WalkStays
  <2>3. PathInv'
    <3>1. InHand = {path} /\ InHand' = {}
      BY <2>1 DEF InHand
    <3>2. IsWay(expr, path) /\ path \notin DOMAIN answer
      BY <3>1 DEF WalkInv, PathInv
    <3>3. \A p \in todo' \cup DOMAIN answer' \cup InHand' :
            p # <<>> => Front(p) \in DOMAIN answer'
      BY <2>1, <3>1 DEF PathInv
    <3> QED BY <2>1, <3>1, <3>2, <3>3 DEF PathInv
  <2>4. LineInv'
    BY <2>1, LinesStay
  <2>5. AnswerInv'
    <3>1. Costs(expr, events', path, 1)
      BY DEF Costs, Counts
    <3> QED BY <1>1, <2>1, <3>1, AnswersStay
  <2> QED BY <1>2, <1>3, <2>2, <2>3, <2>4, <2>5
<1> QED BY <1>4, <1>5

LEMMA HappensIs ==
  ASSUME ProcessInv, NEW event, Happens(event)
  PROVE  events' \in 0 .. MaxEvents
BY JobAssumption DEF ProcessInv, Happens, JobAssumption

LEMMA KilledStep ==
  ASSUME IInv, Killed
  PROVE  IInv'
<1>1. busy /\ Lost /\ Happens("kill") /\ ProcessInv
  BY DEF Killed, IInv
<1>2. "kill" \in expr.env /\ events' = events + 1
  BY <1>1 DEF Happens
<1> QED BY <1>1, <1>2, HappensIs, CountsOn, LostStep

LEMMA UnprintableStep ==
  ASSUME IInv, Unprintable
  PROVE  IInv'
<1> USE DEF IInv
<1>1. busy /\ depth = Len(path) /\ value.of = "unprintable" /\ UNCHANGED events
  BY DEF Unprintable, Selected
<1>2. events' \in 0 .. MaxEvents
  BY <1>1 DEF ProcessInv
<1>3. CASE Lost
  <2>1. SetIn(expr, path) = "unprintable"
    BY <1>1, SelectedIs
  <2> QED BY <1>1, <1>2, <1>3, <2>1, CountsOn, LostStep
<1>4. CASE Answer("abort", {}) /\ UNCHANGED jobVars
  <2>1. UNCHANGED <<stage, job, logs, forced, storeReads, gcRoots, lines, retried>>
    BY <1>4 DEF jobVars, processVars
  <2>2. stage = "walk"
    BY <1>1 DEF JobInv
  <2>3. WalkInv' /\ PathInv' /\ LineInv' /\ AnswerInv'
    <3>1. /\ "abort" \in {"attrs", "error", "fatal", "abort"}
          /\ {} \in SUBSET Name /\ \A a \in {} : IsWay(expr, Append(path, a))
          /\ lines' = lines /\ retried' = retried /\ gcRoots \subseteq gcRoots'
      BY <2>1
    <3> QED BY <1>1, <1>4, <3>1, CountsOn, AnswerLines
  <2>4. JobInv'
    BY <2>1, <2>2 DEF JobInv
  <2>5. ProcessInv'
    <3>1. DOMAIN answer \subseteq DOMAIN answer' /\ expr' = expr
      BY <1>4 DEF Answer
    <3> QED BY <1>1, <2>1, <2>2, <3>1 DEF ProcessInv
  <2> QED BY <2>3, <2>4, <2>5
<1> QED BY <1>3, <1>4 DEF Unprintable

(* The steps between and beside the jobs. *)
LEMMA RestartStep ==
  ASSUME IInv, Restart
  PROVE  IInv'
<1> USE DEF IInv
<1>1. /\ ~busy /\ logs' = NoLogs /\ forced' = {} /\ storeReads' = TRUE
      /\ UNCHANGED <<evaluatorVars, stage, job, gcRoots, lines, retried>>
  BY DEF Restart, FreshProcess
<1>2. UNCHANGED <<expr, todo, answer, path, busy, depth, value, ancestors>>
  BY <1>1 DEF evaluatorVars, walkVars
<1>3. events' \in 0 .. MaxEvents
  BY HappensIs DEF Restart
<1>4. WalkInv'
  BY <1>2 DEF WalkInv
<1>5. PathInv'
  BY <1>1, <1>2, PathsStay
<1>6. JobInv'
  BY <1>1, <1>2 DEF JobInv
<1>7. ProcessInv'
  BY <1>1, <1>3, NoLogsAreLogs DEF ProcessInv
<1>8. LineInv'
  BY <1>1, <1>2, LinesStay
<1>9. AnswerInv'
  BY <1>1, <1>2, CountsOn, AnswersStay DEF Restart, Warn
<1> QED BY <1>4, <1>5, <1>6, <1>7, <1>8, <1>9

LEMMA WarnStep ==
  ASSUME IInv, NEW noise, Warn(noise)
  PROVE  IInv'
<1> USE DEF IInv
<1>1. /\ logs' = [logs EXCEPT !.warnings = Append(@, noise)]
      /\ UNCHANGED <<evaluatorVars, stage, job, forced, storeReads, gcRoots,
                     lines, retried>>
  BY DEF Warn
<1>2. UNCHANGED <<expr, todo, answer, path, busy, depth, value, ancestors>>
  BY <1>1 DEF evaluatorVars, walkVars
<1>3. events' \in 0 .. MaxEvents
  BY HappensIs DEF Warn
<1>4. WalkInv'
  BY <1>2 DEF WalkInv
<1>5. PathInv'
  BY <1>1, <1>2, PathsStay
<1>6. JobInv'
  <2>1. DrvSlot' = DrvSlot
    BY <1>2 DEF DrvSlot
  <2> QED BY <1>1, <1>2, <2>1 DEF JobInv
<1>7. ProcessInv'
  <2>1. IsLogs(logs')
    BY <1>1 DEF ProcessInv, IsLogs
  <2> QED BY <1>1, <1>2, <1>3, <2>1 DEF ProcessInv, IsLogs
<1>8. LineInv'
  BY <1>1, <1>2, LinesStay
<1>9. AnswerInv'
  BY <1>1, <1>2, CountsOn, AnswersStay DEF Restart, Warn
<1> QED BY <1>4, <1>5, <1>6, <1>7, <1>8, <1>9

LEMMA Stutters ==
  ASSUME IInv, UNCHANGED vars
  PROVE  IInv'
<1> USE DEF IInv
<1>1. /\ UNCHANGED <<expr, todo, answer, path, busy, depth, value, ancestors>>
      /\ UNCHANGED <<stage, job, logs, forced, storeReads, gcRoots, lines,
                     retried, events>>
  BY DEF vars, evaluatorVars, walkVars, jobVars, processVars
<1>2. WalkInv'
  BY <1>1 DEF WalkInv
<1>3. PathInv'
  BY <1>1, PathsStay
<1>4. JobInv'
  <2>1. DrvSlot' = DrvSlot
    BY <1>1 DEF DrvSlot
  <2> QED BY <1>1, <2>1 DEF JobInv
<1>5. ProcessInv'
  BY <1>1 DEF ProcessInv
<1>6. LineInv'
  BY <1>1, LinesStay
<1>7. AnswerInv'
  BY <1>1, CountsOn, AnswersStay
<1> QED BY <1>2, <1>3, <1>4, <1>5, <1>6, <1>7

LEMMA InitIInv == Init => IInv
<1> SUFFICES ASSUME Init PROVE IInv
  OBVIOUS
<1>1. /\ expr \in Expression /\ todo = {<<>>} /\ answer = <<>>
      /\ path = <<>> /\ busy = FALSE /\ depth = 0
      /\ value = Called(expr.root, 1) /\ ancestors = <<>>
      /\ stage = "walk" /\ logs = NoLogs /\ forced = {} /\ storeReads = TRUE
      /\ gcRoots = {} /\ lines = <<>> /\ retried = {} /\ events = 0
  BY DEF Init, WalkInit
<1>2. IsWay(expr, <<>>) /\ DOMAIN answer = {} /\ DOMAIN lines = {}
  BY <1>1, WayOfRoot
<1>3. WalkInv
  <2>1. Prefix(<<>>, 0) = <<>>
    <3>1. <<>> \in Seq(Name)
      OBVIOUS
    <3> QED BY <3>1, PrefixEnds
  <2>2. value = CalledIn(expr, ValueIn(expr, Prefix(path, depth)), depth + 1)
    BY <1>1, <2>1, CalledNow, ValueOfRoot
  <2>3. ancestors =
          [i \in 1 .. depth |->
             CalledIn(expr, ValueIn(expr, Prefix(path, i - 1)), i)]
    BY <1>1
  <2>4. depth \in 0 .. Len(path)
    BY <1>1
  <2> QED BY <1>1, <1>2, <2>2, <2>3, <2>4 DEF WalkInv
<1>4. PathInv
  BY <1>1, <1>2 DEF PathInv, InHand, Range
<1>5. JobInv
  BY <1>1 DEF JobInv
<1>6. ProcessInv
  BY <1>1, NoLogsAreLogs, JobAssumption DEF ProcessInv, JobAssumption
<1>7. LineInv /\ AnswerInv
  BY <1>1, <1>2 DEF LineInv, AnswerInv
<1> QED BY <1>3, <1>4, <1>5, <1>6, <1>7 DEF IInv

LEMMA NextIInv == IInv /\ [Next]_vars => IInv'
<1> SUFFICES ASSUME IInv, [Next]_vars PROVE IInv'
  OBVIOUS
<1>1. CASE ReadCommand /\ UNCHANGED events
  BY <1>1, ReadCommandStep
<1>2. CASE Select /\ UNCHANGED events
  BY <1>2, SelectStep
<1>3. CASE RespondWalk /\ UNCHANGED events
  BY <1>3, RespondWalkStep
<1>4. CASE ExtractConstituents /\ UNCHANGED events
  BY <1>4, ExtractConstituentsStep
<1>5. CASE ApplyExpr /\ UNCHANGED events
  BY <1>5, ApplyExprStep
<1>6. CASE FromPackageInfo /\ UNCHANGED events
  BY <1>6, FromPackageInfoStep
<1>7. CASE RegisterGCRoot /\ UNCHANGED events
  BY <1>7, RegisterGCRootStep
<1>8. CASE RespondJob /\ UNCHANGED events
  BY <1>8, RespondJobStep
<1>9. CASE Killed
  BY <1>9, KilledStep
<1>10. CASE Unprintable
  BY <1>10, UnprintableStep
<1>11. CASE Restart
  BY <1>11, RestartStep
<1>12. CASE NoiseBetween \/ NoiseDuring
  BY <1>12, WarnStep DEF NoiseBetween, NoiseDuring
<1>13. CASE Stay \/ UNCHANGED vars
  BY <1>13, Stutters DEF Stay
<1> QED BY <1>1, <1>2, <1>3, <1>4, <1>5, <1>6, <1>7, <1>8, <1>9, <1>10, <1>11,
           <1>12, <1>13 DEF Next, ProcessJobRequest

LEMMA Invariance == Spec => []IInv
BY InitIInv, NextIInv, PTL DEF Spec

(***************************************************************************)
(* What the runs check.                                                    *)
(***************************************************************************)

(* The walk and the record that is put together have their types, every    *)
(* answered path but one that ended the run has its line, and no path is   *)
(* queued again once it was answered (worker.cc, processJobRequest).       *)
THEOREM JobRequestTyped == Spec => []TypeOK
<1>1. IInv => TypeOK
  <2> SUFFICES ASSUME IInv PROVE TypeOK
    OBVIOUS
  <2> USE DEF IInv
  <2>1. WalkTypeOK
    <3>1. /\ depth \in 0 .. Len(path) /\ Len(ancestors) = depth
          /\ value.of \in Value \ Function /\ busy \in BOOLEAN
      BY Arrived DEF WalkInv
    <3>2. \A p \in todo \cup DOMAIN answer : Range(p) \subseteq Name
      <4> SUFFICES ASSUME NEW p \in todo \cup DOMAIN answer
                   PROVE  Range(p) \subseteq Name
        OBVIOUS
      <4>1. p \in Seq(Name)
        BY DEF PathInv, IsWay
      <4> QED BY <4>1 DEF Range
    <3> QED BY <3>1, <3>2 DEF WalkTypeOK, PathInv
  <2>2. retried \subseteq todo \cup DOMAIN answer \cup {path}
    BY DEF PathInv, InHand
  <2>3. stage # "walk" => Selected /\ value.of = "derivation"
    BY DEF JobInv, Selected
  <2> QED BY <2>1, <2>2, <2>3 DEF TypeOK, JobInv, ProcessInv, LineInv
<1> QED BY <1>1, Invariance, PTL

(* An expression that contains itself is not followed for ever, whatever   *)
(* its graph: a queued path is no longer than there are sets, plus the     *)
(* calls on the way (the ancestors of Evaluator::select).                  *)
THEOREM CyclesAreCut == Spec => []DepthBounded
<1>1. IInv => DepthBounded
  <2> SUFFICES ASSUME IInv, NEW p \in todo \cup DOMAIN answer
               PROVE  Len(p) <= Cardinality(AttrSet) + Cardinality(Calls(Front(p)))
    BY DEF DepthBounded
  <2>1. expr \in Expression /\ IsWay(expr, p)
    BY DEF IInv, WalkInv, PathInv
  <2>2. Calls(Front(p)) = CallsIn(expr, Front(p))
    BY ValueNow DEF Calls, CallsIn, Prefix
  <2> QED BY <2>1, <2>2, DepthOfWay
<1> QED BY <1>1, Invariance, PTL

(* Above a job every set may be recursed into: no interplay of the flags,  *)
(* the calls and the check for cycles opens a set that was not asked for   *)
(* (collectAttrsForRecursion).                                             *)
THEOREM OnlyWhatIsAskedFor == Spec => []JobsAreAskedFor
<1>1. IInv => JobsAreAskedFor
  <2> SUFFICES ASSUME IInv, NEW p \in DOMAIN answer, NEW i \in 0 .. Len(p) - 1
               PROVE  MayRecurse(SetAt(SubSeq(p, 1, i)), i = 0)
    BY DEF JobsAreAskedFor
  <2>1. expr \in Expression /\ IsWay(expr, p)
    BY DEF IInv, WalkInv, PathInv
  <2>2. p \in Seq(Name) /\ IsOpen(expr, Prefix(p, i))
    BY <2>1 DEF IsWay
  <2>3. i \in 0 .. Len(p)
    BY <2>2, LenProperties
  <2>4. Len(Prefix(p, i)) = i /\ Prefix(p, i) \in Seq(Name)
    BY <2>2, <2>3, PrefixIs
  <2>5. (Prefix(p, i) = <<>>) = (i = 0)
    <3> HIDE DEF Prefix
    <3> QED BY <2>4, PrefixEnds
  <2>6. MayRecurseIn(expr, SetIn(expr, Prefix(p, i)), i = 0)
    <3>1. MayRecurseIn(expr, SetIn(expr, Prefix(p, i)), Prefix(p, i) = <<>>)
      BY <2>2 DEF IsOpen
    <3> HIDE DEF Prefix, MayRecurseIn, SetIn
    <3> QED BY <2>5, <3>1
  <2>7. MayRecurse(SetIn(expr, Prefix(p, i)), i = 0)
    <3> HIDE DEF Prefix, MayRecurseIn, SetIn
    <3> QED BY <2>6, RecurseNow
  <2> QED BY <2>7, ValueNow DEF Prefix
<1> QED BY <1>1, Invariance, PTL

(* Every error has its cause in the expression, the options or two lost    *)
(* processes: a set used in two places is no cycle, and an option that was *)
(* not given fails nothing (evaluate, processDerivation).                  *)
THEOREM ErrorsAreJustified == Spec => []ErrorHasCause
<1>1. IInv => ErrorHasCause
  <2> SUFFICES ASSUME IInv, NEW p \in DOMAIN answer, answer[p].type = "error"
               PROVE  \/ WalkFails(p) \/ DerivationFails(p)
                      \/ p \in retried /\ CostsTwo(p)
    BY DEF ErrorHasCause
  <2>1. \/ FailsIn(expr, p) \/ DerivationFailsIn(expr, p)
        \/ p \in retried /\ Costs(expr, events, p, 2)
    BY DEF IInv, AnswerInv
  <2>3. Costs(expr, events, p, 2) => CostsTwo(p)
    BY ValueNow DEF Costs, CostsTwo, IInv, ProcessInv
  <2>2. /\ FailsIn(expr, p) => WalkFails(p)
        /\ DerivationFailsIn(expr, p) => DerivationFails(p)
    BY FailsNow
  <2> QED BY <2>1, <2>2, <2>3
<1> QED BY <1>1, Invariance, PTL

(* A derivation that is reported has its root, if roots were asked for,    *)
(* whatever became of the processes (registerGCRoot).                      *)
THEOREM JobsAreRooted == Spec => []ReportedIsRooted
<1>1. IInv => ReportedIsRooted
  BY DEF IInv, AnswerInv, ReportedIsRooted, RootWantedIn, Asked
<1> QED BY <1>1, Invariance, PTL

(* Only a derivation that cannot be read costs the others their features   *)
(* and inputs (storeReadsDrvs in drv.cc).                                  *)
THEOREM LossIsExplained == Spec => []ImpreciseHasCause
<1>1. IInv => ImpreciseHasCause
  BY ValueNow DEF IInv, AnswerInv, ImpreciseHasCause, ReadsStore, IsImprecise,
     Asked
<1> QED BY <1>1, Invariance, PTL

(* The fields of a derivation that has no status are those of the same     *)
(* derivation with one.                                                    *)
LEMMA StatusKeys ==
  ASSUME NEW o, NEW d, IsDrv(o), IsDrv(d), o.cacheStatus = "unknown",
         d.drvPath = o.drvPath, d.outputs = o.outputs, d.system = o.system,
         d.meta = o.meta, d.inputDrvs = o.inputDrvs,
         d.requiredSystemFeatures = o.requiredSystemFeatures,
         d.constituents = o.constituents
  PROVE  \A k \in DOMAIN DrvToJson(o) :
           k \in DOMAIN DrvToJson(d) /\ DrvToJson(d)[k] = DrvToJson(o)[k]
<1> DEFINE old == DrvToJson(o)
           new == DrvToJson(d)
<1>1. IsDrvJson(old, o) /\ IsDrvJson(new, d)
  BY DrvKeys
<1> HIDE DEF old, new
<1>2. \A k \in DOMAIN old : k \in DOMAIN new
  BY <1>1 DEF IsDrvJson
<1>3. new.drvPath = old.drvPath /\ new.system = old.system
      /\ new.outputs = old.outputs
  BY <1>1 DEF IsDrvJson
<1>4. \A k \in DOMAIN NoConstituents : new[k] = old[k]
  BY <1>1 DEF IsDrvJson
<1>5. /\ o.meta # {} => new["meta"] = old["meta"]
      /\ o.inputDrvs # {} => new["inputDrvs"] = old["inputDrvs"]
      /\ o.requiredSystemFeatures # {} =>
           new["requiredSystemFeatures"] = old["requiredSystemFeatures"]
  <2> DEFINE Some(s) == CHOOSE v \in s : TRUE
  <2>1. ASSUME NEW j, NEW e, IsDrvJson(j, e)
        PROVE  /\ e.meta # {} => j["meta"] = Some(e.meta)
               /\ e.inputDrvs # {} => j["inputDrvs"] = Some(e.inputDrvs)
               /\ e.requiredSystemFeatures # {} =>
                    j["requiredSystemFeatures"] = Some(e.requiredSystemFeatures)
    BY <2>1 DEF IsDrvJson
  <2> HIDE DEF Some
  <2>2. /\ o.meta # {} => old["meta"] = Some(o.meta)
        /\ o.inputDrvs # {} => old["inputDrvs"] = Some(o.inputDrvs)
        /\ o.requiredSystemFeatures # {} =>
             old["requiredSystemFeatures"] = Some(o.requiredSystemFeatures)
    BY <1>1, <2>1
  <2>3. /\ d.meta # {} => new["meta"] = Some(d.meta)
        /\ d.inputDrvs # {} => new["inputDrvs"] = Some(d.inputDrvs)
        /\ d.requiredSystemFeatures # {} =>
             new["requiredSystemFeatures"] = Some(d.requiredSystemFeatures)
    BY <1>1, <2>1
  <2> QED BY <2>2, <2>3
<1>6. DOMAIN old = {"drvPath", "system", "outputs"}
               \cup {x \in {"meta"} : o.meta # {}}
               \cup {x \in {"inputDrvs"} : o.inputDrvs # {}}
               \cup {x \in {"requiredSystemFeatures"} :
                       o.requiredSystemFeatures # {}}
               \cup DOMAIN NoConstituents
  BY <1>1 DEF IsDrvJson, NoConstituents
<1> QED BY <1>2, <1>3, <1>4, <1>5, <1>6 DEF old, new

(* A response that is given a cache status is one still: its line has the  *)
(* fields that it had, and those of the status.                            *)
LEMMA StatusAdded ==
  ASSUME NEW r, IsResponse(r), r.payload.type = "job",
         r.payload.drv.cacheStatus = "unknown", Parses(ToJson(r))
  PROVE  LET s == WithStatus(r)
         IN  /\ IsResponse(s) /\ Parses(ToJson(s))
             /\ \A k \in DOMAIN ToJson(r) :
                  k \in DOMAIN ToJson(s) /\ ToJson(s)[k] = ToJson(r)[k]
<1> DEFINE o == r.payload.drv
           d == [drvPath |-> o.drvPath, outputs |-> o.outputs,
                 system |-> o.system, meta |-> o.meta,
                 inputDrvs |-> o.inputDrvs,
                 requiredSystemFeatures |-> o.requiredSystemFeatures,
                 constituents |-> o.constituents, cacheStatus |-> "local",
                 neededBuilds |-> <<"drv">>,
                 neededSubstitutes |-> o.neededSubstitutes]
           s == [attrPath |-> r.attrPath, logs |-> r.logs,
                 payload |-> [type |-> "job", drv |-> d,
                              extraValue |-> r.payload.extraValue]]
<1>1. /\ r = [attrPath |-> r.attrPath, logs |-> r.logs, payload |-> r.payload]
      /\ r.payload = [type |-> "job", drv |-> o,
                      extraValue |-> r.payload.extraValue]
      /\ IsLogs(r.logs) /\ IsDrv(o) /\ IsOptional(r.payload.extraValue)
  BY DEF IsResponse, IsPayload
<1>2. o = [drvPath |-> o.drvPath, outputs |-> o.outputs, system |-> o.system,
           meta |-> o.meta, inputDrvs |-> o.inputDrvs,
           requiredSystemFeatures |-> o.requiredSystemFeatures,
           constituents |-> o.constituents, cacheStatus |-> o.cacheStatus,
           neededBuilds |-> o.neededBuilds,
           neededSubstitutes |-> o.neededSubstitutes]
  BY <1>1 DEF IsDrv
<1> HIDE DEF o
<1>3. WithStatus(r) = s
  <2>1. [[o EXCEPT !.cacheStatus = "local"] EXCEPT !.neededBuilds = <<"drv">>]
          = d
    <3> DEFINE cached ==
                 [drvPath |-> o.drvPath, outputs |-> o.outputs,
                  system |-> o.system, meta |-> o.meta,
                  inputDrvs |-> o.inputDrvs,
                  requiredSystemFeatures |-> o.requiredSystemFeatures,
                  constituents |-> o.constituents, cacheStatus |-> "local",
                  neededBuilds |-> o.neededBuilds,
                  neededSubstitutes |-> o.neededSubstitutes]
    <3>1. [o EXCEPT !.cacheStatus = "local"] = cached
      BY <1>2
    <3>2. [cached EXCEPT !.neededBuilds = <<"drv">>] = d
      OBVIOUS
    <3> HIDE DEF d, cached
    <3> QED BY <3>1, <3>2
  <2> DEFINE new == [[o EXCEPT !.cacheStatus = "local"]
                        EXCEPT !.neededBuilds = <<"drv">>]
  <2>2. WithStatus(r) =
          [r EXCEPT !.payload = [r.payload EXCEPT !.drv = new]]
    BY <1>1 DEF WithStatus, o
  <2>3. [r.payload EXCEPT !.drv = new] =
          [type |-> "job", drv |-> new, extraValue |-> r.payload.extraValue]
    BY <1>1
  <2> HIDE DEF new
  <2>4. WithStatus(r) =
          [attrPath |-> r.attrPath, logs |-> r.logs,
           payload |-> [type |-> "job", drv |-> new,
                        extraValue |-> r.payload.extraValue]]
    BY <1>1, <2>2, <2>3
  <2> QED BY <2>1, <2>4 DEF new
<1>4. IsDrv(d)
  BY <1>1 DEF IsDrv
<1>5. IsResponse(s) /\ s.payload.type = "job" /\ s.payload.drv = d
  BY <1>1, <1>4 DEF IsResponse, IsPayload
<1>6. /\ s.attrPath = r.attrPath /\ s.logs = r.logs
      /\ s.payload.extraValue = r.payload.extraValue
  OBVIOUS
<1>7. /\ d.drvPath = o.drvPath /\ d.outputs = o.outputs
      /\ d.system = o.system /\ d.meta = o.meta /\ d.inputDrvs = o.inputDrvs
      /\ d.requiredSystemFeatures = o.requiredSystemFeatures
      /\ d.constituents = o.constituents
  OBVIOUS
<1> DEFINE json == ToJson(r)
           new == ToJson(s)
           old == DrvToJson(o)
           drv == DrvToJson(d)
           said == {k \in DOMAIN NoLogs : r.logs[k] # <<>>}
           extra == {x \in {"extraValue"} : r.payload.extraValue # {}}
<1> HIDE DEF s, d
(* What the two lines have in common apart from the derivation. *)
<1>8. /\ DOMAIN json = {"attrPath"} \cup DOMAIN old \cup said \cup extra
      /\ HasFieldsOf(json, old)
      /\ "drvPath" \in DOMAIN old /\ "outputs" \in DOMAIN old
      /\ DOMAIN old \subseteq DrvFields
  BY DrvInLine DEF o
<1>9. /\ DOMAIN new = {"attrPath"} \cup DOMAIN drv \cup said \cup extra
      /\ HasFieldsOf(new, drv)
      /\ "drvPath" \in DOMAIN drv /\ "outputs" \in DOMAIN drv
      /\ DOMAIN drv \subseteq DrvFields
  <2>1. /\ DOMAIN new = {"attrPath"} \cup DOMAIN drv
             \cup {k \in DOMAIN NoLogs : s.logs[k] # <<>>}
             \cup {x \in {"extraValue"} : s.payload.extraValue # {}}
        /\ HasFieldsOf(new, drv)
        /\ "drvPath" \in DOMAIN drv /\ "outputs" \in DOMAIN drv
        /\ DOMAIN drv \subseteq DrvFields
    BY <1>5, DrvInLine
  <2> QED BY <1>6, <2>1
<1>10. \A k \in {"attrPath"} \cup said \cup extra : new[k] = json[k]
  <2>1. /\ json.attrPath = r.attrPath
        /\ \A k \in said : json[k] = r.logs[k]
        /\ \A k \in DOMAIN PayloadJson(r.payload) :
             k \notin {"attrPath", "warnings", "traces"} =>
               json[k] = PayloadJson(r.payload)[k]
    BY LineKeys
  <2>2. /\ new.attrPath = s.attrPath
        /\ \A k \in {x \in DOMAIN NoLogs : s.logs[x] # <<>>} :
             new[k] = s.logs[k]
        /\ \A k \in DOMAIN PayloadJson(s.payload) :
             k \notin {"attrPath", "warnings", "traces"} =>
               new[k] = PayloadJson(s.payload)[k]
    BY <1>5, LineKeys
  <2>3. ASSUME r.payload.extraValue # {}
        PROVE  new["extraValue"] = json["extraValue"]
    <3>1. IsPayload(r.payload) /\ IsPayload(s.payload)
      BY <1>5 DEF IsResponse
    <3>2. /\ "extraValue" \in DOMAIN PayloadJson(r.payload)
          /\ PayloadJson(r.payload)["extraValue"] =
               CHOOSE v \in r.payload.extraValue : TRUE
      BY <2>3, <3>1, PayloadKeys
    <3>3. /\ "extraValue" \in DOMAIN PayloadJson(s.payload)
          /\ PayloadJson(s.payload)["extraValue"] =
               CHOOSE v \in s.payload.extraValue : TRUE
      BY <1>5, <1>6, <2>3, <3>1, PayloadKeys
    <3> QED BY <1>6, <2>1, <2>2, <3>2, <3>3
  <2> HIDE DEF json, new
  <2> QED BY <1>6, <2>1, <2>2, <2>3
<1>11. \A k \in DOMAIN old : k \in DOMAIN drv /\ drv[k] = old[k]
  <2>1. o.cacheStatus = "unknown"
    BY DEF o
  <2> QED BY <1>1, <1>4, <1>7, <2>1, StatusKeys
<1> HIDE DEF json, new, old, drv, said, extra
<1>12. \A k \in DOMAIN json : k \in DOMAIN new /\ new[k] = json[k]
  BY <1>8, <1>9, <1>10, <1>11 DEF HasFieldsOf
<1>13. Parses(new)
  <2>1. "attrs" \notin DOMAIN json /\ "error" \notin DOMAIN json
    <3>1. DOMAIN NoLogs = {"warnings", "traces"}
      BY DEF NoLogs
    <3> QED BY <1>8, <3>1 DEF DrvFields, said, extra
  <2>2. json.outputs # Null
    BY <2>1 DEF Parses, json
  <2>3. {"drvPath", "outputs"} \subseteq DOMAIN json
    BY <1>8
  <2> QED BY <1>12, <2>2, <2>3 DEF Parses
<1> QED BY <1>3, <1>5, <1>12, <1>13 DEF json, new

(* No field of a line is lost, added or changed by reading and writing it, *)
(* and the cache status is added to it (to_json and from_json of Response  *)
(* and Drv, and the resolver in between, which sets the status).           *)
THEOREM LinesSurvivePrinting == Spec => []PrintedAlike
<1>1. IInv => PrintedAlike
  <2> SUFFICES ASSUME IInv, NEW p \in DOMAIN lines, Parses(lines[p])
               PROVE  LET response == FromJson(lines[p])
                      IN  /\ ToJson(response) = lines[p]
                          /\ answer[p].type = "job" =>
                               LET printed == ToJson(WithStatus(response))
                               IN  /\ FromJson(printed) = WithStatus(response)
                                   /\ [k \in DOMAIN lines[p] |-> printed[k]]
                                        = lines[p]
    BY DEF PrintedAlike
  <2>1. IsLineOf(lines[p], answer[p].type)
    BY DEF IInv, LineInv
  <2>2. PICK r : /\ IsResponse(r) /\ lines[p] = ToJson(r)
                 /\ answer[p].type = "job" =>
                      /\ r.payload.type = "job"
                      /\ r.payload.drv.cacheStatus = "unknown"
    BY <2>1 DEF IsLineOf
  <2>3. FromJson(lines[p]) = r
    BY <2>2, ReadAsWritten
  <2>4. ASSUME answer[p].type = "job"
        PROVE  /\ FromJson(ToJson(WithStatus(r))) = WithStatus(r)
               /\ [k \in DOMAIN lines[p] |-> ToJson(WithStatus(r))[k]]
                    = lines[p]
    <3>1. /\ IsResponse(WithStatus(r)) /\ Parses(ToJson(WithStatus(r)))
          /\ \A k \in DOMAIN ToJson(r) : ToJson(WithStatus(r))[k] = ToJson(r)[k]
      BY <2>2, <2>4, StatusAdded
    <3>2. FromJson(ToJson(WithStatus(r))) = WithStatus(r)
      BY <3>1, ReadAsWritten
    <3>3. ToJson(r) = [k \in DOMAIN ToJson(r) |-> ToJson(r)[k]]
      BY DEF ToJson, ++
    <3> QED BY <2>2, <3>1, <3>2, <3>3
  <2> QED BY <2>2, <2>3, <2>4
<1> QED BY <1>1, Invariance, PTL

-----------------------------------------------------------------------------
(***************************************************************************)
(* Coverage.  The traversal leaves out no derivation: what was found is    *)
(* queued, in hand or answered, and what can be reached through the sets   *)
(* of an expression can be reached without passing one of them twice,      *)
(* which is where the check for cycles stops.                              *)
(***************************************************************************)
(* The second inductive invariant: what was found is queued, in hand, or   *)
(* answered, and so is what is found below it.                             *)
Found == todo \cup DOMAIN answer \cup InHand

IsListedIn(e, p, found) ==
  /\ SetIn(e, p) # "derivation"
  /\ IsOpen(e, p) =>
       \A a \in DOMAIN e.attrs[SetIn(e, p)] : Append(p, a) \in found

CoverInv ==
  /\ <<>> \in Found
  /\ \A p \in DOMAIN answer :
       /\ answer[p].type = "attrs" => IsListedIn(expr, p, Found)
       /\ answer[p].type = "job" => SetIn(expr, p) = "derivation"

LEMMA InitCoverInv == Init => CoverInv
<1> SUFFICES ASSUME Init PROVE CoverInv
  OBVIOUS
<1>1. todo = {<<>>} /\ answer = <<>>
  BY DEF Init, WalkInit
<1>2. DOMAIN answer = {}
  BY <1>1
<1> QED BY <1>1, <1>2 DEF CoverInv, Found

(* Nothing that was found is lost, and what is answered is listed. *)
LEMMA CoverStays ==
  ASSUME CoverInv, expr' = expr, Found \subseteq Found',
         \A p \in DOMAIN answer : answer'[p] = answer[p],
         \A p \in DOMAIN answer' : p \notin DOMAIN answer =>
           /\ answer'[p].type = "attrs" => IsListedIn(expr, p, Found')
           /\ answer'[p].type = "job" => SetIn(expr, p) = "derivation"
  PROVE  CoverInv'
<1>1. <<>> \in Found'
  BY DEF CoverInv
<1>2. ASSUME NEW p \in DOMAIN answer'
      PROVE  /\ answer'[p].type = "attrs" => IsListedIn(expr', p, Found')
             /\ answer'[p].type = "job" => SetIn(expr', p) = "derivation"
  <2>1. CASE p \in DOMAIN answer
    <3>1. /\ answer[p].type = "attrs" => IsListedIn(expr, p, Found)
          /\ answer[p].type = "job" => SetIn(expr, p) = "derivation"
          /\ answer'[p] = answer[p]
      BY <2>1 DEF CoverInv
    <3>2. IsListedIn(expr, p, Found) => IsListedIn(expr, p, Found')
      BY DEF IsListedIn
    <3> QED BY <3>1, <3>2
  <2>2. CASE p \notin DOMAIN answer
    BY <1>2, <2>2
  <2> QED BY <2>1, <2>2
<1> QED BY <1>1, <1>2 DEF CoverInv

LEMMA CoverAnswer ==
  ASSUME PathInv, CoverInv, busy, NEW type, NEW names, Answer(type, names),
         type = "attrs" =>
           /\ SetIn(expr, path) # "derivation"
           /\ IsOpen(expr, path) => names = DOMAIN expr.attrs[SetIn(expr, path)],
         type = "job" => SetIn(expr, path) = "derivation"
  PROVE  CoverInv'
<1>1. /\ answer' = [p \in DOMAIN answer \cup {path} |->
                      IF p = path THEN [type |-> type, attrs |-> names]
                                  ELSE answer[p]]
      /\ todo' = todo \cup {Append(path, a) : a \in names}
      /\ busy' = FALSE /\ expr' = expr
  BY DEF Answer
<1>2. path \notin DOMAIN answer /\ InHand = {path}
  BY DEF PathInv, InHand
<1>3. Found \subseteq Found' /\ {Append(path, a) : a \in names} \subseteq Found'
  BY <1>1, <1>2 DEF Found
<1>4. \A p \in DOMAIN answer : answer'[p] = answer[p]
  BY <1>1, <1>2
<1>5. /\ \A p \in DOMAIN answer' : p \notin DOMAIN answer => p = path
      /\ answer'[path].type = type
  BY <1>1
<1>6. type = "attrs" => IsListedIn(expr, path, Found')
  BY <1>3 DEF IsListedIn
<1> QED BY <1>1, <1>3, <1>4, <1>5, <1>6, CoverStays

(* An attribute set that is recursed into is listed as a whole. *)
LEMMA EvaluatesAll ==
  ASSUME WalkInv, Evaluates
  PROVE  /\ busy
         /\ \E type, names :
              /\ Answer(type, names) /\ type # "job"
              /\ type = "attrs" =>
                   /\ SetIn(expr, path) # "derivation"
                   /\ IsOpen(expr, path) =>
                        names = DOMAIN expr.attrs[SetIn(expr, path)]
<1>1. /\ Selected /\ busy /\ value.of # "derivation"
      /\ value.of = SetIn(expr, path)
  BY EvaluatesIs, SelectedIs DEF Selected
<1>2. CASE EvaluateThrows
  BY <1>1, <1>2 DEF EvaluateThrows
<1>3. CASE EvaluateOther
  <2>1. value.of \in {"true", "false", "other"} /\ Answer("attrs", {})
    BY <1>3 DEF EvaluateOther
  <2>2. SetIn(expr, path) \notin AttrSet
    BY <1>1, <2>1, Distinct DEF Leaf
  <2>3. ~IsOpen(expr, path)
    BY <2>2 DEF IsOpen
  <2> QED BY <1>1, <2>1, <2>3
<1>4. CASE EvaluateCycle
  BY <1>1, <1>4 DEF EvaluateCycle
<1>5. CASE EvaluateSet
  <2>1. /\ value.of \in AttrSet
        /\ \/ FlagThrows
              /\ Answer(IF Flag = "overflow" THEN "fatal" ELSE "error", {})
           \/ ~FlagThrows /\ Answer("attrs", Listed)
    BY <1>5 DEF EvaluateSet
  <2>2. CASE FlagThrows /\ Answer(IF Flag = "overflow" THEN "fatal" ELSE "error", {})
    BY <1>1, <2>2
  <2>3. CASE ~FlagThrows /\ Answer("attrs", Listed)
    <3>1. Recurse <=> MayRecurseIn(expr, SetIn(expr, path), path = <<>>)
      BY <1>1, <2>1, SelectedIs DEF Selected
    <3>2. IsOpen(expr, path) => Listed = DOMAIN expr.attrs[SetIn(expr, path)]
      BY <1>1, <3>1 DEF IsOpen, Listed, AttrsOf
    <3> QED BY <1>1, <2>3, <3>2
  <2> QED BY <2>1, <2>2, <2>3
<1> QED BY <1>1, <1>2, <1>3, <1>4, <1>5 DEF Evaluates

LEMMA CoverLost ==
  ASSUME IInv, CoverInv, busy, Lost
  PROVE  CoverInv'
<1>1. CASE path \in retried
  <2>1. Answer("error", {})
    BY <1>1 DEF Lost, GivesUp, QueuedAgain
  <2> QED BY <2>1, CoverAnswer DEF IInv
<1>2. CASE path \notin retried
  <2>1. todo' = todo \cup {path} /\ UNCHANGED <<expr, answer, path>>
    BY <1>2 DEF Lost, GivesUp, QueuedAgain
  <2>2. Found \subseteq Found'
    BY <2>1 DEF Found, InHand
  <2> QED BY <2>1, <2>2, CoverStays
<1> QED BY <1>1, <1>2

LEMMA NextCoverInv == IInv /\ CoverInv /\ [Next]_vars => CoverInv'
<1> SUFFICES ASSUME IInv, CoverInv, [Next]_vars PROVE CoverInv'
  OBVIOUS
<1>1. ASSUME UNCHANGED <<expr, todo, answer, path, busy>>
      PROVE  CoverInv'
  <2>1. Found' = Found
    BY <1>1 DEF Found, InHand
  <2> QED BY <1>1, <2>1, CoverStays
<1>2. ASSUME busy, RespondError
      PROVE  CoverInv'
  <2>1. Answer("error", {})
    BY <1>2 DEF RespondError
  <2> QED BY <1>2, <2>1, CoverAnswer DEF IInv
<1>3. ASSUME NEW s, GoOn(s)
      PROVE  CoverInv'
  BY <1>1, <1>3 DEF GoOn, evaluatorVars, walkVars
<1>4. CASE ReadCommand
  <2>1. /\ ~busy /\ busy' = TRUE /\ UNCHANGED <<expr, answer>>
        /\ \E p : path' = p /\ todo' = todo \ {p}
    BY <1>4 DEF ReadCommand, TakeJob
  <2>2. Found \subseteq Found'
    BY <2>1 DEF Found, InHand
  <2> QED BY <2>1, <2>2, CoverStays
<1>5. CASE Select
  BY <1>1, <1>5 DEF Select, SelectAttr
<1>6. CASE RespondWalk
  <2>1. Evaluates
    BY <1>6 DEF RespondWalk, Evaluates
  <2>2. busy
    BY <2>1, EvaluatesAll DEF IInv
  <2>3. PICK type, names :
          /\ Answer(type, names) /\ type # "job"
          /\ type = "attrs" =>
               /\ SetIn(expr, path) # "derivation"
               /\ IsOpen(expr, path) =>
                    names = DOMAIN expr.attrs[SetIn(expr, path)]
    BY <2>1, EvaluatesAll DEF IInv
  <2> QED BY <2>2, <2>3, CoverAnswer DEF IInv
<1>7. CASE ExtractConstituents
  BY <1>2, <1>3, <1>7 DEF ExtractConstituents, Selected
<1>8. CASE ApplyExpr
  BY <1>2, <1>3, <1>8 DEF ApplyExpr, At
<1>9. CASE FromPackageInfo
  BY <1>2, <1>3, <1>9 DEF FromPackageInfo, At
<1>10. CASE RegisterGCRoot
  BY <1>2, <1>3, <1>10 DEF RegisterGCRoot, At
<1>11. CASE RespondJob
  <2>1. busy /\ Answer(IF Parses(lines'[path]) THEN "job" ELSE "abort", {})
    BY <1>11 DEF RespondJob, At
  <2>2. SetIn(expr, path) = "derivation"
    <3>1. stage = "respond"
      BY <1>11 DEF RespondJob, At
    <3>2. depth = Len(path) /\ value.of = "derivation"
      BY <3>1 DEF IInv, JobInv
    <3> QED BY <3>2, SelectedIs DEF IInv
  <2>3. CASE Parses(lines'[path])
    <3>1. Answer("job", {})
      BY <2>1, <2>3
    <3> QED BY <2>1, <2>2, <3>1, CoverAnswer DEF IInv
  <2>4. CASE ~Parses(lines'[path])
    <3>1. Answer("abort", {})
      BY <2>1, <2>4
    <3> QED BY <2>1, <3>1, CoverAnswer DEF IInv
  <2> QED BY <2>3, <2>4
<1>12. CASE Killed
  BY <1>12, CoverLost DEF Killed
<1>13. CASE Unprintable
  <2>1. busy /\ (Lost \/ Answer("abort", {}))
    BY <1>13 DEF Unprintable, Selected
  <2>2. CASE Lost
    BY <2>1, <2>2, CoverLost
  <2>3. CASE Answer("abort", {})
    BY <2>1, <2>3, CoverAnswer DEF IInv
  <2> QED BY <2>1, <2>2, <2>3
<1>14. CASE Restart
  BY <1>1, <1>14 DEF Restart, evaluatorVars, walkVars
<1>15. CASE NoiseBetween \/ NoiseDuring
  BY <1>1, <1>15 DEF NoiseBetween, NoiseDuring, Warn, evaluatorVars, walkVars
<1>16. CASE Stay \/ UNCHANGED vars
  BY <1>1, <1>16 DEF Stay, vars, evaluatorVars, walkVars
<1> QED BY <1>4, <1>5, <1>6, <1>7, <1>8, <1>9, <1>10, <1>11, <1>12, <1>13,
           <1>14, <1>15, <1>16 DEF Next, ProcessJobRequest

LEMMA Coverage == Spec => [](IInv /\ CoverInv)
<1>1. Init => IInv /\ CoverInv
  BY InitIInv, InitCoverInv
<1>2. IInv /\ CoverInv /\ [Next]_vars => (IInv /\ CoverInv)'
  BY NextIInv, NextCoverInv
<1> QED BY <1>1, <1>2, PTL DEF Spec

(***************************************************************************)
(* Whatever can be reached, can be reached without passing a set twice.    *)
(***************************************************************************)
IsSimple(e, p) ==
  \A i, j \in 0 .. Len(p) :
    i < j => SetIn(e, Prefix(p, i)) # SetIn(e, Prefix(p, j))

IsSimpleWay(e, p) == IsWay(e, p) /\ IsSimple(e, p)

LeadsTo(e, s) == \E p : IsSimpleWay(e, p) /\ SetIn(e, p) = s

LEMMA WayAbove ==
  ASSUME NEW e \in Expression, NEW p, IsSimpleWay(e, p), NEW n \in 0 .. Len(p)
  PROVE  IsSimpleWay(e, Prefix(p, n))
<1>1. p \in Seq(Name) /\ Len(p) \in Nat
  BY LenProperties DEF IsSimpleWay, IsWay
<1> DEFINE q == Prefix(p, n)
<1>2. /\ q \in Seq(Name) /\ Len(q) = n
      /\ \A j \in 1 .. n : q[j] = p[j]
  BY <1>1, PrefixIs
<1>3. \A j \in 0 .. n : Prefix(q, j) = Prefix(p, j)
  BY <1>1, PrefixOfPrefix
<1> HIDE DEF q
<1>4. ASSUME NEW i \in 0 .. Len(q) - 1
      PROVE  /\ IsOpen(e, Prefix(q, i))
             /\ q[i + 1] \in DOMAIN e.attrs[SetIn(e, Prefix(q, i))]
  <2>1. i \in 0 .. Len(p) - 1 /\ i \in 0 .. n /\ i + 1 \in 1 .. n
    BY <1>1, <1>2
  <2>2. Prefix(q, i) = Prefix(p, i) /\ q[i + 1] = p[i + 1]
    BY <1>2, <1>3, <2>1
  <2>3. /\ IsOpen(e, Prefix(p, i))
        /\ p[i + 1] \in DOMAIN e.attrs[SetIn(e, Prefix(p, i))]
    BY <2>1 DEF IsSimpleWay, IsWay
  <2> QED BY <2>2, <2>3
<1>5. IsSimple(e, q)
  <2> SUFFICES ASSUME NEW i \in 0 .. Len(q), NEW j \in 0 .. Len(q), i < j
               PROVE  SetIn(e, Prefix(q, i)) # SetIn(e, Prefix(q, j))
    BY DEF IsSimple
  <2>1. /\ i \in 0 .. Len(p) /\ j \in 0 .. Len(p)
        /\ i \in 0 .. n /\ j \in 0 .. n
    BY <1>1, <1>2
  <2>2. Prefix(q, i) = Prefix(p, i) /\ Prefix(q, j) = Prefix(p, j)
    BY <1>3, <2>1
  <2>3. SetIn(e, Prefix(p, i)) # SetIn(e, Prefix(p, j))
    BY <2>1 DEF IsSimpleWay, IsSimple
  <2> QED BY <2>2, <2>3
<1>6. IsWay(e, q)
  BY <1>2, <1>4 DEF IsWay
<1> QED BY <1>5, <1>6 DEF q, IsSimpleWay

LEMMA SimpleIsNew ==
  ASSUME NEW e, NEW p, IsSimpleWay(e, p)
  PROVE  ~Repeats(e, p)
<1>1. p \in Seq(Name) /\ Len(p) \in Nat /\ Prefix(p, Len(p)) = p
  BY PrefixEnds DEF IsSimpleWay, IsWay
<1>2. ASSUME NEW i \in 0 .. Len(p) - 1,
             ValueIn(e, Prefix(p, i)) = ValueIn(e, p)
      PROVE  FALSE
  <2>1. i \in 0 .. Len(p) /\ Len(p) \in 0 .. Len(p) /\ i < Len(p)
    BY <1>1
  <2>2. SetIn(e, Prefix(p, i)) # SetIn(e, Prefix(p, Len(p)))
    BY <2>1 DEF IsSimpleWay, IsSimple
  <2>3. SetIn(e, Prefix(p, i)) = SetIn(e, p)
    BY <1>2 DEF SetIn
  <2> QED BY <1>1, <2>2, <2>3
<1> QED BY <1>2 DEF Repeats

(* One attribute further, or back to where the set was passed. *)
LEMMA LeadsFurther ==
  ASSUME NEW e \in Expression, NEW p, IsSimpleWay(e, p),
         SetIn(e, p) \in AttrSet, MayRecurseIn(e, SetIn(e, p), p = <<>>),
         NEW a \in DOMAIN e.attrs[SetIn(e, p)]
  PROVE  LeadsTo(e, CalledIn(e, e.attrs[SetIn(e, p)][a], 0).of)
<1> DEFINE q == Append(p, a)
           t == CalledIn(e, e.attrs[SetIn(e, p)][a], 0).of
<1>1. p \in Seq(Name) /\ Len(p) \in Nat /\ IsWay(e, p)
  BY LenProperties DEF IsSimpleWay, IsWay
<1>2. IsOpen(e, p)
  BY SimpleIsNew DEF IsOpen
<1>3. a \in Name /\ IsWay(e, q)
  BY <1>1, <1>2, WayDown
<1>4. SetIn(e, q) = t
  BY <1>1, <1>3, ValueOfAppend DEF SetIn
<1>5. /\ q \in Seq(Name) /\ Len(q) = Len(p) + 1
      /\ \A i \in 0 .. Len(p) : Prefix(q, i) = Prefix(p, i)
  BY <1>1, <1>3, PrefixOfAppend
<1> HIDE DEF t
<1>6. ASSUME NEW i \in 0 .. Len(p), SetIn(e, Prefix(p, i)) = t
      PROVE  LeadsTo(e, t)
  <2>1. IsSimpleWay(e, Prefix(p, i))
    BY WayAbove
  <2> QED BY <1>6, <2>1 DEF LeadsTo
<1>7. ASSUME ~\E i \in 0 .. Len(p) : SetIn(e, Prefix(p, i)) = t
      PROVE  LeadsTo(e, t)
  <2>1. Prefix(q, Len(q)) = q
    BY <1>5, PrefixEnds
  <2> HIDE DEF q
  <2>2. IsSimple(e, q)
    <3> SUFFICES ASSUME NEW i \in 0 .. Len(q), NEW j \in 0 .. Len(q), i < j
                 PROVE  SetIn(e, Prefix(q, i)) # SetIn(e, Prefix(q, j))
      BY DEF IsSimple
    <3>1. i \in 0 .. Len(p) /\ (j = Len(q) \/ j \in 0 .. Len(p))
      BY <1>1, <1>5
    <3>2. Prefix(q, i) = Prefix(p, i)
      BY <1>5, <3>1
    <3>3. CASE j = Len(q)
      BY <1>4, <1>7, <2>1, <3>1, <3>2, <3>3
    <3>4. CASE j \in 0 .. Len(p)
      <4>1. SetIn(e, Prefix(p, i)) # SetIn(e, Prefix(p, j))
        BY <3>1, <3>4 DEF IsSimpleWay, IsSimple
      <4> QED BY <1>5, <3>2, <3>4, <4>1
    <3> QED BY <3>1, <3>3, <3>4
  <2>3. IsWay(e, q)
    BY <1>3 DEF q
  <2>4. SetIn(e, q) = t
    BY <1>4 DEF q
  <2> QED BY <2>2, <2>3, <2>4 DEF LeadsTo, IsSimpleWay
<1> QED BY <1>6, <1>7 DEF t

LEMMA RecurseDefault ==
  ASSUME NEW e \in Expression, NEW s, MayRecurseIn(e, s, FALSE), NEW top \in BOOLEAN
  PROVE  MayRecurseIn(e, s, top)
BY DEF MayRecurseIn

LEMMA RootIsSimple ==
  ASSUME NEW e \in Expression
  PROVE  IsSimpleWay(e, <<>>) /\ SetIn(e, <<>>) \in AttrSet
<1>1. IsWay(e, <<>>)
  BY WayOfRoot
<1>2. Len(<<>>) = 0 /\ 0 \in 0 .. Len(<<>>)
  OBVIOUS
<1>3. SetIn(e, <<>>) \in AttrSet
  <2>1. Prefix(<<>>, 0) = <<>>
    BY PrefixEnds, <1>1 DEF IsWay
  <2>2. SetIn(e, Prefix(<<>>, 0)) \in AttrSet
    BY <1>1, <1>2, WayValue
  <2> QED BY <2>1, <2>2
<1>4. IsSimple(e, <<>>)
  BY <1>2 DEF IsSimple
<1> QED BY <1>1, <1>3, <1>4 DEF IsSimpleWay

(***************************************************************************)
(* The levels of Reached.                                                  *)
(***************************************************************************)
LevelAbove(level) == level \cup UNION {Opened(s, FALSE) : s \in level}

IsLevels(v, k) ==
  v = [n \in 0 .. k |-> IF n = 0 THEN Opened(SetAt(<<>>), TRUE)
                        ELSE LevelAbove(v[n - 1])]

LEMMA LevelsExist ==
  ASSUME NEW k \in Nat
  PROVE  \E v : IsLevels(v, k)
<1> DEFINE first == Opened(SetAt(<<>>), TRUE)
           IsTo(n, v) == v = [i \in 0 .. n |-> IF i = 0 THEN first
                                               ELSE LevelAbove(v[i - 1])]
           T == {n \in Nat : ~\E v : IsTo(n, v)}
<1>1. \A n, v : IsLevels(v, n) <=> IsTo(n, v)
  BY DEF IsLevels
<1> HIDE DEF first
<1>2. T = {}
  <2> SUFFICES ASSUME T # {} PROVE FALSE
    OBVIOUS
  <2>1. PICK n \in T : \A j \in T : n <= j
    BY LeastMember
  <2>2. n \in Nat /\ ~\E v : IsTo(n, v)
    BY <2>1
  <2>3. CASE n = 0
    <3> DEFINE v == [i \in 0 .. 0 |-> first]
    <3>1. v = [i \in 0 .. 0 |-> IF i = 0 THEN first ELSE LevelAbove(v[i - 1])]
      OBVIOUS
    <3> QED BY <2>2, <2>3, <3>1
  <2>4. CASE n # 0
    <3>1. n - 1 \in Nat /\ n - 1 \notin T
      <4>1. n - 1 \in Nat /\ ~(n <= n - 1)
        BY <2>2, <2>4
      <4> HIDE DEF T
      <4> QED BY <2>1, <4>1
    <3>2. PICK v : IsTo(n - 1, v)
      BY <3>1
    <3> DEFINE w == [i \in 0 .. n |-> IF i = n THEN LevelAbove(v[n - 1])
                                              ELSE v[i]]
    <3>3. \A i \in 0 .. n - 1 : w[i] = v[i]
      BY <2>2
    <3>4. w[n] = LevelAbove(v[n - 1])
      BY <2>2
    <3>5. \A i \in 0 .. n - 1 :
            v[i] = IF i = 0 THEN first ELSE LevelAbove(v[i - 1])
      BY <3>2
    <3>6. ASSUME NEW i \in 0 .. n
          PROVE  w[i] = IF i = 0 THEN first ELSE LevelAbove(w[i - 1])
      <4>1. CASE i = n
        <5>1. n - 1 \in 0 .. n - 1
          BY <3>1
        <5> HIDE DEF w
        <5> QED BY <2>4, <3>3, <3>4, <4>1, <5>1
      <4>2. CASE i # n
        <5>1. i \in 0 .. n - 1 /\ (i # 0 => i - 1 \in 0 .. n - 1)
          BY <2>2, <4>2
        <5> HIDE DEF w
        <5> QED BY <3>3, <3>5, <5>1
      <4> QED BY <4>1, <4>2
    <3>7. w = [i \in 0 .. n |-> w[i]]
      OBVIOUS
    <3> HIDE DEF w
    <3>8. w = [i \in 0 .. n |-> IF i = 0 THEN first ELSE LevelAbove(w[i - 1])]
      BY <3>6, <3>7
    <3> QED BY <2>2, <3>8
  <2> QED BY <2>3, <2>4
<1> HIDE DEF IsTo
<1> QED BY <1>1, <1>2

LEMMA ReachedIs ==
  \E v : IsLevels(v, Cardinality(AttrSet)) /\ Reached = v[Cardinality(AttrSet)]
<1>1. Cardinality(AttrSet) \in Nat
  BY ExpressionAssumption, FS_CardinalityType DEF ExpressionAssumption
<1> DEFINE u == CHOOSE v : IsLevels(v, Cardinality(AttrSet))
<1>2. IsLevels(u, Cardinality(AttrSet))
  BY <1>1, LevelsExist
<1>3. Reached = u[Cardinality(AttrSet)]
  BY DEF Reached, IsLevels, LevelAbove
<1> QED BY <1>2, <1>3

LEMMA OpenedIs ==
  ASSUME NEW s, NEW top, NEW t \in Opened(s, top)
  PROVE  /\ t \in AttrSet /\ MayRecurseIn(expr, s, top)
         /\ \E a \in DOMAIN expr.attrs[s] : CalledIn(expr, expr.attrs[s][a], 0).of = t
BY RecurseNow, CalledNow DEF Opened, AttrsOf

LEMMA ReachedLeads ==
  ASSUME expr \in Expression, NEW s \in Reached
  PROVE  s \in AttrSet /\ LeadsTo(expr, s)
<1> DEFINE K == Cardinality(AttrSet)
           IsGood(level) == \A t \in level : t \in AttrSet /\ LeadsTo(expr, t)
<1>1. K \in Nat
  BY ExpressionAssumption, FS_CardinalityType DEF ExpressionAssumption
<1>2. PICK v : IsLevels(v, K) /\ Reached = v[K]
  BY ReachedIs
<1> HIDE DEF K
<1> DEFINE T == {n \in 0 .. K : ~IsGood(v[n])}
<1>3. /\ v[0] = Opened(SetAt(<<>>), TRUE)
      /\ \A n \in 1 .. K : v[n] = LevelAbove(v[n - 1])
  <2>1. \A n \in 0 .. K : v[n] = IF n = 0 THEN Opened(SetAt(<<>>), TRUE)
                                 ELSE LevelAbove(v[n - 1])
    BY <1>2 DEF IsLevels
  <2>2. 0 \in 0 .. K /\ \A n \in 1 .. K : n \in 0 .. K /\ n # 0
    BY <1>1
  <2> QED BY <2>1, <2>2
<1>4. IsGood(v[0])
  <2> SUFFICES ASSUME NEW t \in v[0] PROVE t \in AttrSet /\ LeadsTo(expr, t)
    OBVIOUS
  <2>1. t \in Opened(SetIn(expr, <<>>), TRUE)
    BY <1>3, ValueNow
  <2>2. t \in AttrSet /\ MayRecurseIn(expr, SetIn(expr, <<>>), TRUE)
    BY <2>1, OpenedIs
  <2>3. PICK a \in DOMAIN expr.attrs[SetIn(expr, <<>>)] :
          CalledIn(expr, expr.attrs[SetIn(expr, <<>>)][a], 0).of = t
    BY <2>1, OpenedIs
  <2>4. IsSimpleWay(expr, <<>>) /\ SetIn(expr, <<>>) \in AttrSet
    BY RootIsSimple
  <2>5. MayRecurseIn(expr, SetIn(expr, <<>>), <<>> = <<>>)
    BY <2>2
  <2> QED BY <2>2, <2>3, <2>4, <2>5, LeadsFurther
<1>5. ASSUME NEW n \in 1 .. K, IsGood(v[n - 1])
      PROVE  IsGood(v[n])
  <2> SUFFICES ASSUME NEW t \in v[n], t \notin v[n - 1]
               PROVE  t \in AttrSet /\ LeadsTo(expr, t)
    BY <1>5
  <2>1. PICK r \in v[n - 1] : t \in Opened(r, FALSE)
    <3>1. v[n] = LevelAbove(v[n - 1])
      BY <1>3
    <3> DEFINE level == v[n - 1]
    <3>2. t \in LevelAbove(level)
      BY <3>1
    <3> HIDE DEF level
    <3>3. t \in level \/ \E r \in level : t \in Opened(r, FALSE)
      BY <3>2 DEF LevelAbove
    <3> QED BY <3>3 DEF level
  <2>2. /\ t \in AttrSet /\ MayRecurseIn(expr, r, FALSE)
        /\ r \in AttrSet /\ LeadsTo(expr, r)
    BY <1>5, <2>1, OpenedIs
  <2>3. PICK p : IsSimpleWay(expr, p) /\ SetIn(expr, p) = r
    BY <2>2 DEF LeadsTo
  <2>4. PICK a \in DOMAIN expr.attrs[SetIn(expr, p)] :
          CalledIn(expr, expr.attrs[SetIn(expr, p)][a], 0).of = t
    BY <2>1, <2>3, OpenedIs
  <2>5. MayRecurseIn(expr, SetIn(expr, p), p = <<>>)
    BY <2>2, <2>3, RecurseDefault
  <2> QED BY <2>2, <2>3, <2>4, <2>5, LeadsFurther
<1>6. T = {}
  <2> SUFFICES ASSUME T # {} PROVE FALSE
    OBVIOUS
  <2>1. T \subseteq Nat
    BY <1>1
  <2>2. PICK n \in T : \A j \in T : n <= j
    <3> HIDE DEF T
    <3> QED BY <2>1, LeastMember
  <2>3. n \in 0 .. K /\ ~IsGood(v[n])
    BY <2>2
  <2>4. n \in 1 .. K /\ n - 1 \in 0 .. K /\ ~(n <= n - 1)
    <3> HIDE DEF IsGood
    <3> QED BY <1>1, <1>4, <2>3
  <2>5. IsGood(v[n - 1])
    <3> HIDE DEF IsGood
    <3> QED BY <2>2, <2>4
  <2> HIDE DEF IsGood
  <2> QED BY <1>5, <2>3, <2>4, <2>5
<1>7. K \in 0 .. K
  BY <1>1
<1>8. IsGood(v[K])
  <2> HIDE DEF IsGood
  <2> QED BY <1>6, <1>7
<1> QED BY <1>2, <1>8

LEMMA PrefixAppends ==
  ASSUME NEW p \in Seq(Name), NEW i \in 0 .. Len(p), i # 0
  PROVE  Append(Prefix(p, i - 1), p[i]) = Prefix(p, i)
<1> DEFINE q == Prefix(p, i - 1)
<1>1. /\ Len(p) \in Nat /\ i - 1 \in 0 .. Len(p) /\ i \in 1 .. Len(p)
      /\ (i - 1) + 1 = i
  BY LenProperties
<1>2. /\ q \in Seq(Name) /\ Len(q) = i - 1
      /\ \A j \in 1 .. i - 1 : q[j] = p[j]
  BY <1>1, PrefixIs
<1>3. p[i] \in Name
  BY <1>1, ElementOfSeq
<1> HIDE DEF q
<1>4. /\ Append(q, p[i]) \in Seq(Name) /\ Len(Append(q, p[i])) = i
      /\ Append(q, p[i])[i] = p[i]
      /\ \A j \in 1 .. i - 1 : Append(q, p[i])[j] = q[j]
  BY <1>1, <1>2, <1>3, AppendProperties
<1>5. /\ Prefix(p, i) \in Seq(Name) /\ Len(Prefix(p, i)) = i
      /\ \A j \in 1 .. i : Prefix(p, i)[j] = p[j]
  BY PrefixIs
<1>6. \A j \in 1 .. i : Append(q, p[i])[j] = Prefix(p, i)[j]
  <2> SUFFICES ASSUME NEW j \in 1 .. i
               PROVE  Append(q, p[i])[j] = Prefix(p, i)[j]
    OBVIOUS
  <2>1. Prefix(p, i)[j] = p[j]
    BY <1>5
  <2>2. CASE j = i
    BY <1>4, <2>1, <2>2
  <2>3. CASE j # i
    <3>1. j \in 1 .. i - 1
      BY <1>1, <2>3
    <3> QED BY <1>2, <1>4, <2>1, <3>1
  <2> QED BY <2>2, <2>3
<1> HIDE DEF Prefix
<1> QED BY <1>4, <1>5, <1>6, SamePath DEF q

(* A way that passes no set twice is shorter than there are sets. *)
LEMMA SimpleIsShort ==
  ASSUME NEW e \in Expression, NEW p, IsSimpleWay(e, p), SetIn(e, p) \in AttrSet
  PROVE  Len(p) + 1 <= Cardinality(AttrSet)
<1> DEFINE P == 0 .. Len(p)
           f == [i \in P |-> SetIn(e, Prefix(p, i))]
<1>1. p \in Seq(Name) /\ Len(p) \in Nat /\ IsWay(e, p) /\ Prefix(p, Len(p)) = p
  BY PrefixEnds DEF IsSimpleWay, IsWay
<1>2. IsFiniteSet(AttrSet) /\ Cardinality(AttrSet) \in Nat
  BY ExpressionAssumption, FS_CardinalityType DEF ExpressionAssumption
<1>3. IsFiniteSet(P) /\ Cardinality(P) = Len(p) + 1
  <2>1. 0 \in Int /\ Len(p) \in Int /\ 0 <= Len(p) /\ Len(p) - 0 + 1 = Len(p) + 1
    BY <1>1
  <2> QED BY <2>1, FS_Interval
<1>4. \A i \in P : SetIn(e, Prefix(p, i)) \in AttrSet
  <2> SUFFICES ASSUME NEW i \in P PROVE SetIn(e, Prefix(p, i)) \in AttrSet
    OBVIOUS
  <2>1. CASE i = Len(p)
    BY <1>1, <2>1
  <2>2. CASE i # Len(p)
    <3>1. i \in 0 .. Len(p) /\ i < Len(p)
      BY <1>1, <2>2
    <3> QED BY <1>1, <3>1, WayValue
  <2> QED BY <2>1, <2>2
<1>5. f \in Injection(P, AttrSet)
  <2>1. f \in [P -> AttrSet]
    BY <1>4
  <2>2. ASSUME NEW i \in P, NEW j \in P, f[i] = f[j]
        PROVE  i = j
    <3>1. i < j \/ j < i \/ i = j
      BY <1>1
    <3>2. i \in 0 .. Len(p) /\ j \in 0 .. Len(p)
      OBVIOUS
    <3>3. SetIn(e, Prefix(p, i)) = SetIn(e, Prefix(p, j))
      BY <2>2
    <3> HIDE DEF Prefix
    <3> QED BY <3>1, <3>2, <3>3 DEF IsSimpleWay, IsSimple
  <2> HIDE DEF f, P
  <2> QED BY <2>1, <2>2, Fun_IsInj
<1>6. Cardinality(P) <= Cardinality(AttrSet)
  <2> HIDE DEF f, P
  <2> QED BY <1>2, <1>5, FS_Injection
<1> HIDE DEF P
<1> QED BY <1>3, <1>6

(* At the end of a run in which no set was given up, every path that may   *)
(* be come to has been answered, down to the bound on their length.        *)
LEMMA AllAnswered ==
  ASSUME IInv, CoverInv, Finished, ~Aborted, SetsKept,
         NEW p, IsWay(expr, p), Len(p) <= MaxDepth
  PROVE  p \in DOMAIN answer
<1>1. /\ p \in Seq(Name) /\ Len(p) \in Nat /\ Prefix(p, Len(p)) = p
      /\ Prefix(p, 0) = <<>>
  BY PrefixEnds DEF IsWay
<1>2. expr \in Expression /\ MaxDepth \in Nat
  BY ExpressionAssumption DEF IInv, WalkInv, ExpressionAssumption
<1>3. ASSUME NEW q \in Found, Len(q) <= MaxDepth
      PROVE  q \in DOMAIN answer
  <2>1. ~busy /\ Takeable = {}
    BY DEF Finished
  <2>2. InHand = {} /\ q \notin todo
    BY <1>3, <2>1 DEF InHand, Takeable
  <2> QED BY <2>2 DEF Found
<1>4. ASSUME NEW q \in DOMAIN answer, IsOpen(expr, q),
             NEW a \in DOMAIN expr.attrs[SetIn(expr, q)]
      PROVE  Append(q, a) \in Found
  <2>1. SetIn(expr, q) \in AttrSet /\ SetIn(expr, q) \notin Leaf
    BY <1>4, Distinct DEF IsOpen
  <2>2. SetIn(expr, q) # "derivation" /\ SetIn(expr, q) # "throws"
    BY <2>1 DEF Leaf
  <2>3. ~DerivationFailsIn(expr, q)
    BY <2>2 DEF DerivationFailsIn
  <2>4. ~FailsIn(expr, q)
    BY <1>4, <2>2 DEF FailsIn, IsOpen, MayRecurseIn
  <2>5. answer[q].type # "error"
    <3>1. SetAt(q) \in AttrSet
      BY <2>1, ValueNow
    <3>2. q \notin retried \/ answer[q].type # "error"
      BY <3>1 DEF SetsKept, IsGivenUp
    <3> QED BY <2>3, <2>4, <3>2 DEF IInv, AnswerInv
  <2>6. answer[q].type \notin {"fatal", "abort"}
    BY DEF Aborted
  <2>7. answer[q].type # "job"
    BY <2>2 DEF CoverInv
  <2>8. answer[q].type \in {"attrs", "job", "error", "fatal", "abort"}
    BY DEF IInv, PathInv, Range, Payload
  <2>9. IsListedIn(expr, q, Found)
    BY <2>5, <2>6, <2>7, <2>8 DEF CoverInv
  <2> QED BY <1>4, <2>9 DEF IsListedIn
<1> DEFINE T == {i \in 0 .. Len(p) : Prefix(p, i) \notin DOMAIN answer}
<1>5. T = {}
  <2> SUFFICES ASSUME T # {} PROVE FALSE
    OBVIOUS
  <2>1. T \subseteq Nat
    BY <1>1
  <2>2. PICK i \in T : \A j \in T : i <= j
    <3> HIDE DEF T
    <3> QED BY <2>1, LeastMember
  <2>3. i \in 0 .. Len(p) /\ Prefix(p, i) \notin DOMAIN answer
    BY <2>2
  <2>4. CASE i = 0
    <3>1. <<>> \in Found /\ Len(<<>>) <= MaxDepth
      BY <1>2 DEF CoverInv
    <3>2. <<>> \in DOMAIN answer
      BY <1>3, <3>1
    <3> QED BY <1>1, <2>3, <2>4, <3>2
  <2>5. CASE i # 0
    <3> DEFINE q == Prefix(p, i - 1)
    <3>1. /\ i - 1 \in 0 .. Len(p) /\ i - 1 \in 0 .. Len(p) - 1
          /\ ~(i <= i - 1) /\ (i - 1) + 1 = i /\ i \in Nat
      BY <1>1, <2>3, <2>5
    <3>2. q \in DOMAIN answer
      BY <2>2, <3>1
    <3>3. IsOpen(expr, q) /\ p[i] \in DOMAIN expr.attrs[SetIn(expr, q)]
      <4>1. /\ IsOpen(expr, q)
            /\ p[(i - 1) + 1] \in DOMAIN expr.attrs[SetIn(expr, q)]
        BY <3>1 DEF IsWay
      <4> QED BY <3>1, <4>1
    <3>4. Append(q, p[i]) \in Found
      BY <1>4, <3>2, <3>3
    <3>5. Append(q, p[i]) = Prefix(p, i)
      BY <1>1, <2>3, <2>5, PrefixAppends
    <3>6. Len(Prefix(p, i)) = i /\ i <= MaxDepth
      <4>1. Len(Prefix(p, i)) = i
        BY <1>1, <2>3, PrefixIs
      <4> QED BY <1>1, <1>2, <2>3, <4>1
    <3> HIDE DEF q, Prefix
    <3> QED BY <1>3, <2>3, <3>4, <3>5, <3>6
  <2> QED BY <2>4, <2>5
<1>6. Len(p) \in 0 .. Len(p)
  BY <1>1
<1> HIDE DEF Prefix
<1> QED BY <1>1, <1>5, <1>6

(* A derivation in a set that can be reached is reported under one path at *)
(* least, whatever the graph and whatever processes were lost: neither the *)
(* check for cycles nor the flags hide it on all the ways to it, and a job *)
(* is queued again (Evaluator::evaluate, collectAttrsForRecursion).        *)
THEOREM DerivationsAreFound == Spec => []NoDerivationLost
<1>1. IInv /\ CoverInv => NoDerivationLost
  <2> SUFFICES ASSUME IInv, CoverInv, Finished, ~Aborted, SetsKept,
                      NEW s \in Reached \cup {SetAt(<<>>)},
                      NEW a \in DOMAIN AttrsOf(s), AttrsOf(s)[a] = "derivation",
                      MayRecurse(s, s \notin Reached)
               PROVE  \E p \in DOMAIN answer :
                        /\ \/ answer[p].type = "job"
                           \/ answer[p].type = "error" /\ DerivationFails(p)
                           \/ IsGivenUp(p)
                        /\ p # <<>> /\ Last(p) = a /\ SetAt(Front(p)) = s
    BY DEF NoDerivationLost
  <2>1. expr \in Expression
    BY DEF IInv, WalkInv
  <2>2. SetAt(<<>>) = SetIn(expr, <<>>)
    BY ValueNow
  <2>3. IsSimpleWay(expr, <<>>) /\ SetIn(expr, <<>>) \in AttrSet
    BY <2>1, RootIsSimple
  <2>4. s \in AttrSet /\ LeadsTo(expr, s)
    BY <2>1, <2>2, <2>3, ReachedLeads DEF LeadsTo
  <2>5. PICK p : IsSimpleWay(expr, p) /\ SetIn(expr, p) = s
    BY <2>4 DEF LeadsTo
  <2>6. IsWay(expr, p) /\ p \in Seq(Name) /\ Len(p) \in Nat
    BY <2>5, LenProperties DEF IsSimpleWay, IsWay
  <2>7. IsOpen(expr, p)
    <3>1. MayRecurseIn(expr, s, s \notin Reached)
      BY RecurseNow
    <3>2. MayRecurseIn(expr, s, p = <<>>)
      <4>1. CASE p = <<>>
        <5>1. CASE s \in Reached
          <6>1. MayRecurseIn(expr, s, FALSE)
            BY <3>1, <5>1 DEF MayRecurseIn
          <6> QED BY <2>1, <6>1, RecurseDefault
        <5>2. CASE s \notin Reached
          BY <3>1, <4>1, <5>2 DEF MayRecurseIn
        <5> QED BY <5>1, <5>2
      <4>2. CASE p # <<>>
        <5>1. SetIn(expr, <<>>) # SetIn(expr, p)
          <6>1. /\ Prefix(p, 0) = <<>> /\ Prefix(p, Len(p)) = p
                /\ Len(p) # 0
            BY <2>6, <4>2, PrefixEnds
          <6>2. 0 \in 0 .. Len(p) /\ Len(p) \in 0 .. Len(p) /\ 0 < Len(p)
            BY <2>6, <6>1
          <6>3. SetIn(expr, Prefix(p, 0)) # SetIn(expr, Prefix(p, Len(p)))
            BY <2>5, <6>2 DEF IsSimpleWay, IsSimple
          <6> HIDE DEF Prefix
          <6> QED BY <6>1, <6>3
        <5>2. s \in Reached
          BY <2>2, <2>5, <5>1
        <5> QED BY <3>1, <4>2, <5>2 DEF MayRecurseIn
      <4> QED BY <4>1, <4>2
    <3> QED BY <2>1, <2>4, <2>5, <3>2, SimpleIsNew DEF IsOpen
  <2> DEFINE q == Append(p, a)
  <2>8. a \in DOMAIN expr.attrs[SetIn(expr, p)]
    BY <2>5 DEF AttrsOf
  <2>9. a \in Name /\ IsWay(expr, q)
    BY <2>1, <2>6, <2>7, <2>8, WayDown
  <2>10. /\ q # <<>> /\ Front(q) = p /\ Last(q) = a
         /\ Len(q) = Len(p) + 1
    BY <2>6, <2>9, PrefixOfAppend
  <2>11. ValueIn(expr, q) = "derivation"
    BY <2>5, <2>6, <2>9, ValueOfAppend DEF AttrsOf
  <2> HIDE DEF q
  <2>12. "derivation" \in Leaf /\ "derivation" \notin AttrSet
         /\ "derivation" \notin Function /\ "derivation" \in Value
    BY Distinct DEF Leaf, Value
  <2>13. SetIn(expr, q) = "derivation"
    BY <2>1, <2>11, <2>12, CalledIs DEF SetIn
  <2>14. q \in DOMAIN answer
    <3>1. Len(p) + 1 <= Cardinality(AttrSet)
      BY <2>1, <2>4, <2>5, SimpleIsShort
    <3>2. Cardinality(AttrSet) \in Nat /\ MaxDepth \in Nat
          /\ MaxDepth > Cardinality(AttrSet)
      BY ExpressionAssumption, FS_CardinalityType DEF ExpressionAssumption
    <3>3. Len(q) <= MaxDepth
      BY <2>6, <2>10, <3>1, <3>2
    <3> QED BY <2>9, <3>3, AllAnswered
  <2>15. ~FailsIn(expr, q)
    BY <2>11, <2>12, <2>13 DEF FailsIn, Repeats
  <2>16. /\ answer[q].type \notin {"fatal", "abort"}
         /\ answer[q].type # "attrs"
    BY <2>13, <2>14 DEF Aborted, CoverInv, IsListedIn
  <2>17. answer[q].type = "error" => DerivationFails(q) \/ IsGivenUp(q)
    <3>1. answer[q].type = "error" =>
            FailsIn(expr, q) \/ DerivationFailsIn(expr, q) \/ q \in retried
      BY <2>14 DEF IInv, AnswerInv
    <3>2. DerivationFailsIn(expr, q) => DerivationFails(q)
      BY FailsNow
    <3> QED BY <2>15, <3>1, <3>2 DEF IsGivenUp
  <2>18. answer[q].type \in {"attrs", "job", "error", "fatal", "abort"}
    BY <2>14 DEF IInv, PathInv, Range, Payload
  <2>19. SetAt(Front(q)) = s
    BY <2>5, <2>10, ValueNow
  <2> QED BY <2>10, <2>14, <2>16, <2>17, <2>18, <2>19
<1> QED BY <1>1, Coverage, PTL

-----------------------------------------------------------------------------
(***************************************************************************)
(* joinAttrPath gives different paths different names: a reader of the     *)
(* joined path gets the names back, one after the other.                   *)
(***************************************************************************)
Chars ==
  (UNION {Range(Text[n]) : n \in Name})
    \cup {Dot, Quote, Backslash, Dollar} \cup Letter \cup Digit

Escaped(n) == [i \in DOMAIN Text[n] |-> Escape(Text[n][i])]

LEMMA TextIs ==
  ASSUME NEW n \in Name
  PROVE  /\ Text[n] \in Seq(Chars) /\ Len(Text[n]) \in Nat
         /\ DOMAIN Text[n] = 1 .. Len(Text[n])
<1>1. Text[n] \in Seq(Range(Text[n])) /\ Range(Text[n]) \subseteq Chars
  BY TextAssumption DEF TextAssumption, Chars
<1>2. Text[n] \in Seq(Chars)
  BY <1>1, SeqMonotonic
<1> QED BY <1>2, LenProperties

LEMMA SpecialAre ==
  /\ Dot # Quote /\ Quote # Backslash /\ Quote # Dollar
  /\ Backslash # Dollar /\ Dot # Backslash
  /\ Dot \notin Letter \cup Digit /\ Quote \notin Letter \cup Digit
<1> DEFINE s == <<Dot, Quote, Backslash, Dollar>>
<1>1. DOMAIN s = 1 .. 4 /\ s[1] = Dot /\ s[2] = Quote /\ s[3] = Backslash
      /\ s[4] = Dollar
  OBVIOUS
<1>2. \A i, j \in DOMAIN s : s[i] = s[j] => i = j
  BY TextAssumption DEF TextAssumption, IsInjective
<1>3. 1 \in 1 .. 4 /\ 2 \in 1 .. 4 /\ 3 \in 1 .. 4 /\ 4 \in 1 .. 4
  OBVIOUS
<1> HIDE DEF s
<1>4. /\ Dot # Quote /\ Quote # Backslash /\ Quote # Dollar
      /\ Backslash # Dollar /\ Dot # Backslash
  BY <1>1, <1>2, <1>3
<1> QED BY <1>4, TextAssumption DEF TextAssumption

LEMMA EscapeIs ==
  ASSUME NEW c \in Chars
  PROVE  /\ Escape(c) \in Seq(Chars) /\ Len(Escape(c)) \in 1 .. 2
         /\ Len(Escape(c)) = 1 => Escape(c)[1] = c /\ c # Quote /\ c # Backslash
         /\ Len(Escape(c)) = 2 => Escape(c)[1] = Backslash /\ Escape(c)[2] = c
<1>1. Backslash \in Chars
  BY DEF Chars
<1> QED BY <1>1 DEF Escape

(* A reader knows which character was escaped, and that it is no quote.    *)
LEMMA EscapeDecodes ==
  ASSUME NEW c \in Chars, NEW d \in Chars, NEW w, NEW n \in Nat,
         FoundAfter(w, n, Escape(c))
  PROVE  /\ w[n + 1] # Quote
         /\ FoundAfter(w, n, Escape(d)) => c = d
<1>1. ASSUME NEW e \in Chars, FoundAfter(w, n, Escape(e))
      PROVE  \/ w[n + 1] = e /\ e # Quote /\ e # Backslash
             \/ w[n + 1] = Backslash /\ w[n + 2] = e
  <2>1. \A k \in 1 .. Len(Escape(e)) : w[n + k] = Escape(e)[k]
    BY <1>1 DEF FoundAfter
  <2>2. CASE Len(Escape(e)) = 1
    BY <2>1, <2>2, EscapeIs
  <2>3. CASE Len(Escape(e)) = 2
    BY <2>1, <2>3, EscapeIs
  <2> QED BY <2>2, <2>3, EscapeIs
<1> QED BY <1>1, SpecialAre

LEMMA EscapedIs ==
  ASSUME NEW n \in Name
  PROVE  /\ Escaped(n) \in Seq(Seq(Chars)) /\ Len(Escaped(n)) = Len(Text[n])
         /\ \A i \in 1 .. Len(Text[n]) :
              Text[n][i] \in Chars /\ Escaped(n)[i] = Escape(Text[n][i])
<1>1. \A i \in 1 .. Len(Text[n]) : Text[n][i] \in Chars
  BY TextIs
<1>2. Escaped(n) = [i \in 1 .. Len(Text[n]) |-> Escape(Text[n][i])]
  BY TextIs DEF Escaped
<1>3. \A i \in 1 .. Len(Text[n]) : Escape(Text[n][i]) \in Seq(Chars)
  BY <1>1, EscapeIs
<1>4. Escaped(n) \in [1 .. Len(Text[n]) -> Seq(Chars)]
  BY <1>2, <1>3
<1> QED BY <1>1, <1>2, <1>4, TextIs, IsASeq

(* The escaped text of a name is known by its characters and by the quote  *)
(* after it.                                                               *)
Shows(w, n, name, f) ==
  /\ Joins(Chars, Escaped(name), f)
  /\ FoundAfter(w, n, f[Len(Text[name])])
  /\ w[n + Len(f[Len(Text[name])]) + 1] = Quote

LEMMA ShowsChar ==
  ASSUME NEW w \in Seq(Chars), NEW n \in Nat, NEW name \in Name, NEW f,
         Shows(w, n, name, f), NEW i \in 1 .. Len(Text[name])
  PROVE  /\ Len(f[i - 1]) \in Nat
         /\ FoundAfter(w, n + Len(f[i - 1]), Escape(Text[name][i]))
<1> DEFINE s == Escaped(name)
<1>1. /\ s \in Seq(Seq(Chars)) /\ Len(s) = Len(Text[name]) /\ Joins(Chars, s, f)
      /\ s[i] = Escape(Text[name][i]) /\ s[i] \in Seq(Chars)
      /\ Len(s) \in Nat
  BY EscapedIs, EscapeIs, TextIs DEF Shows
<1>2. FoundAfter(w, n, f[Len(s)])
  BY <1>1 DEF Shows
<1> HIDE DEF s
<1>3. i \in 1 .. Len(s)
  BY <1>1
<1>4. Len(f[i - 1]) \in Nat /\ FoundAfter(f[Len(s)], Len(f[i - 1]), s[i])
  BY <1>1, <1>3, JoinsFound
<1>5. f[Len(s)] \in Seq(Chars)
  <2>1. Len(s) \in 0 .. Len(s) /\ f \in [0 .. Len(s) -> Seq(Chars)]
    BY <1>1 DEF Joins
  <2> QED BY <2>1
<1>6. FoundAfter(w, n + Len(f[i - 1]), s[i])
  BY <1>1, <1>2, <1>4, <1>5, FoundIn
<1> QED BY <1>1, <1>4, <1>6

LEMMA TextDecodes ==
  ASSUME NEW w \in Seq(Chars), NEW n \in Nat,
         NEW a \in Name, NEW f, Shows(w, n, a, f),
         NEW b \in Name, NEW g, Shows(w, n, b, g)
  PROVE  a = b
<1>1. Text[a] = Text[b]
  <2>1. SUFFICES ASSUME Text[a] # Text[b] PROVE FALSE
    OBVIOUS
  <2>2. PICK i : Differ(Text[a], Text[b], i)
    BY <2>1, TextIs, FirstDifference
  <2>3. f[i - 1] = g[i - 1]
    <3>1. /\ i - 1 \in Nat /\ i - 1 <= Len(Escaped(a)) /\ i - 1 <= Len(Escaped(b))
          /\ \A k \in 1 .. i - 1 : Escaped(a)[k] = Escaped(b)[k]
      <4>1. i - 1 \in Nat /\ i - 1 <= Len(Text[a]) /\ i - 1 <= Len(Text[b])
        BY <2>2 DEF Differ
      <4>2. ASSUME NEW k \in 1 .. i - 1
            PROVE  Escaped(a)[k] = Escaped(b)[k]
        <5>1. k \in 1 .. Len(Text[a]) /\ k \in 1 .. Len(Text[b])
          BY <4>1, TextIs
        <5>2. Text[a][k] = Text[b][k]
          BY <2>2 DEF Differ
        <5> QED BY <5>1, <5>2, EscapedIs
      <4> QED BY <4>1, <4>2, EscapedIs
    <3>2. /\ Escaped(a) \in Seq(Seq(Chars)) /\ Joins(Chars, Escaped(a), f)
          /\ Escaped(b) \in Seq(Seq(Chars)) /\ Joins(Chars, Escaped(b), g)
      BY EscapedIs DEF Shows
    <3> DEFINE m == i - 1
    <3>3. /\ m \in Nat /\ m <= Len(Escaped(a)) /\ m <= Len(Escaped(b))
          /\ \A k \in 1 .. m : Escaped(a)[k] = Escaped(b)[k]
      BY <3>1
    <3> HIDE DEF m
    <3>4. f[m] = g[m]
      BY <3>2, <3>3, JoinsAgree
    <3> QED BY <3>4 DEF m
  <2>4. i \in Nat /\ i >= 1 /\ Len(Text[a]) \in Nat /\ Len(Text[b]) \in Nat
    BY <2>2, TextIs DEF Differ
  <2>5. CASE i <= Len(Text[a]) /\ i <= Len(Text[b]) /\ Text[a][i] # Text[b][i]
    <3>1. i \in 1 .. Len(Text[a]) /\ i \in 1 .. Len(Text[b])
      BY <2>4, <2>5
    <3>2. /\ Len(f[i - 1]) \in Nat
          /\ FoundAfter(w, n + Len(f[i - 1]), Escape(Text[a][i]))
          /\ FoundAfter(w, n + Len(f[i - 1]), Escape(Text[b][i]))
      BY <2>3, <3>1, ShowsChar
    <3>3. Text[a][i] \in Chars /\ Text[b][i] \in Chars
      BY <3>1, EscapedIs
    <3>4. n + Len(f[i - 1]) \in Nat
      BY <3>2
    <3> QED BY <2>5, <3>2, <3>3, <3>4, EscapeDecodes
  <2>6. CASE i - 1 = Len(Text[a]) /\ i <= Len(Text[b])
    <3>1. i \in 1 .. Len(Text[b])
      BY <2>4, <2>6
    <3>2. /\ Len(f[i - 1]) \in Nat
          /\ FoundAfter(w, n + Len(f[i - 1]), Escape(Text[b][i]))
      BY <2>3, <3>1, ShowsChar
    <3>3. w[n + Len(f[i - 1]) + 1] # Quote
      BY <3>1, <3>2, EscapedIs, EscapeDecodes
    <3> QED BY <2>6, <3>3 DEF Shows
  <2>7. CASE i - 1 = Len(Text[b]) /\ i <= Len(Text[a])
    <3>1. i \in 1 .. Len(Text[a])
      BY <2>4, <2>7
    <3>2. /\ Len(f[i - 1]) \in Nat
          /\ FoundAfter(w, n + Len(f[i - 1]), Escape(Text[a][i]))
      BY <3>1, ShowsChar
    <3>3. w[n + Len(f[i - 1]) + 1] # Quote
      BY <3>1, <3>2, EscapedIs, EscapeDecodes
    <3> QED BY <2>3, <2>7, <3>3 DEF Shows
  <2> QED BY <2>2, <2>5, <2>6, <2>7 DEF Differ
<1> QED BY <1>1, TextAssumption DEF TextAssumption, IsInjective

(* A part of a joined path: what follows it is a dot, or nothing.          *)
IsPartAt(w, n, name) ==
  /\ FoundAfter(w, n, Part(name))
  /\ Len(w) = n + Len(Part(name)) \/ w[n + Len(Part(name)) + 1] = Dot

LEMMA QuotedIs ==
  ASSUME NEW name \in Name, ~IsPlainIdentifier(Text[name])
  PROVE  /\ Part(name) \in Seq(Chars) /\ Len(Part(name)) >= 1
         /\ \A w \in Seq(Chars), n \in Nat : FoundAfter(w, n, Part(name)) =>
              w[n + 1] = Quote /\ \E f : Shows(w, n + 1, name, f)
<1>1. PICK f : /\ Joins(Chars, Escaped(name), f)
               /\ FlattenSeq(Escaped(name)) = f[Len(Escaped(name))]
  BY EscapedIs, FlattenSeqIs
<1> DEFINE u == f[Len(Text[name])]
           q == <<Quote>>
<1>2. u \in Seq(Chars) /\ Len(u) \in Nat
  BY <1>1, EscapedIs, TextIs, LenProperties DEF Joins
<1>3. q \in Seq(Chars) /\ Len(q) = 1 /\ q[1] = Quote
  BY DEF Chars
<1>4. Part(name) = (q \o u) \o q
  <2>1. Part(name) = (q \o FlattenSeq(Escaped(name))) \o q
    BY DEF Part, Escaped
  <2> QED BY <1>1, <2>1, EscapedIs
<1> HIDE DEF q, u
<1>5. /\ q \o u \in Seq(Chars) /\ Len(q \o u) = Len(u) + 1
      /\ FoundAfter(q \o u, 0, q) /\ FoundAfter(q \o u, 1, u)
  <2>1. /\ q \o u \in Seq(Chars) /\ Len(q \o u) = Len(q) + Len(u)
        /\ FoundAfter(q \o u, 0, q) /\ FoundAfter(q \o u, Len(q), u)
    BY <1>2, <1>3, ConcatIs
  <2> QED BY <1>2, <1>3, <2>1
<1>6. /\ Part(name) \in Seq(Chars) /\ FoundAfter(Part(name), 0, q \o u)
      /\ FoundAfter(Part(name), Len(u) + 1, q)
  BY <1>3, <1>4, <1>5, ConcatIs
<1>7. ASSUME NEW w \in Seq(Chars), NEW n \in Nat, FoundAfter(w, n, Part(name))
      PROVE  w[n + 1] = Quote /\ Shows(w, n + 1, name, f)
  <2> DEFINE v == q \o u
  <2>1. FoundAfter(w, n, v)
    <3>1. v \in Seq(Chars) /\ FoundAfter(Part(name), 0, v)
      BY <1>5, <1>6
    <3> HIDE DEF v
    <3>2. FoundAfter(w, n + 0, v) /\ n + 0 = n
      BY <1>6, <1>7, <3>1, FoundIn
    <3> QED BY <3>2
  <2>2. FoundAfter(w, n + 0, q) /\ n + 0 = n
    <3>1. v \in Seq(Chars) /\ FoundAfter(v, 0, q)
      BY <1>5
    <3> HIDE DEF v
    <3> QED BY <1>3, <2>1, <3>1, FoundIn
  <2>3. FoundAfter(w, n + 1, u)
    <3>1. v \in Seq(Chars) /\ FoundAfter(v, 1, u)
      BY <1>5
    <3> HIDE DEF v
    <3> QED BY <1>2, <2>1, <3>1, FoundIn
  <2>4. FoundAfter(w, n + (Len(u) + 1), q)
    <3>1. Len(u) + 1 \in Nat
      BY <1>2
    <3> QED BY <1>3, <1>6, <1>7, <3>1, FoundIn
  <2>5. w[n + 1] = Quote
    BY <1>3, <2>2 DEF FoundAfter
  <2>6. w[(n + (Len(u) + 1)) + 1] = Quote
    BY <1>3, <2>4 DEF FoundAfter
  <2>7. (n + 1) + Len(u) + 1 = (n + (Len(u) + 1)) + 1
    BY <1>2
  <2> QED BY <1>1, <2>3, <2>5, <2>6, <2>7 DEF Shows, u
<1>8. Len(Part(name)) >= 1
  BY <1>2, <1>3, <1>4, <1>5, ConcatIs
<1> QED BY <1>6, <1>7, <1>8

LEMMA PlainIs ==
  ASSUME NEW name \in Name, IsPlainIdentifier(Text[name])
  PROVE  /\ Part(name) = Text[name] /\ Len(Text[name]) \in Nat
         /\ Len(Text[name]) >= 1 /\ Text[name] \in Seq(Chars)
         /\ \A i \in 1 .. Len(Text[name]) : Text[name][i] \in Letter \cup Digit
<1>1. Text[name] # <<>> /\ Range(Text[name]) \subseteq Letter \cup Digit
  BY DEF IsPlainIdentifier
<1>2. Len(Text[name]) # 0
  BY <1>1, TextIs, EmptySeq
<1> QED BY <1>1, <1>2, TextIs DEF Part, Range

LEMMA PartDecodes ==
  ASSUME NEW w \in Seq(Chars), NEW n \in Nat,
         NEW a \in Name, IsPartAt(w, n, a), NEW b \in Name, IsPartAt(w, n, b)
  PROVE  a = b
<1>1. ASSUME NEW c \in Name, IsPartAt(w, n, c)
      PROVE  IsPlainIdentifier(Text[c]) <=> w[n + 1] # Quote
  <2>1. CASE IsPlainIdentifier(Text[c])
    <3>1. 1 \in 1 .. Len(Text[c])
      BY <2>1, PlainIs
    <3>2. w[n + 1] \in Letter \cup Digit
      <4>1. Part(c) = Text[c] /\ Text[c][1] \in Letter \cup Digit
        BY <2>1, <3>1, PlainIs
      <4>2. w[n + 1] = Part(c)[1]
        BY <1>1, <3>1, <4>1 DEF IsPartAt, FoundAfter
      <4> QED BY <4>1, <4>2
    <3> QED BY <2>1, <3>2, SpecialAre
  <2>2. CASE ~IsPlainIdentifier(Text[c])
    BY <1>1, <2>2, QuotedIs DEF IsPartAt
  <2> QED BY <2>1, <2>2
<1>2. CASE ~IsPlainIdentifier(Text[a])
  <2>1. ~IsPlainIdentifier(Text[b])
    BY <1>1, <1>2
  <2>2. PICK f : Shows(w, n + 1, a, f)
    BY <1>2, QuotedIs DEF IsPartAt
  <2>3. PICK g : Shows(w, n + 1, b, g)
    BY <2>1, QuotedIs DEF IsPartAt
  <2> QED BY <2>2, <2>3, TextDecodes
<1>3. CASE IsPlainIdentifier(Text[a])
  <2>1. IsPlainIdentifier(Text[b])
    BY <1>1, <1>3
  <2>2. ASSUME NEW c \in Name, NEW d \in Name, IsPlainIdentifier(Text[c]),
               IsPlainIdentifier(Text[d]), IsPartAt(w, n, c), IsPartAt(w, n, d)
        PROVE  ~(Len(Text[c]) < Len(Text[d]))
    <3>1. SUFFICES ASSUME Len(Text[c]) < Len(Text[d]) PROVE FALSE
      OBVIOUS
    <3>2. Len(Text[c]) \in Nat /\ Len(Text[d]) \in Nat /\ Len(w) \in Nat
      BY TextIs, LenProperties
    <3>3. Len(Text[c]) + 1 \in 1 .. Len(Text[d])
      BY <3>1, <3>2
    <3>4. /\ n + Len(Text[d]) <= Len(w)
          /\ w[n + (Len(Text[c]) + 1)] \in Letter \cup Digit
      <4>1. FoundAfter(w, n, Text[d])
        BY <2>2, PlainIs DEF IsPartAt
      <4>2. /\ n + Len(Text[d]) <= Len(w)
            /\ w[n + (Len(Text[c]) + 1)] = Text[d][Len(Text[c]) + 1]
        BY <3>3, <4>1 DEF FoundAfter
      <4>3. Text[d][Len(Text[c]) + 1] \in Letter \cup Digit
        BY <2>2, <3>3, PlainIs
      <4> QED BY <4>2, <4>3
    <3>5. Len(w) # n + Len(Text[c])
      BY <3>1, <3>2, <3>4
    <3>6. w[n + Len(Text[c]) + 1] = Dot
      BY <2>2, <3>5, PlainIs DEF IsPartAt
    <3>7. n + Len(Text[c]) + 1 = n + (Len(Text[c]) + 1)
      BY <3>2
    <3> QED BY <3>4, <3>6, <3>7, SpecialAre
  <2>3. Len(Text[a]) = Len(Text[b])
    BY <1>3, <2>1, <2>2, TextIs
  <2>4. \A i \in 1 .. Len(Text[a]) : Text[a][i] = Text[b][i]
    BY <1>3, <2>1, <2>3, PlainIs DEF IsPartAt, FoundAfter
  <2>5. Text[a] = Text[b]
    BY <2>3, <2>4, TextIs, SeqEqual
  <2> QED BY <2>5, TextAssumption DEF TextAssumption, IsInjective
<1> QED BY <1>2, <1>3

(* joinAttrPath.                                                           *)
Parts(p) ==
  [i \in DOMAIN p |-> IF i = 1 THEN Part(p[i]) ELSE <<Dot>> \o Part(p[i])]

LEMMA PartIs ==
  ASSUME NEW n \in Name
  PROVE  /\ Part(n) \in Seq(Chars) /\ Len(Part(n)) \in Nat
         /\ <<Dot>> \o Part(n) \in Seq(Chars)
         /\ Len(<<Dot>> \o Part(n)) = Len(Part(n)) + 1
         /\ FoundAfter(<<Dot>> \o Part(n), 0, <<Dot>>)
         /\ FoundAfter(<<Dot>> \o Part(n), 1, Part(n))
<1>1. Part(n) \in Seq(Chars)
  BY PlainIs, QuotedIs
<1>2. <<Dot>> \in Seq(Chars) /\ Len(<<Dot>>) = 1
  BY DEF Chars
<1>3. Len(Part(n)) + 1 = 1 + Len(Part(n)) /\ Len(Part(n)) \in Nat
  BY <1>1, LenProperties
<1> DEFINE u == <<Dot>>
<1> HIDE DEF u
<1>4. /\ u \o Part(n) \in Seq(Chars) /\ Len(u \o Part(n)) = 1 + Len(Part(n))
      /\ FoundAfter(u \o Part(n), 0, u) /\ FoundAfter(u \o Part(n), 1, Part(n))
  BY <1>1, <1>2, ConcatIs DEF u
<1> QED BY <1>1, <1>3, <1>4 DEF u


LEMMA PartsAre ==
  ASSUME NEW p \in Seq(Name)
  PROVE  /\ Parts(p) \in Seq(Seq(Chars)) /\ Len(Parts(p)) = Len(p)
         /\ Len(p) \in Nat
         /\ \A i \in 1 .. Len(p) :
              /\ p[i] \in Name /\ Len(Parts(p)[i]) >= 1
              /\ Parts(p)[i] = IF i = 1 THEN Part(p[i])
                                        ELSE <<Dot>> \o Part(p[i])
<1>1. /\ Len(p) \in Nat /\ DOMAIN p = 1 .. Len(p)
      /\ \A i \in 1 .. Len(p) : p[i] \in Name
  BY LenProperties
<1>2. \A i \in 1 .. Len(p) :
        Parts(p)[i] = IF i = 1 THEN Part(p[i]) ELSE <<Dot>> \o Part(p[i])
  BY <1>1 DEF Parts
<1>3. \A i \in 1 .. Len(p) : Parts(p)[i] \in Seq(Chars)
  BY <1>1, <1>2, PartIs
<1>4. Parts(p) = [i \in 1 .. Len(p) |-> Parts(p)[i]]
  BY <1>1 DEF Parts
<1>5. Parts(p) \in [1 .. Len(p) -> Seq(Chars)]
  BY <1>3, <1>4
<1>6. \A i \in 1 .. Len(p) : Len(Part(p[i])) >= 1
  <2> SUFFICES ASSUME NEW i \in 1 .. Len(p) PROVE Len(Part(p[i])) >= 1
    OBVIOUS
  <2>1. CASE IsPlainIdentifier(Text[p[i]])
    BY <1>1, <2>1, PlainIs
  <2>2. CASE ~IsPlainIdentifier(Text[p[i]])
    BY <1>1, <2>2, QuotedIs
  <2> QED BY <2>1, <2>2
<1>7. \A i \in 1 .. Len(p) : Len(Parts(p)[i]) >= 1
  <2> SUFFICES ASSUME NEW i \in 1 .. Len(p) PROVE Len(Parts(p)[i]) >= 1
    OBVIOUS
  <2>1. CASE i = 1
    BY <1>2, <1>6, <2>1
  <2>2. CASE i # 1
    <3>1. Len(Parts(p)[i]) = Len(Part(p[i])) + 1
      BY <1>1, <1>2, <2>2, PartIs
    <3>2. Len(Part(p[i])) \in Nat
      BY <1>1, PartIs
    <3> QED BY <3>1, <3>2
  <2> QED BY <2>1, <2>2
<1> QED BY <1>1, <1>2, <1>5, <1>7, IsASeq

(* Where a name is found in a joined path: after the dot.                  *)
After(f, i) == IF i = 1 THEN Len(f[i - 1]) ELSE Len(f[i - 1]) + 1

LEMMA NameFound ==
  ASSUME NEW p \in Seq(Name), NEW f, Joins(Chars, Parts(p), f),
         NEW i \in 1 .. Len(p), NEW start, start = After(f, i)
  PROVE  /\ start \in Nat /\ f[Len(p)] \in Seq(Chars)
         /\ Len(f[i]) = start + Len(Part(p[i]))
         /\ IsPartAt(f[Len(p)], start, p[i])
<1> DEFINE s == Parts(p)
           w == f[Len(p)]
<1>1. /\ s \in Seq(Seq(Chars)) /\ Len(s) = Len(p) /\ Len(p) \in Nat
      /\ Joins(Chars, s, f) /\ p[i] \in Name
      /\ s[i] = IF i = 1 THEN Part(p[i]) ELSE <<Dot>> \o Part(p[i])
  BY PartsAre
<1>2. w \in Seq(Chars) /\ Len(w) \in Nat
  <2>1. Len(p) \in 0 .. Len(p) /\ f \in [0 .. Len(p) -> Seq(Chars)]
    BY <1>1 DEF Joins
  <2> QED BY <2>1, LenProperties
<1>3. /\ Len(f[i - 1]) \in Nat /\ FoundAfter(w, Len(f[i - 1]), s[i])
      /\ Len(f[i]) = Len(f[i - 1]) + Len(s[i])
  <2>1. f[Len(p)] = f[Len(s)]
    BY <1>1
  <2>2. s \in Seq(Seq(Chars)) /\ Joins(Chars, s, f) /\ i \in 1 .. Len(s)
    BY <1>1
  <2> HIDE DEF s
  <2>3. Len(f[i - 1]) \in Nat /\ FoundAfter(f[Len(s)], Len(f[i - 1]), s[i])
    BY <2>2, JoinsFound
  <2>4. Len(f[i]) = Len(f[i - 1]) + Len(s[i])
    BY <2>2, JoinsFound
  <2> QED BY <2>1, <2>3, <2>4
<1>4. /\ start \in Nat /\ Len(f[i]) = start + Len(Part(p[i]))
      /\ FoundAfter(w, start, Part(p[i]))
  <2> HIDE DEF w, s
  <2>1. CASE i = 1
    BY <1>1, <1>3, <2>1 DEF After
  <2>2. CASE i # 1
    <3>1. start = Len(f[i - 1]) + 1
      BY <2>2 DEF After
    <3>2. /\ s[i] \in Seq(Chars) /\ Part(p[i]) \in Seq(Chars)
          /\ Len(s[i]) = Len(Part(p[i])) + 1 /\ Len(Part(p[i])) \in Nat
          /\ FoundAfter(s[i], 1, Part(p[i]))
      BY <1>1, <2>2, PartIs
    <3>3. FoundAfter(w, start, Part(p[i]))
      <4> DEFINE a == Len(f[i - 1])
                 u == Part(p[i])
                 v == s[i]
      <4>1. /\ a \in Nat /\ u \in Seq(Chars) /\ v \in Seq(Chars)
            /\ FoundAfter(v, 1, u) /\ FoundAfter(w, a, v) /\ start = a + 1
        BY <1>3, <3>1, <3>2
      <4> HIDE DEF a, u, v
      <4>2. FoundAfter(w, a + 1, u)
        BY <1>2, <4>1, FoundIn
      <4> QED BY <4>1, <4>2 DEF u
    <3>4. start \in Nat
      BY <1>3, <3>1
    <3>5. Len(f[i]) = start + Len(Part(p[i]))
      <4> DEFINE a == Len(f[i - 1])
                 b == Len(Part(p[i]))
                 c == Len(f[i])
      <4>1. a \in Nat /\ b \in Nat /\ start = a + 1 /\ c = a + (b + 1)
        BY <1>3, <3>1, <3>2
      <4> HIDE DEF a, b, c
      <4>2. c = start + b
        BY <4>1
      <4> QED BY <4>2 DEF b, c
    <3> QED BY <3>3, <3>4, <3>5
  <2> QED BY <2>1, <2>2
<1>5. Len(w) = start + Len(Part(p[i])) \/ w[start + Len(Part(p[i])) + 1] = Dot
  <2>1. CASE i = Len(p)
    BY <1>4, <2>1
  <2>2. CASE i # Len(p)
    <3> DEFINE j == i + 1
    <3>1. j \in 1 .. Len(p) /\ j # 1 /\ j - 1 = i
      BY <1>1, <2>2
    <3> HIDE DEF j, s, w
    <3>2. s[j] = <<Dot>> \o Part(p[j]) /\ p[j] \in Name
      BY <3>1, PartsAre DEF s
    <3>3. FoundAfter(w, Len(f[j - 1]), s[j])
      BY <1>1, <3>1, JoinsFound DEF w
    <3>4. FoundAfter(s[j], 0, <<Dot>>) /\ s[j] \in Seq(Chars)
      BY <3>2, PartIs
    <3>5. <<Dot>> \in Seq(Chars) /\ Len(<<Dot>>) = 1 /\ <<Dot>>[1] = Dot
      BY DEF Chars
    <3>6. 1 \in 1 .. Len(s[j]) /\ s[j][0 + 1] = Dot
      BY <3>2, <3>4, <3>5, PartIs DEF FoundAfter
    <3>7. w[Len(f[j - 1]) + 1] = Dot
      BY <3>3, <3>6 DEF FoundAfter
    <3> QED BY <1>4, <3>1, <3>7
  <2> QED BY <2>1, <2>2
<1> QED BY <1>2, <1>4, <1>5 DEF IsPartAt

LEMMA JoinIsInjective ==
  ASSUME NEW p \in Seq(Name), NEW q \in Seq(Name),
         JoinAttrPath(p) = JoinAttrPath(q)
  PROVE  p = q
<1>1. SUFFICES ASSUME p # q PROVE FALSE
  OBVIOUS
<1>2. PICK i : Differ(p, q, i)
  BY <1>1, FirstDifference
<1>3. PICK f : Joins(Chars, Parts(p), f) /\ FlattenSeq(Parts(p)) = f[Len(p)]
  <2>1. Parts(p) \in Seq(Seq(Chars)) /\ Len(Parts(p)) = Len(p)
    BY PartsAre
  <2>2. \E f : Joins(Chars, Parts(p), f)
               /\ FlattenSeq(Parts(p)) = f[Len(Parts(p))]
    BY <2>1, FlattenSeqIs
  <2> QED BY <2>1, <2>2
<1>4. PICK g : Joins(Chars, Parts(q), g) /\ FlattenSeq(Parts(q)) = g[Len(q)]
  <2>1. Parts(q) \in Seq(Seq(Chars)) /\ Len(Parts(q)) = Len(q)
    BY PartsAre
  <2>2. \E g : Joins(Chars, Parts(q), g)
               /\ FlattenSeq(Parts(q)) = g[Len(Parts(q))]
    BY <2>1, FlattenSeqIs
  <2> QED BY <2>1, <2>2
<1>5. f[Len(p)] = g[Len(q)]
  BY <1>3, <1>4 DEF JoinAttrPath, Parts
<1>6. /\ i \in Nat /\ i >= 1 /\ i - 1 \in Nat
      /\ i - 1 <= Len(p) /\ i - 1 <= Len(q) /\ Len(p) \in Nat /\ Len(q) \in Nat
  BY <1>2, LenProperties DEF Differ
<1>7. f[i - 1] = g[i - 1]
  <2> DEFINE m == i - 1
  <2>1. \A k \in 1 .. m : k \in 1 .. Len(p) /\ k \in 1 .. Len(q) /\ p[k] = q[k]
    BY <1>2, <1>6 DEF Differ
  <2>2. \A k \in 1 .. m : Parts(p)[k] = Parts(q)[k]
    BY <2>1, PartsAre
  <2>3. m \in Nat /\ m <= Len(Parts(p)) /\ m <= Len(Parts(q))
    BY <1>6, PartsAre
  <2> HIDE DEF m
  <2>4. f[m] = g[m]
    BY <1>3, <1>4, <2>2, <2>3, PartsAre, JoinsAgree
  <2> QED BY <2>4 DEF m
<1>8. CASE i <= Len(p) /\ i <= Len(q) /\ p[i] # q[i]
  <2> DEFINE start == After(f, i)
  <2>1. i \in 1 .. Len(p) /\ i \in 1 .. Len(q)
    BY <1>6, <1>8
  <2>2. start = After(f, i)
    OBVIOUS
  <2>3. start = After(g, i)
    BY <1>7 DEF After
  <2> HIDE DEF start
  <2>4. /\ start \in Nat /\ f[Len(p)] \in Seq(Chars)
        /\ IsPartAt(f[Len(p)], start, p[i])
    BY <1>3, <2>1, <2>2, NameFound
  <2>5. IsPartAt(g[Len(q)], start, q[i])
    BY <1>4, <2>1, <2>3, NameFound
  <2>6. p[i] \in Name /\ q[i] \in Name
    BY <2>1, PartsAre
  <2> QED BY <1>5, <1>8, <2>4, <2>5, <2>6, PartDecodes
<1>9. ASSUME NEW r \in Seq(Name), NEW h, Joins(Chars, Parts(r), h),
             i <= Len(r)
      PROVE  Len(h[i - 1]) \in Nat /\ Len(h[i - 1]) < Len(h[Len(r)])
  <2>1. i \in 1 .. Len(r)
    BY <1>6, <1>9, LenProperties
  <2>2. /\ Parts(r) \in Seq(Seq(Chars)) /\ Len(Parts(r)) = Len(r)
        /\ Len(Parts(r)[i]) >= 1 /\ Parts(r)[i] \in Seq(Chars)
    BY <2>1, PartsAre, LenProperties
  <2> DEFINE s == Parts(r)
             n == Len(r)
             part == Len(s[i])
  <2>3. /\ s \in Seq(Seq(Chars)) /\ Joins(Chars, s, h) /\ Len(s) = n
        /\ i \in 1 .. Len(s) /\ part = Len(s[i]) /\ part \in Nat /\ part >= 1
    BY <1>9, <2>1, <2>2, LenProperties
  <2> HIDE DEF s, n, part
  <2>4. /\ Len(h[i - 1]) \in Nat /\ Len(h[n]) \in Nat
        /\ Len(h[i]) = Len(h[i - 1]) + part /\ Len(h[i]) <= Len(h[n])
    BY <2>3, JoinsFound
  <2>5. Len(h[i - 1]) < Len(h[n])
    <3> DEFINE a == Len(h[i - 1])
               b == Len(h[i])
               c == Len(h[n])
    <3>1. a \in Nat /\ c \in Nat /\ b = a + part /\ b <= c
      BY <2>4
    <3> HIDE DEF a, b, c
    <3>2. a < c
      BY <2>3, <3>1
    <3> QED BY <3>2 DEF a, c
  <2> QED BY <2>4, <2>5 DEF n
<1>10. CASE i - 1 = Len(p) /\ i <= Len(q)
  <2>1. Len(g[i - 1]) \in Nat /\ Len(g[i - 1]) < Len(g[Len(q)])
    BY <1>4, <1>9, <1>10
  <2> QED BY <1>5, <1>7, <1>10, <2>1
<1>11. CASE i - 1 = Len(q) /\ i <= Len(p)
  <2>1. Len(f[i - 1]) \in Nat /\ Len(f[i - 1]) < Len(f[Len(p)])
    BY <1>3, <1>9, <1>11
  <2> QED BY <1>5, <1>7, <1>11, <2>1
<1> QED BY <1>2, <1>8, <1>10, <1>11 DEF Differ

(* AttrsDistinct: no two paths of a traversal have the same key in the map *)
(* of jobs, whatever is in the names of attributes.                        *)
THEOREM NamesAreDistinct == Spec => []AttrsDistinct
<1>1. IInv => AttrsDistinct
  <2> SUFFICES ASSUME IInv, NEW p \in DOMAIN answer, NEW q \in DOMAIN answer,
                      JoinAttrPath(p) = JoinAttrPath(q)
      PROVE  p = q
    BY DEF AttrsDistinct
  <2>1. p \in Seq(Name) /\ q \in Seq(Name)
    BY DEF IInv, PathInv, IsWay
  <2> QED BY <2>1, JoinIsInjective
<1> QED BY <1>1, Invariance, PTL

-----------------------------------------------------------------------------
(***************************************************************************)
(* Messages.  What a process has captured so far are messages of           *)
(* attributes that the walk has passed, and what an attribute has said     *)
(* since the process forgot its thunks is captured or on a line.           *)
(***************************************************************************)
Kinds == DOMAIN NoLogs
Messages == Slot \cup {Between, During}

SaysIn(e, slot, k) == slot \in DOMAIN e.says /\ e.says[slot] = k

SlotsIn(e, p) == [i \in 1 .. Len(p) |-> <<SetIn(e, Prefix(p, i - 1)), p[i]>>]

FlagIn(e, p) ==
  IF SetIn(e, p) \in AttrSet /\ RecurseFor \in DOMAIN e.attrs[SetIn(e, p)]
  THEN <<<<SetIn(e, p), RecurseFor>>>> ELSE <<>>

Own(messages) == {i \in DOMAIN messages : messages[i] # During}

IsMatch(e, f, messages, slots, k) ==
  /\ f \in [Own(messages) -> {j \in DOMAIN slots : SaysIn(e, slots[j], k)}]
  /\ \A i, j \in Own(messages) : i < j => f[i] < f[j]
  /\ \A i \in Own(messages) : messages[i] = slots[f[i]]

ReportsIn(e, messages, slots, k) == \E f : IsMatch(e, f, messages, slots, k)

(* What a step of the walk captures: nothing, or the message of its slot. *)
IsSaid(e, said, slot, k) ==
  \/ said = <<>>
  \/ said = <<slot>> /\ SaysIn(e, slot, k)

LEMMA NothingReported ==
  ASSUME NEW e, NEW slots, NEW k
  PROVE  ReportsIn(e, <<>>, slots, k)
<1> DEFINE f == [i \in {} |-> 0]
<1>1. DOMAIN <<>> = {}
  OBVIOUS
<1>2. Own(<<>>) = {}
  BY <1>1 DEF Own
<1>3. f \in [{} -> {j \in DOMAIN slots : SaysIn(e, slots[j], k)}]
  OBVIOUS
<1> HIDE DEF f
<1>4. IsMatch(e, f, <<>>, slots, k)
  BY <1>2, <1>3 DEF IsMatch
<1> QED BY <1>4 DEF ReportsIn

(* A slot more, with or without its message. *)
LEMMA ReportsMore ==
  ASSUME NEW e, NEW k \in Kinds, NEW s \in Seq(Messages), NEW t \in Seq(Slot),
         ReportsIn(e, s, t, k), NEW slot \in Slot, NEW said,
         IsSaid(e, said, slot, k)
  PROVE  /\ s \o said \in Seq(Messages)
         /\ ReportsIn(e, s \o said, Append(t, slot), k)
         /\ Range(s) \subseteq Range(s \o said)
         /\ said = <<slot>> => slot \in Range(s \o said)
<1> DEFINE u == Append(t, slot)
           m == Len(s)
           n == Len(t)
<1>1. /\ u \in Seq(Slot) /\ n \in Nat /\ Len(u) = n + 1 /\ u[n + 1] = slot
      /\ \A j \in 1 .. n : u[j] = t[j]
      /\ DOMAIN t = 1 .. n /\ DOMAIN u = 1 .. n + 1
  BY AppendProperties, LenProperties
<1>2. m \in Nat /\ DOMAIN s = 1 .. m
  BY LenProperties
<1> HIDE DEF u, m, n
<1>3. PICK f : IsMatch(e, f, s, t, k)
  BY DEF ReportsIn
<1>4. /\ f \in [Own(s) -> {j \in 1 .. n : SaysIn(e, t[j], k)}]
      /\ \A i, j \in Own(s) : i < j => f[i] < f[j]
      /\ \A i \in Own(s) : s[i] = t[f[i]]
  BY <1>1, <1>3 DEF IsMatch
<1>5. \A i \in Own(s) : /\ f[i] \in 1 .. n /\ f[i] \in 1 .. n + 1
                        /\ SaysIn(e, u[f[i]], k) /\ s[i] = u[f[i]]
  BY <1>1, <1>4
<1>6. CASE said = <<>>
  <2>1. s \o said = s
    BY <1>6, ConcatEmptySeq
  <2>2. f \in [Own(s) -> {j \in DOMAIN u : SaysIn(e, u[j], k)}]
    BY <1>1, <1>4, <1>5
  <2>3. IsMatch(e, f, s, u, k)
    BY <1>4, <1>5, <2>2 DEF IsMatch
  <2>4. said # <<slot>>
    BY <1>6
  <2> QED BY <2>1, <2>3, <2>4 DEF ReportsIn, u
<1>7. CASE said = <<slot>> /\ SaysIn(e, slot, k)
  <2> DEFINE r == s \o said
             g == [i \in Own(r) |-> IF i = m + 1 THEN n + 1 ELSE f[i]]
  <2>1. slot \in Messages
    BY DEF Messages
  <2>2. r = Append(s, slot)
    BY <1>7, <2>1, AppendIsConcat
  <2>3. /\ r \in Seq(Messages) /\ Len(r) = m + 1 /\ r[m + 1] = slot
        /\ \A i \in 1 .. m : r[i] = s[i]
    BY <2>1, <2>2, AppendProperties DEF m
  <2> HIDE DEF r
  <2>4. DOMAIN r = 1 .. m + 1
    BY <2>3, LenProperties
  <2>5. \A i \in Own(r) : i # m + 1 => i \in Own(s)
    BY <1>2, <2>3, <2>4 DEF Own
  <2>6. \A i \in Own(r) : g[i] \in DOMAIN u /\ SaysIn(e, u[g[i]], k)
    BY <1>1, <1>5, <1>7, <2>5
  <2>7. g \in [Own(r) -> {j \in DOMAIN u : SaysIn(e, u[j], k)}]
    BY <2>6
  <2>8. ASSUME NEW i \in Own(r), NEW j \in Own(r), i < j
        PROVE  g[i] < g[j]
    <3>1. i \in 1 .. m + 1 /\ j \in 1 .. m + 1
      BY <2>4 DEF Own
    <3>2. i # m + 1 /\ i \in Own(s)
      BY <1>2, <2>5, <2>8, <3>1
    <3>3. CASE j = m + 1
      <4>1. g[i] = f[i] /\ g[j] = n + 1
        BY <3>2, <3>3
      <4> HIDE DEF g
      <4> QED BY <1>1, <1>5, <3>2, <4>1
    <3>4. CASE j # m + 1
      <4>1. j \in Own(s)
        BY <2>5, <3>4
      <4> QED BY <1>4, <2>8, <3>2, <3>4, <4>1
    <3> QED BY <3>3, <3>4
  <2>9. ASSUME NEW i \in Own(r)
        PROVE  r[i] = u[g[i]]
    <3>1. CASE i = m + 1
      BY <1>1, <2>3, <3>1
    <3>2. CASE i # m + 1
      <4>1. i \in Own(s) /\ i \in 1 .. m
        BY <1>2, <2>5, <3>2 DEF Own
      <4> QED BY <1>5, <2>3, <3>2, <4>1
    <3> QED BY <3>1, <3>2
  <2> HIDE DEF g
  <2>10. IsMatch(e, g, r, u, k)
    BY <2>7, <2>8, <2>9 DEF IsMatch
  <2>11. Range(s) \subseteq Range(r) /\ slot \in Range(r)
    BY <1>2, <2>3, <2>4 DEF Range
  <2> QED BY <2>3, <2>10, <2>11 DEF ReportsIn, r, u
<1> QED BY <1>6, <1>7 DEF IsSaid

(* What other threads log while the walk goes on. *)
LEMMA ReportsNoise ==
  ASSUME NEW e, NEW k \in Kinds, NEW s \in Seq(Messages), NEW slots,
         ReportsIn(e, s, slots, k)
  PROVE  /\ Append(s, During) \in Seq(Messages)
         /\ ReportsIn(e, Append(s, During), slots, k)
         /\ Range(s) \subseteq Range(Append(s, During))
<1> DEFINE r == Append(s, During)
           m == Len(s)
<1>1. During \in Messages
  BY DEF Messages
<1>2. /\ r \in Seq(Messages) /\ m \in Nat /\ Len(r) = m + 1 /\ r[m + 1] = During
      /\ \A i \in 1 .. m : r[i] = s[i]
      /\ DOMAIN s = 1 .. m /\ DOMAIN r = 1 .. m + 1
  BY <1>1, AppendProperties, LenProperties
<1> HIDE DEF r, m
<1>3. Own(r) = Own(s)
  BY <1>2 DEF Own
<1>4. \A i \in Own(s) : r[i] = s[i]
  BY <1>2 DEF Own
<1>5. PICK f : IsMatch(e, f, s, slots, k)
  BY DEF ReportsIn
<1>6. IsMatch(e, f, r, slots, k)
  BY <1>3, <1>4, <1>5 DEF IsMatch
<1>7. Range(s) \subseteq Range(r)
  BY <1>2 DEF Range
<1> QED BY <1>2, <1>6, <1>7 DEF ReportsIn, r

LEMMA SeqOfOne ==
  /\ SetToSeq({}) = <<>>
  /\ \A x : SetToSeq({x}) = <<x>>
<1>1. SetToSeq({}) = <<>>
  <2>1. Cardinality({}) = 0
    BY FS_EmptySet
  <2>2. 1 .. 0 = {}
    OBVIOUS
  <2>3. \A f \in [1 .. 0 -> {}] : f = <<>>
    BY <2>2
  <2>4. <<>> \in [1 .. 0 -> {}] /\ IsInjective(<<>>)
    BY <2>2 DEF IsInjective
  <2> QED BY <2>1, <2>3, <2>4 DEF SetToSeq
<1>2. ASSUME NEW x PROVE SetToSeq({x}) = <<x>>
  <2>1. Cardinality({x}) = 1
    BY FS_Singleton
  <2>2. 1 .. 1 = {1}
    OBVIOUS
  <2>3. \A f \in [1 .. 1 -> {x}] : f = <<x>>
    BY <2>2
  <2>4. <<x>> \in [1 .. 1 -> {x}] /\ IsInjective(<<x>>)
    BY <2>2 DEF IsInjective
  <2> QED BY <2>1, <2>3, <2>4 DEF SetToSeq
<1> QED BY <1>1, <1>2

(* The attributes on a way are slots, and a step of the walk adds one.     *)
LEMMA SlotsOfWay ==
  ASSUME NEW e \in Expression, NEW p, IsWay(e, p), NEW i \in 0 .. Len(p)
  PROVE  /\ SlotsIn(e, Prefix(p, i)) \in Seq(Slot)
         /\ i = 0 => SlotsIn(e, Prefix(p, i)) = <<>>
         /\ i < Len(p) =>
              /\ <<SetIn(e, Prefix(p, i)), p[i + 1]>> \in Slot
              /\ SlotsIn(e, Prefix(p, i + 1)) =
                   Append(SlotsIn(e, Prefix(p, i)),
                          <<SetIn(e, Prefix(p, i)), p[i + 1]>>)
<1>1. p \in Seq(Name) /\ Len(p) \in Nat
  BY LenProperties DEF IsWay
<1> DEFINE S(j) == <<SetIn(e, Prefix(p, j - 1)), p[j]>>
<1>2. ASSUME NEW j \in 0 .. Len(p)
      PROVE  SlotsIn(e, Prefix(p, j)) = [k \in 1 .. j |-> S(k)]
  <2>1. Len(Prefix(p, j)) = j /\ \A k \in 1 .. j : Prefix(p, j)[k] = p[k]
    BY <1>1, PrefixIs
  <2>2. ASSUME NEW k \in 1 .. j
        PROVE  Prefix(Prefix(p, j), k - 1) = Prefix(p, k - 1)
    <3> DEFINE m == k - 1
    <3>1. m \in 0 .. j
      OBVIOUS
    <3> HIDE DEF m, Prefix
    <3>2. Prefix(Prefix(p, j), m) = Prefix(p, m)
      BY <1>1, <3>1, PrefixOfPrefix
    <3> QED BY <3>2 DEF m
  <2> HIDE DEF Prefix
  <2> QED BY <2>1, <2>2 DEF SlotsIn
<1>3. \A j \in 1 .. Len(p) : S(j) \in Slot
  <2> TAKE j \in 1 .. Len(p)
  <2> DEFINE m == j - 1
  <2>1. m \in 0 .. Len(p) /\ m < Len(p) /\ p[j] \in Name
    BY <1>1, LenProperties
  <2> HIDE DEF m, Prefix
  <2>2. SetIn(e, Prefix(p, m)) \in AttrSet
    BY <2>1, WayValue
  <2> QED BY <2>1, <2>2 DEF Slot, m
<1> HIDE DEF S
<1>4. SlotsIn(e, Prefix(p, i)) = [k \in 1 .. i |-> S(k)]
  BY <1>2
<1>5. SlotsIn(e, Prefix(p, i)) \in Seq(Slot)
  BY <1>1, <1>3, <1>4
<1>6. ASSUME i < Len(p)
      PROVE  /\ S(i + 1) \in Slot
             /\ SlotsIn(e, Prefix(p, i + 1)) =
                  Append(SlotsIn(e, Prefix(p, i)), S(i + 1))
  <2>1. i + 1 \in 0 .. Len(p) /\ i + 1 \in 1 .. Len(p)
    BY <1>1, <1>6
  <2>2. SlotsIn(e, Prefix(p, i + 1)) = [k \in 1 .. i + 1 |-> S(k)]
    BY <1>2, <2>1
  <2>3. [k \in 1 .. i + 1 |-> S(k)] = Append([k \in 1 .. i |-> S(k)], S(i + 1))
    OBVIOUS
  <2> QED BY <1>3, <1>4, <2>1, <2>2, <2>3
<1>7. S(i + 1) = <<SetIn(e, Prefix(p, i)), p[i + 1]>>
  <2>1. (i + 1) - 1 = i
    BY <1>1
  <2> QED BY <2>1 DEF S
<1>8. i = 0 => SlotsIn(e, Prefix(p, i)) = <<>>
  BY <1>4
<1> QED BY <1>5, <1>6, <1>7, <1>8

(* A line has the messages that were captured, whatever else is in it.     *)
LEMMA LogsInLine ==
  ASSUME NEW r, IsResponse(r), NEW k \in Kinds
  PROVE  LogsOf(ToJson(r), k) = r.logs[k]
<1> DEFINE line == ToJson(r)
           rest == PayloadJson(r.payload)
           said == {x \in DOMAIN NoLogs : r.logs[x] # <<>>}
<1>1. /\ DOMAIN line = {"attrPath"} \cup said \cup DOMAIN rest
      /\ \A x \in said : line[x] = r.logs[x]
      /\ k \in {"warnings", "traces"} /\ k \in DOMAIN NoLogs
  BY LineKeys DEF Kinds
<1>2. k \notin DOMAIN rest
  <2> DEFINE drv == DrvToJson(r.payload.drv)
  <2>1. IsPayload(r.payload)
    BY DEF IsResponse
  <2>2. /\ r.payload.type = "attrs" => DOMAIN rest = {"attrs"}
        /\ r.payload.type = "error" => DOMAIN rest = {"error", "fatal"}
        /\ r.payload.type = "job" =>
             /\ DOMAIN drv \subseteq DrvFields
             /\ DOMAIN rest \subseteq DOMAIN drv \cup {"extraValue"}
    BY <2>1, PayloadKeys
  <2>3. r.payload.type \in {"attrs", "error", "job"}
    BY <2>1 DEF IsPayload
  <2> HIDE DEF drv, rest
  <2> QED BY <1>1, <2>2, <2>3 DEF DrvFields
<1> HIDE DEF line, rest
<1>3. CASE r.logs[k] = <<>>
  <2>1. k \notin DOMAIN line
    BY <1>1, <1>2, <1>3
  <2> QED BY <1>3, <2>1 DEF LogsOf, GetOr, line
<1>4. CASE r.logs[k] # <<>>
  BY <1>1, <1>4 DEF LogsOf, GetOr, line
<1> QED BY <1>3, <1>4

(***************************************************************************)
(* The third inductive invariant.                                          *)
(***************************************************************************)
Heard(slot, k) ==
  \E p \in DOMAIN lines : slot \in Range(LogsOf(lines[p], k))

Known(slot, k) == (busy /\ slot \in Range(logs[k])) \/ Heard(slot, k)

LogInv ==
  /\ \A k \in Kinds : logs[k] \in Seq(Messages)
  /\ busy =>
       /\ ~Aborted
       /\ \A k \in Kinds :
            /\ ReportsIn(expr, logs[k], SlotsIn(expr, Prefix(path, depth)), k)
            /\ \A slot \in Range(SlotsIn(expr, Prefix(path, depth))) :
                 SaysIn(expr, slot, k) => Known(slot, k)

ForcedInv ==
  ~Aborted => \A slot \in forced : \A k \in Kinds :
                SaysIn(expr, slot, k) => Known(slot, k)

ToldInv ==
  \A p \in DOMAIN lines : \A k \in Kinds :
    /\ ReportsIn(expr, LogsOf(lines[p], k),
                 SlotsIn(expr, p) \o FlagIn(expr, p), k)
    /\ IsGivenUp(p) \/ \A slot \in Range(SlotsIn(expr, p)) :
                         SaysIn(expr, slot, k) => Heard(slot, k)

TalkInv == LogInv /\ ForcedInv /\ ToldInv

LEMMA CapturedIs ==
  ASSUME IsLogs(logs), LogInv, NEW k \in Kinds
  PROVE  /\ Captured({})[k] = logs[k]
         /\ \A slot : Captured({slot})[k] =
              IF expr.says[slot] = k THEN logs[k] \o <<slot>> ELSE logs[k]
<1>1. k \in DOMAIN logs /\ logs[k] \in Seq(Messages)
  BY DEF IsLogs, Kinds, LogInv
<1>2. logs[k] \o <<>> = logs[k]
  BY <1>1, ConcatEmptySeq
<1>3. \A m : Captured(m)[k] = logs[k] \o SetToSeq({s \in m : expr.says[s] = k})
  BY <1>1 DEF Captured
<1>4. {s \in {} : expr.says[s] = k} = {}
  OBVIOUS
<1>5. ASSUME NEW slot
      PROVE  {s \in {slot} : expr.says[s] = k} =
               IF expr.says[slot] = k THEN {slot} ELSE {}
  OBVIOUS
<1> QED BY <1>2, <1>3, <1>4, <1>5, SeqOfOne

(* A thunk that is forced says what it has to say, or has said it.         *)
LEMMA MessageCaptured ==
  ASSUME IInv, LogInv, ForcedInv, ~Aborted, NEW set, NEW name,
         NEW slot \in Slot, slot = <<set.of, name>>,
         NEW t \in Seq(Slot), NEW k \in Kinds, ReportsIn(expr, logs[k], t, k),
         NEW c, c = Captured(Message(set, name))
  PROVE  /\ c[k] \in Seq(Messages) /\ Range(logs[k]) \subseteq Range(c[k])
         /\ ReportsIn(expr, c[k], Append(t, slot), k)
         /\ SaysIn(expr, slot, k) => slot \in Range(c[k]) \/ Known(slot, k)
<1>1. IsLogs(logs) /\ logs[k] \in Seq(Messages)
  BY DEF IInv, ProcessInv, LogInv
<1>2. Message(set, name) =
        IF slot \in DOMAIN expr.says /\ (set.call # 0 \/ slot \notin forced)
        THEN {slot} ELSE {}
  BY DEF Message
<1> DEFINE speaks == /\ SaysIn(expr, slot, k)
                     /\ set.call # 0 \/ slot \notin forced
           said == IF speaks THEN <<slot>> ELSE <<>>
<1>3. c[k] = logs[k] \o said
  <2>1. logs[k] \o <<>> = logs[k]
    BY <1>1, ConcatEmptySeq
  <2>2. CASE Message(set, name) = {slot}
    <3>1. c[k] = IF expr.says[slot] = k THEN logs[k] \o <<slot>> ELSE logs[k]
      BY <1>1, <2>2, CapturedIs
    <3>2. speaks <=> expr.says[slot] = k
      BY <1>2, <2>2 DEF SaysIn
    <3> QED BY <2>1, <3>1, <3>2
  <2>3. CASE Message(set, name) = {}
    <3>1. c[k] = logs[k]
      BY <1>1, <2>3, CapturedIs
    <3>2. ~speaks
      BY <1>2, <2>3 DEF SaysIn
    <3> QED BY <2>1, <3>1, <3>2
  <2> QED BY <1>2, <2>2, <2>3
<1>4. IsSaid(expr, said, slot, k)
  BY DEF IsSaid
<1>5. SaysIn(expr, slot, k) => said = <<slot>> \/ Known(slot, k)
  BY DEF ForcedInv
<1> HIDE DEF said
<1>6. /\ logs[k] \o said \in Seq(Messages)
      /\ ReportsIn(expr, logs[k] \o said, Append(t, slot), k)
      /\ Range(logs[k]) \subseteq Range(logs[k] \o said)
      /\ said = <<slot>> => slot \in Range(logs[k] \o said)
  BY <1>1, <1>4, ReportsMore
<1> QED BY <1>3, <1>5, <1>6

(* Where a path ends there may be a flag, asked for or not.                *)
LEMMA FlagIs ==
  ASSUME NEW e \in Expression, NEW p, IsWay(e, p)
  PROVE  /\ SlotsIn(e, p) \in Seq(Slot)
         /\ FlagIn(e, p) = <<>> => SlotsIn(e, p) \o FlagIn(e, p) = SlotsIn(e, p)
         /\ FlagIn(e, p) # <<>> =>
              /\ <<SetIn(e, p), RecurseFor>> \in Slot
              /\ SlotsIn(e, p) \o FlagIn(e, p) =
                   Append(SlotsIn(e, p), <<SetIn(e, p), RecurseFor>>)
<1>1. p \in Seq(Name) /\ Len(p) \in Nat /\ Len(p) \in 0 .. Len(p)
  BY LenProperties DEF IsWay
<1>2. SlotsIn(e, p) \in Seq(Slot)
  <2>1. Prefix(p, Len(p)) = p
    BY <1>1, PrefixEnds
  <2>2. SlotsIn(e, Prefix(p, Len(p))) \in Seq(Slot)
    BY <1>1, SlotsOfWay
  <2> QED BY <2>1, <2>2
<1>3. CASE FlagIn(e, p) = <<>>
  BY <1>2, <1>3, ConcatEmptySeq
<1>4. CASE FlagIn(e, p) # <<>>
  <2> DEFINE slot == <<SetIn(e, p), RecurseFor>>
  <2>1. SetIn(e, p) \in AttrSet /\ FlagIn(e, p) = <<slot>>
    BY <1>4 DEF FlagIn
  <2>2. slot \in Slot
    BY <2>1, ExpressionAssumption DEF Slot, ExpressionAssumption
  <2> HIDE DEF slot
  <2>3. SlotsIn(e, p) \o <<slot>> = Append(SlotsIn(e, p), slot)
    BY <1>2, <2>2, AppendIsConcat
  <2> QED BY <1>2, <1>4, <2>1, <2>2, <2>3 DEF slot
<1> QED BY <1>3, <1>4

LEMMA ReportsAtEnd ==
  ASSUME NEW e \in Expression, NEW p, IsWay(e, p), NEW k \in Kinds,
         NEW s \in Seq(Messages), ReportsIn(e, s, SlotsIn(e, p), k)
  PROVE  ReportsIn(e, s, SlotsIn(e, p) \o FlagIn(e, p), k)
<1> DEFINE slot == <<SetIn(e, p), RecurseFor>>
           t == SlotsIn(e, p)
<1>1. CASE FlagIn(e, p) = <<>>
  BY <1>1, FlagIs
<1>2. CASE FlagIn(e, p) # <<>>
  <2>1. /\ slot \in Slot /\ t \in Seq(Slot)
        /\ t \o FlagIn(e, p) = Append(t, slot)
    BY <1>2, FlagIs
  <2>2. ReportsIn(e, s, t, k)
    OBVIOUS
  <2> HIDE DEF slot, t
  <2>3. IsSaid(e, <<>>, slot, k) /\ s \o <<>> = s
    BY ConcatEmptySeq DEF IsSaid
  <2>4. ReportsIn(e, s \o <<>>, Append(t, slot), k)
    BY <2>1, <2>2, <2>3, ReportsMore
  <2> QED BY <2>1, <2>3, <2>4 DEF t
<1> QED BY <1>1, <1>2

(* Lines stay, and with them what was heard. *)
LEMMA HeardStays ==
  ASSUME DOMAIN lines \subseteq DOMAIN lines',
         \A p \in DOMAIN lines : lines'[p] = lines[p]
  PROVE  \A slot, k : Heard(slot, k) => Heard(slot, k)'
BY DEF Heard

LEMMA ToldStays ==
  ASSUME ToldInv, expr' = expr, DOMAIN lines \subseteq DOMAIN lines',
         \A p \in DOMAIN lines : /\ lines'[p] = lines[p]
                                 /\ IsGivenUp(p) => IsGivenUp(p)',
         \A p \in DOMAIN lines' \ DOMAIN lines : \A k \in Kinds :
           /\ ReportsIn(expr, LogsOf(lines'[p], k),
                        SlotsIn(expr, p) \o FlagIn(expr, p), k)
           /\ IsGivenUp(p)' \/ \A slot \in Range(SlotsIn(expr, p)) :
                                 SaysIn(expr, slot, k) => Heard(slot, k)'
  PROVE  ToldInv'
<1>1. \A slot, k : Heard(slot, k) => Heard(slot, k)'
  BY HeardStays
<1>2. ASSUME NEW p \in DOMAIN lines', NEW k \in Kinds
      PROVE  /\ ReportsIn(expr', LogsOf(lines'[p], k),
                          SlotsIn(expr', p) \o FlagIn(expr', p), k)
             /\ IsGivenUp(p)' \/ \A slot \in Range(SlotsIn(expr', p)) :
                                   SaysIn(expr', slot, k) => Heard(slot, k)'
  <2>1. CASE p \in DOMAIN lines
    <3>1. /\ ReportsIn(expr, LogsOf(lines[p], k),
                       SlotsIn(expr, p) \o FlagIn(expr, p), k)
          /\ IsGivenUp(p) \/ \A slot \in Range(SlotsIn(expr, p)) :
                               SaysIn(expr, slot, k) => Heard(slot, k)
      BY <2>1 DEF ToldInv
    <3> QED BY <1>1, <2>1, <3>1
  <2>2. CASE p \notin DOMAIN lines
    BY <1>2, <2>2
  <2> QED BY <2>1, <2>2
<1> QED BY <1>2 DEF ToldInv, Kinds

LEMMA TalkStays ==
  ASSUME TalkInv, UNCHANGED <<expr, answer, path, busy, depth, logs, forced,
                              lines, retried>>
  PROVE  TalkInv'
<1>1. \A slot, k : Known(slot, k)' <=> Known(slot, k)
  BY DEF Known, Heard
<1>2. Aborted' = Aborted
  BY DEF Aborted
<1>3. LogInv'
  BY <1>1, <1>2 DEF TalkInv, LogInv, Kinds
<1>4. ForcedInv'
  BY <1>1, <1>2 DEF TalkInv, ForcedInv, Kinds
<1>5. ToldInv'
  BY DEF TalkInv, ToldInv, Heard, IsGivenUp, Kinds
<1> QED BY <1>3, <1>4, <1>5 DEF TalkInv

LEMMA NothingLogged ==
  \A k \in Kinds : NoLogs[k] = <<>> /\ NoLogs[k] \in Seq(Messages)
<1>1. \A k \in Kinds : NoLogs[k] = <<>>
  BY DEF Kinds, NoLogs
<1> QED BY <1>1, EmptySeq

(* Between two jobs there is nothing in hand. *)
LEMMA TalkBetween ==
  ASSUME TalkInv, ~busy', UNCHANGED <<expr, answer, lines>>,
         \A k \in Kinds : logs'[k] \in Seq(Messages),
         forced' = {} \/ (~busy /\ forced' = forced),
         retried \subseteq retried'
  PROVE  TalkInv'
<1>1. LogInv'
  BY DEF LogInv, Kinds
<1>2. Aborted' = Aborted /\ \A slot, k : Heard(slot, k)' <=> Heard(slot, k)
  BY DEF Aborted, Heard
<1>3. ForcedInv'
  BY <1>2 DEF TalkInv, ForcedInv, Known, Kinds
<1>4. ToldInv'
  <2>1. ToldInv /\ \A p \in DOMAIN lines : IsGivenUp(p) => IsGivenUp(p)'
    BY DEF TalkInv, IsGivenUp
  <2> QED BY <2>1, ToldStays
<1> QED BY <1>1, <1>3, <1>4 DEF TalkInv

LEMMA TalkRead ==
  ASSUME IInv, TalkInv, ReadCommand
  PROVE  TalkInv'
<1>1. /\ ~busy /\ ~Aborted /\ busy' = TRUE /\ depth' = 0 /\ logs' = NoLogs
      /\ path' \in todo /\ UNCHANGED <<expr, answer, forced, lines, retried>>
  BY DEF ReadCommand, TakeJob, LogsBeforeJob, Takeable
<1>2. Aborted' = Aborted /\ \A slot, k : Heard(slot, k)' <=> Heard(slot, k)
  BY <1>1 DEF Aborted, Heard
<1>3. Prefix(path', 0) = <<>> /\ SlotsIn(expr, <<>>) = <<>>
  <2>1. path' \in Seq(Name)
    BY <1>1 DEF IInv, PathInv, IsWay
  <2>2. Prefix(path', 0) = <<>>
    BY <2>1, PrefixEnds
  <2>3. SlotsIn(expr, <<>>) = <<>>
    BY DEF SlotsIn
  <2> QED BY <2>2, <2>3
<1>4. LogInv'
  <2>1. \A k \in Kinds : ReportsIn(expr, <<>>, <<>>, k)
    BY NothingReported
  <2>2. Range(<<>>) = {}
    BY DEF Range
  <2>3. SlotsIn(expr', Prefix(path', depth')) = <<>>
    BY <1>1, <1>3
  <2>4. \A k \in Kinds :
          /\ ReportsIn(expr', logs'[k], SlotsIn(expr', Prefix(path', depth')), k)
          /\ \A slot \in Range(SlotsIn(expr', Prefix(path', depth'))) :
               SaysIn(expr', slot, k) => Known(slot, k)'
    BY <1>1, <2>1, <2>2, <2>3, NothingLogged
  <2> QED BY <1>1, <1>2, <2>4, NothingLogged DEF LogInv, Kinds
<1>5. ForcedInv'
  BY <1>1, <1>2 DEF TalkInv, ForcedInv, Known, Kinds
<1>6. ToldInv'
  <2>1. ToldInv /\ \A p \in DOMAIN lines : IsGivenUp(p) => IsGivenUp(p)'
    BY <1>1 DEF TalkInv, IsGivenUp
  <2> QED BY <1>1, <2>1, ToldStays
<1> QED BY <1>4, <1>5, <1>6 DEF TalkInv

LEMMA TalkSelect ==
  ASSUME IInv, TalkInv, Select
  PROVE  TalkInv'
<1> DEFINE name == path[depth + 1]
           slot == <<value.of, name>>
           t == SlotsIn(expr, Prefix(path, depth))
           c == Captured(Message(value, name))
<1>1. /\ busy /\ depth < Len(path) /\ depth' = depth + 1
      /\ logs' = c /\ forced' \subseteq forced \cup {slot}
      /\ UNCHANGED <<expr, answer, path, busy, lines, retried>>
  BY DEF Select, SelectAttr, ForceAttr, ForcedWith
<1>2. ~Aborted /\ LogInv /\ ForcedInv /\ ToldInv
  BY <1>1 DEF TalkInv, LogInv
<1>3. /\ expr \in Expression /\ IsWay(expr, path) /\ depth \in Nat
      /\ depth \in 0 .. Len(path) /\ value.of = SetIn(expr, Prefix(path, depth))
  BY Arrived DEF IInv, WalkInv
<1>4. /\ t \in Seq(Slot) /\ slot \in Slot
      /\ SlotsIn(expr, Prefix(path, depth + 1)) = Append(t, slot)
  BY <1>1, <1>3, SlotsOfWay
<1>5. /\ Range(Append(t, slot)) = Range(t) \cup {slot}
  BY <1>4, ListAppend
<1>6. slot = <<value.of, name>>
  OBVIOUS
<1>7. \A k \in Kinds : /\ ReportsIn(expr, logs[k], t, k)
                       /\ \A x \in Range(t) : SaysIn(expr, x, k) => Known(x, k)
  BY <1>1, <1>2 DEF LogInv
<1> HIDE DEF slot, name, t, c
<1>8. ASSUME NEW k \in Kinds
      PROVE  /\ c[k] \in Seq(Messages) /\ Range(logs[k]) \subseteq Range(c[k])
             /\ ReportsIn(expr, c[k], Append(t, slot), k)
             /\ SaysIn(expr, slot, k) => slot \in Range(c[k]) \/ Known(slot, k)
  <2>1. c = Captured(Message(value, name))
    BY DEF c
  <2> QED BY <1>2, <1>4, <1>6, <1>7, <2>1, MessageCaptured
<1>9. Aborted' = Aborted
  BY <1>1 DEF Aborted
<1>10. \A k \in Kinds : \A x :
         /\ Known(x, k) => Known(x, k)'
         /\ x \in Range(c[k]) => Known(x, k)'
  BY <1>1, <1>8 DEF Known, Heard
<1>11. LogInv'
  <2>1. SlotsIn(expr', Prefix(path', depth')) = Append(t, slot)
    BY <1>1, <1>4
  <2>2. \A k \in Kinds :
          /\ ReportsIn(expr', logs'[k], SlotsIn(expr', Prefix(path', depth')), k)
          /\ \A x \in Range(SlotsIn(expr', Prefix(path', depth'))) :
               SaysIn(expr', x, k) => Known(x, k)'
    BY <1>1, <1>5, <1>7, <1>8, <1>10, <2>1
  <2> QED BY <1>1, <1>2, <1>8, <1>9, <2>2 DEF LogInv, Kinds
<1>12. ForcedInv'
  <2>1. \A x \in forced' : \A k \in Kinds : SaysIn(expr', x, k) => Known(x, k)'
    BY <1>1, <1>2, <1>8, <1>10 DEF ForcedInv
  <2> QED BY <2>1 DEF ForcedInv, Kinds
<1>13. ToldInv'
  <2>1. \A p \in DOMAIN lines : IsGivenUp(p) => IsGivenUp(p)'
    BY <1>1 DEF IsGivenUp
  <2> QED BY <1>1, <1>2, <2>1, ToldStays
<1> QED BY <1>11, <1>12, <1>13 DEF TalkInv

(* A line is written: what was captured is on it. *)
LEMMA TalkWritten ==
  ASSUME IInv, TalkInv, busy, depth = Len(path),
         NEW type, NEW names, Answer(type, names),
         NEW r, IsResponse(r),
         lines' = [p \in DOMAIN lines \cup {path} |->
                     IF p = path THEN ToJson(r) ELSE lines[p]],
         logs' = NoLogs, retried' = retried,
         \A k \in Kinds :
           /\ ReportsIn(expr, r.logs[k],
                        SlotsIn(expr, path) \o FlagIn(expr, path), k)
           /\ Range(logs[k]) \subseteq Range(r.logs[k])
           /\ \A slot \in forced' : SaysIn(expr, slot, k) =>
                \/ slot \in forced \/ Known(slot, k)
                \/ slot \in Range(r.logs[k])
  PROVE  TalkInv'
<1>1. /\ answer' = [p \in DOMAIN answer \cup {path} |->
                      IF p = path THEN [type |-> type, attrs |-> names]
                                  ELSE answer[p]]
      /\ busy' = FALSE /\ expr' = expr
  BY DEF Answer
<1>2. path \notin DOMAIN lines /\ DOMAIN lines \subseteq DOMAIN answer
  BY DEF IInv, PathInv, InHand, LineInv
<1>3. /\ DOMAIN lines' = DOMAIN lines \cup {path} /\ lines'[path] = ToJson(r)
      /\ \A p \in DOMAIN lines : lines'[p] = lines[p]
      /\ \A p \in DOMAIN lines : answer'[p] = answer[p]
  BY <1>1, <1>2
<1>4. \A k \in Kinds : LogsOf(lines'[path], k) = r.logs[k]
  BY <1>3, LogsInLine
<1>5. \A slot : \A k \in Kinds : Known(slot, k) => Heard(slot, k)'
  <2>1. \A slot, k : Heard(slot, k) => Heard(slot, k)'
    BY <1>3, HeardStays
  <2>2. \A slot : \A k \in Kinds : slot \in Range(r.logs[k]) => Heard(slot, k)'
    BY <1>3, <1>4 DEF Heard
  <2> QED BY <2>1, <2>2 DEF Known
<1>6. \A slot : \A k \in Kinds : slot \in Range(r.logs[k]) => Heard(slot, k)'
  BY <1>3, <1>4 DEF Heard
<1>7. Prefix(path, depth) = path
  <2>1. path \in Seq(Name)
    BY Arrived DEF IInv
  <2> QED BY <2>1, PrefixEnds
<1>8. /\ ~Aborted
      /\ \A k \in Kinds : \A slot \in Range(SlotsIn(expr, path)) :
           SaysIn(expr, slot, k) => Known(slot, k)
  BY <1>7 DEF TalkInv, LogInv
<1>9. LogInv'
  BY <1>1, NothingLogged DEF LogInv, Kinds
<1>10. ForcedInv'
  <2>1. \A slot \in forced : \A k \in Kinds :
          SaysIn(expr, slot, k) => Known(slot, k)
    BY <1>8 DEF TalkInv, ForcedInv
  <2>2. \A slot \in forced' : \A k \in Kinds :
          SaysIn(expr', slot, k) => Known(slot, k)'
    BY <1>1, <1>5, <1>6, <2>1 DEF Known
  <2> QED BY <2>2 DEF ForcedInv, Kinds
<1>11. ToldInv'
  <2>1. \A p \in DOMAIN lines : IsGivenUp(p) => IsGivenUp(p)'
    BY <1>3 DEF IsGivenUp
  <2>2. \A p \in DOMAIN lines' \ DOMAIN lines : p = path
    BY <1>3
  <2>3. \A k \in Kinds :
          /\ ReportsIn(expr, LogsOf(lines'[path], k),
                       SlotsIn(expr, path) \o FlagIn(expr, path), k)
          /\ \A slot \in Range(SlotsIn(expr, path)) :
               SaysIn(expr, slot, k) => Heard(slot, k)'
    BY <1>4, <1>5, <1>8
  <2> QED BY <1>1, <1>3, <2>1, <2>2, <2>3, ToldStays DEF TalkInv
<1> QED BY <1>9, <1>10, <1>11 DEF TalkInv

(* At the end of the walk nothing was captured but what the path said.     *)
LEMMA AtEnd ==
  ASSUME IInv, TalkInv, busy, depth = Len(path), NEW k \in Kinds
  PROVE  /\ ~Aborted /\ expr \in Expression /\ IsWay(expr, path)
         /\ value.of = SetIn(expr, path)
         /\ logs[k] \in Seq(Messages)
         /\ ReportsIn(expr, logs[k], SlotsIn(expr, path), k)
         /\ ReportsIn(expr, logs[k], SlotsIn(expr, path) \o FlagIn(expr, path), k)
<1>1. /\ expr \in Expression /\ IsWay(expr, path) /\ path \in Seq(Name)
      /\ value.of = SetIn(expr, Prefix(path, depth))
  BY Arrived DEF IInv
<1>2. Prefix(path, depth) = path
  BY <1>1, PrefixEnds
<1>3. /\ logs[k] \in Seq(Messages) /\ ~Aborted
      /\ ReportsIn(expr, logs[k], SlotsIn(expr, path), k)
  BY <1>2 DEF TalkInv, LogInv
<1> QED BY <1>1, <1>2, <1>3, ReportsAtEnd

LEMMA TalkError ==
  ASSUME IInv, TalkInv, busy, depth = Len(path), RespondError
  PROVE  TalkInv'
<1> DEFINE r == [attrPath |-> path, logs |-> logs,
                 payload |-> ErrorPayload(FALSE)]
<1>1. /\ Answer("error", {}) /\ logs' = NoLogs
      /\ lines' = [p \in DOMAIN lines \cup {path} |->
                     IF p = path THEN ToJson(r) ELSE lines[p]]
      /\ UNCHANGED <<forced, retried>>
  BY DEF RespondError, WriteLine, Report, LogsOfError, LogsAfterResponse
<1>2. IsResponse(r)
  BY DEF IInv, IsResponse, ProcessInv, IsPayload, ErrorPayload
<1>3. r.logs = logs
  OBVIOUS
<1> HIDE DEF r
<1>4. \A k \in Kinds :
        ReportsIn(expr, r.logs[k], SlotsIn(expr, path) \o FlagIn(expr, path), k)
  BY <1>3, AtEnd
<1>5. \A k \in Kinds :
        /\ Range(logs[k]) \subseteq Range(r.logs[k])
        /\ \A slot \in forced' : SaysIn(expr, slot, k) =>
             \/ slot \in forced \/ Known(slot, k) \/ slot \in Range(r.logs[k])
  BY <1>1, <1>3
<1> QED BY <1>1, <1>2, <1>4, <1>5, TalkWritten

LEMMA TalkJob ==
  ASSUME IInv, TalkInv, RespondJob
  PROVE  TalkInv'
<1> DEFINE r == [attrPath |-> path, logs |-> logs,
                 payload |-> [type |-> "job", drv |-> job.drv,
                              extraValue |-> job.extraValue]]
<1>1. /\ busy /\ stage = "respond" /\ logs' = NoLogs
      /\ \E type : Answer(type, {})
      /\ lines' = [p \in DOMAIN lines \cup {path} |->
                     IF p = path THEN ToJson(r) ELSE lines[p]]
      /\ UNCHANGED <<forced, retried>>
  BY DEF RespondJob, At, WriteLine, Report, LogsAfterResponse
<1>2. depth = Len(path) /\ IsDrv(job.drv) /\ IsOptional(job.extraValue)
  BY <1>1 DEF IInv, JobInv
<1>3. IsResponse(r)
  <2>1. IsPayload(r.payload)
    BY <1>2 DEF IsPayload
  <2>2. IsLogs(r.logs)
    BY DEF IInv, ProcessInv
  <2> HIDE DEF IsPayload
  <2> QED BY <2>1, <2>2 DEF IsResponse
<1>4. r.logs = logs
  OBVIOUS
<1> HIDE DEF r
<1>5. \A k \in Kinds :
        ReportsIn(expr, r.logs[k], SlotsIn(expr, path) \o FlagIn(expr, path), k)
  BY <1>1, <1>2, <1>4, AtEnd
<1>6. \A k \in Kinds :
        /\ Range(logs[k]) \subseteq Range(r.logs[k])
        /\ \A slot \in forced' : SaysIn(expr, slot, k) =>
             \/ slot \in forced \/ Known(slot, k) \/ slot \in Range(r.logs[k])
  BY <1>1, <1>4
<1> QED BY <1>1, <1>2, <1>3, <1>5, <1>6, TalkWritten

LEMMA TalkWalk ==
  ASSUME IInv, TalkInv, RespondWalk
  PROVE  TalkInv'
<1> DEFINE said == IF ForcesFlag THEN Message(value, RecurseFor) ELSE {}
           c == Captured(said)
           slot == <<value.of, RecurseFor>>
<1>1. /\ Evaluates
      /\ WriteLine(WalkPayload(answer'[path]), c)
      /\ forced' = IF ForcesFlag THEN ForcedWith(value, RecurseFor) ELSE forced
      /\ UNCHANGED <<job, storeReads, gcRoots, retried>>
  BY DEF RespondWalk, Evaluates
<1>2. busy /\ depth = Len(path)
  BY <1>1, EvaluatesIs DEF Selected, IInv
<1>3. PICK type \in {"attrs", "error", "fatal"}, names \in SUBSET Name :
        Answer(type, names)
  BY <1>1, EvaluatesIs DEF IInv
<1>4. IsLogs(logs) /\ IsLogs(c)
  BY CapturedAreLogs DEF ProcessInv, IInv
<1>5. LogInv /\ ForcedInv
  BY DEF TalkInv
<1>6. ASSUME NEW k \in Kinds
      PROVE  /\ ReportsIn(expr, c[k],
                          SlotsIn(expr, path) \o FlagIn(expr, path), k)
             /\ Range(logs[k]) \subseteq Range(c[k])
             /\ ForcesFlag /\ SaysIn(expr, slot, k) =>
                  slot \in Range(c[k]) \/ Known(slot, k)
  <2>1. /\ ~Aborted /\ expr \in Expression /\ IsWay(expr, path)
        /\ value.of = SetIn(expr, path)
        /\ ReportsIn(expr, logs[k], SlotsIn(expr, path), k)
        /\ ReportsIn(expr, logs[k], SlotsIn(expr, path) \o FlagIn(expr, path), k)
    BY <1>2, AtEnd
  <2>2. CASE ForcesFlag
    <3>1. FlagIn(expr, path) # <<>>
      BY <2>1, <2>2 DEF ForcesFlag, HasFlag, AttrsOf, FlagIn
    <3>2. /\ slot \in Slot /\ SlotsIn(expr, path) \in Seq(Slot)
          /\ SlotsIn(expr, path) \o FlagIn(expr, path) =
               Append(SlotsIn(expr, path), slot)
      BY <2>1, <3>1, FlagIs
    <3>3. c = Captured(Message(value, RecurseFor))
      BY <2>2
    <3>4. slot = <<value.of, RecurseFor>>
      OBVIOUS
    <3> HIDE DEF c, slot
    <3> QED BY <1>5, <2>1, <3>2, <3>3, <3>4, MessageCaptured
  <2>3. CASE ~ForcesFlag
    <3>1. c[k] = logs[k]
      BY <1>4, <1>5, <2>3, CapturedIs
    <3> QED BY <2>1, <2>3, <3>1
  <2> QED BY <2>2, <2>3
<1>7. \A x \in forced' : x \in forced \/ (ForcesFlag /\ x = slot)
  BY <1>1 DEF ForcedWith
<1> HIDE DEF c, slot
<1> DEFINE r == [attrPath |-> path, logs |-> c,
                 payload |-> WalkPayload(answer'[path])]
<1>8. /\ lines' = [p \in DOMAIN lines \cup {path} |->
                     IF p = path THEN ToJson(r) ELSE lines[p]]
      /\ logs' = NoLogs /\ retried' = retried
  BY <1>1 DEF WriteLine, Report, LogsAfterResponse
<1>9. IsResponse(r)
  <2>1. answer'[path] = [type |-> type, attrs |-> names]
    BY <1>3 DEF Answer
  <2>2. IsPayload(WalkPayload(answer'[path]))
    BY <2>1, WalkPayloadIs
  <2> HIDE DEF IsPayload
  <2> QED BY <1>4, <2>2 DEF IsResponse
<1>10. r.logs = c
  OBVIOUS
<1> HIDE DEF r
<1>11. \A k \in Kinds :
         /\ ReportsIn(expr, r.logs[k],
                      SlotsIn(expr, path) \o FlagIn(expr, path), k)
         /\ Range(logs[k]) \subseteq Range(r.logs[k])
         /\ \A x \in forced' : SaysIn(expr, x, k) =>
              \/ x \in forced \/ Known(x, k) \/ x \in Range(r.logs[k])
  BY <1>6, <1>7, <1>10
<1> QED BY <1>2, <1>3, <1>8, <1>9, <1>11, TalkWritten

(* A process is lost with what it has captured; it forgets its thunks as *)
(* well, so that what is not on a line is said again.                      *)
LEMMA TalkLost ==
  ASSUME IInv, TalkInv, busy, Lost
  PROVE  TalkInv'
<1>1. logs' = NoLogs /\ forced' = {}
  BY DEF Lost, FreshProcess
<1>2. CASE path \in retried
  <2> DEFINE r == [attrPath |-> path, logs |-> NoLogs,
                   payload |-> ErrorPayload(FALSE)]
  <2>1. /\ Answer("error", {}) /\ retried' = retried
        /\ lines' = [p \in DOMAIN lines \cup {path} |->
                       IF p = path THEN ToJson(r) ELSE lines[p]]
    BY <1>2 DEF Lost, GivesUp, QueuedAgain, Report
  <2>2. IsResponse(r) /\ r.logs = NoLogs
    BY NoLogsAreLogs DEF IsResponse, IsPayload, ErrorPayload
  <2> HIDE DEF r
  <2>3. /\ answer' = [p \in DOMAIN answer \cup {path} |->
                        IF p = path THEN [type |-> "error", attrs |-> {}]
                                    ELSE answer[p]]
        /\ busy' = FALSE /\ expr' = expr
    BY <2>1 DEF Answer
  <2>4. path \notin DOMAIN lines /\ DOMAIN lines \subseteq DOMAIN answer
    BY DEF IInv, PathInv, InHand, LineInv
  <2>5. /\ DOMAIN lines' = DOMAIN lines \cup {path} /\ lines'[path] = ToJson(r)
        /\ \A p \in DOMAIN lines : lines'[p] = lines[p]
        /\ \A p \in DOMAIN lines : answer'[p] = answer[p]
        /\ answer'[path].type = "error"
    BY <2>1, <2>3, <2>4
  <2>6. LogInv'
    BY <1>1, <2>3, NothingLogged DEF LogInv, Kinds
  <2>7. ForcedInv'
    BY <1>1 DEF ForcedInv
  <2>8. ToldInv'
    <3>1. \A p \in DOMAIN lines : IsGivenUp(p) => IsGivenUp(p)'
      BY <2>1, <2>5 DEF IsGivenUp
    <3>2. \A p \in DOMAIN lines' \ DOMAIN lines : p = path
      BY <2>5
    <3>3. \A k \in Kinds :
            ReportsIn(expr, LogsOf(lines'[path], k),
                      SlotsIn(expr, path) \o FlagIn(expr, path), k)
      BY <2>2, <2>5, LogsInLine, NothingLogged, NothingReported
    <3>4. \A p : p = path => IsGivenUp(p)'
      BY <1>2, <2>1, <2>5 DEF IsGivenUp
    <3> QED BY <2>3, <2>5, <3>1, <3>2, <3>3, <3>4, ToldStays DEF TalkInv
  <2> QED BY <2>6, <2>7, <2>8 DEF TalkInv
<1>3. CASE path \notin retried
  <2>1. /\ busy' = FALSE /\ retried \subseteq retried'
        /\ UNCHANGED <<expr, answer, lines>>
    BY <1>3 DEF Lost, GivesUp, QueuedAgain
  <2> QED BY <1>1, <2>1, NothingLogged, TalkBetween
<1> QED BY <1>2, <1>3

(* The process ends the run without a line. *)
LEMMA TalkAborted ==
  ASSUME IInv, TalkInv, busy, Answer("abort", {}), UNCHANGED jobVars
  PROVE  TalkInv'
<1>1. /\ answer' = [p \in DOMAIN answer \cup {path} |->
                      IF p = path THEN [type |-> "abort", attrs |-> {}]
                                  ELSE answer[p]]
      /\ busy' = FALSE /\ expr' = expr
      /\ UNCHANGED <<logs, forced, lines, retried>>
  BY DEF Answer, jobVars, processVars
<1>2. path \notin DOMAIN lines /\ DOMAIN lines \subseteq DOMAIN answer
  BY DEF IInv, PathInv, InHand, LineInv
<1>3. \A p \in DOMAIN lines : answer'[p] = answer[p]
  BY <1>1, <1>2
<1>4. Aborted'
  <2>1. path \in DOMAIN answer' /\ answer'[path].type = "abort"
    BY <1>1
  <2> QED BY <2>1 DEF Aborted
<1>5. LogInv'
  BY <1>1 DEF TalkInv, LogInv, Kinds
<1>6. ForcedInv'
  BY <1>4 DEF ForcedInv
<1>7. ToldInv'
  <2>1. ToldInv /\ \A p \in DOMAIN lines : IsGivenUp(p) => IsGivenUp(p)'
    BY <1>1, <1>3 DEF TalkInv, IsGivenUp
  <2> QED BY <1>1, <2>1, ToldStays
<1> QED BY <1>5, <1>6, <1>7 DEF TalkInv

(* What other threads log. *)
LEMMA TalkNoise ==
  ASSUME IInv, TalkInv, NEW noise, Warn(noise),
         (~busy /\ noise = Between) \/ (busy /\ noise = During)
  PROVE  TalkInv'
<1>1. /\ logs' = [logs EXCEPT !.warnings = Append(@, noise)]
      /\ UNCHANGED <<expr, answer, path, busy, depth, forced, lines, retried>>
  BY DEF Warn, evaluatorVars, walkVars
<1>2. /\ \A k \in Kinds : logs[k] \in Seq(Messages) /\ k \in DOMAIN logs
      /\ noise \in Messages
  BY DEF IInv, ProcessInv, TalkInv, LogInv, Messages, Kinds
<1>3. \A k \in Kinds : logs'[k] = logs[k] \/ logs'[k] = Append(logs[k], noise)
  BY <1>1, <1>2
<1>4. \A k \in Kinds : logs'[k] \in Seq(Messages)
  BY <1>2, <1>3, AppendProperties
<1>5. CASE ~busy
  BY <1>1, <1>4, <1>5, TalkBetween
<1>6. CASE busy
  <2>1. /\ ~Aborted /\ LogInv /\ ForcedInv /\ ToldInv /\ noise = During
    BY <1>6 DEF TalkInv, LogInv
  <2>2. Aborted' = Aborted
    BY <1>1 DEF Aborted
  <2> DEFINE t == SlotsIn(expr, Prefix(path, depth))
  <2>3. \A k \in Kinds : /\ ReportsIn(expr, logs[k], t, k)
                         /\ \A x \in Range(t) : SaysIn(expr, x, k) => Known(x, k)
    BY <1>6, <2>1 DEF LogInv
  <2>4. SlotsIn(expr', Prefix(path', depth')) = t
    BY <1>1
  <2> HIDE DEF t
  <2>5. ASSUME NEW k \in Kinds
        PROVE  /\ ReportsIn(expr, logs'[k], t, k)
               /\ Range(logs[k]) \subseteq Range(logs'[k])
    <3>1. CASE logs'[k] = logs[k]
      BY <2>3, <3>1
    <3>2. CASE logs'[k] = Append(logs[k], noise)
      BY <1>2, <2>1, <2>3, <3>2, ReportsNoise
    <3> QED BY <1>3, <3>1, <3>2
  <2>6. \A x : \A k \in Kinds : Known(x, k) => Known(x, k)'
    BY <1>1, <2>5 DEF Known, Heard
  <2>7. LogInv'
    BY <1>1, <1>4, <2>1, <2>2, <2>3, <2>4, <2>5, <2>6 DEF LogInv, Kinds
  <2>8. ForcedInv'
    BY <1>1, <2>1, <2>2, <2>6 DEF ForcedInv, Kinds
  <2>9. ToldInv'
    <3>1. \A p \in DOMAIN lines : IsGivenUp(p) => IsGivenUp(p)'
      BY <1>1 DEF IsGivenUp
    <3> QED BY <1>1, <2>1, <3>1, ToldStays
  <2> QED BY <2>7, <2>8, <2>9 DEF TalkInv
<1> QED BY <1>5, <1>6

LEMMA InitTalkInv == Init => TalkInv
<1> SUFFICES ASSUME Init PROVE TalkInv
  OBVIOUS
<1>1. busy = FALSE /\ logs = NoLogs /\ forced = {} /\ DOMAIN lines = {}
  BY DEF Init, WalkInit
<1> QED BY <1>1, NothingLogged DEF TalkInv, LogInv, ForcedInv, ToldInv, Kinds

LEMMA NextTalkInv == IInv /\ TalkInv /\ [Next]_vars => TalkInv'
<1> SUFFICES ASSUME IInv, TalkInv, [Next]_vars PROVE TalkInv'
  OBVIOUS
<1>1. ASSUME NEW s, GoOn(s)
      PROVE  TalkInv'
  BY <1>1, TalkStays DEF GoOn, evaluatorVars, walkVars
<1>2. CASE ReadCommand
  BY <1>2, TalkRead
<1>3. CASE Select
  BY <1>3, TalkSelect
<1>4. CASE RespondWalk
  BY <1>4, TalkWalk
<1>5. CASE ExtractConstituents
  BY <1>1, <1>5, TalkError DEF ExtractConstituents, Selected
<1>6. ASSUME busy, stage # "walk", RespondError
      PROVE  TalkInv'
  BY <1>6, TalkError DEF IInv, JobInv
<1>7. CASE ApplyExpr
  BY <1>1, <1>6, <1>7 DEF ApplyExpr, At
<1>8. CASE FromPackageInfo
  BY <1>1, <1>6, <1>8 DEF FromPackageInfo, At
<1>9. CASE RegisterGCRoot
  BY <1>1, <1>6, <1>9 DEF RegisterGCRoot, At
<1>10. CASE RespondJob
  BY <1>10, TalkJob
<1>11. CASE Killed
  BY <1>11, TalkLost DEF Killed
<1>12. CASE Unprintable
  <2>1. busy /\ (Lost \/ (Answer("abort", {}) /\ UNCHANGED jobVars))
    BY <1>12 DEF Unprintable, Selected
  <2> QED BY <2>1, TalkLost, TalkAborted
<1>13. CASE Restart
  <2>1. /\ ~busy /\ UNCHANGED <<expr, answer, busy, lines, retried>>
        /\ logs' = NoLogs /\ forced' = {}
    BY <1>13 DEF Restart, FreshProcess, evaluatorVars, walkVars
  <2> QED BY <2>1, NothingLogged, TalkBetween
<1>14. CASE NoiseBetween \/ NoiseDuring
  BY <1>14, TalkNoise DEF NoiseBetween, NoiseDuring
<1>15. CASE Stay \/ UNCHANGED vars
  BY <1>15, TalkStays
     DEF Stay, vars, evaluatorVars, walkVars, jobVars, processVars
<1> QED BY <1>2, <1>3, <1>4, <1>5, <1>7, <1>8, <1>9, <1>10, <1>11, <1>12,
           <1>13, <1>14, <1>15 DEF Next, ProcessJobRequest

(* MessagesOnTheirLine: warnings and traces are on the line of a path that *)
(* leads through the attribute that logged them, whichever processes were  *)
(* lost, restarted or reused (EvalLogCapture, processJobRequest).          *)
THEOREM MessagesFindTheirLine == Spec => []MessagesOnTheirLine
<1>1. IInv /\ TalkInv => MessagesOnTheirLine
  <2> SUFFICES ASSUME IInv, TalkInv, NEW p \in DOMAIN lines, NEW k \in Kinds
               PROVE  /\ Reports(LogsOf(lines[p], k), PathSlots(p) \o FlagSlots(p), k)
                      /\ IsGivenUp(p) \/
                           \A slot \in Range(PathSlots(p)) : Says(slot, k) =>
                             \E q \in DOMAIN lines :
                               slot \in Range(LogsOf(lines[q], k))
    BY DEF MessagesOnTheirLine, Kinds
  <2>1. /\ ReportsIn(expr, LogsOf(lines[p], k),
                     SlotsIn(expr, p) \o FlagIn(expr, p), k)
        /\ IsGivenUp(p) \/ \A slot \in Range(SlotsIn(expr, p)) :
                             SaysIn(expr, slot, k) => Heard(slot, k)
    BY DEF TalkInv, ToldInv
  <2>2. PathSlots(p) = SlotsIn(expr, p)
    BY ValueNow DEF PathSlots, SlotsIn, Prefix
  <2>3. FlagSlots(p) = FlagIn(expr, p)
    BY ValueNow DEF FlagSlots, FlagIn, AttrsOf
  <2>4. \A slot : Says(slot, k) <=> SaysIn(expr, slot, k)
    BY DEF Says, SaysIn
  <2>5. \A m, slots : ReportsIn(expr, m, slots, k) => Reports(m, slots, k)
    BY DEF ReportsIn, IsMatch, Own, SaysIn, Reports, Says
  <2> QED BY <2>1, <2>2, <2>3, <2>4, <2>5 DEF Heard
<1>2. Init => IInv /\ TalkInv
  BY InitIInv, InitTalkInv
<1>3. IInv /\ TalkInv /\ [Next]_vars => (IInv /\ TalkInv)'
  BY NextIInv, NextTalkInv
<1> QED BY <1>1, <1>2, <1>3, PTL DEF Spec
=============================================================================
