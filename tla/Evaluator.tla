------------------------------ MODULE Evaluator ------------------------------
(***************************************************************************)
(* What evaluating an attribute path yields (Evaluator::select, evaluate,  *)
(* collectAttrsForRecursion, processDerivation in worker.cc) and how it is *)
(* named (joinAttrPath), for a traversal with one worker: the source of    *)
(* the functions Kind and Attrs of Response.                               *)
(*                                                                         *)
(* An expression is a graph of values.  Every evaluation walks from the    *)
(* root; the walk is one step per component.  What tells attribute sets    *)
(* apart is the address of their Bindings: shared for a set that is a      *)
(* value, fresh for what a call returns.  JobRequest puts the walk into    *)
(* the worker process that takes it and goes on with its derivations.      *)
(***************************************************************************)
EXTENDS Naturals, Sequences, SequencesExt, FiniteSets

CONSTANTS
  Name,         \* attribute names, in their order as strings
  RecurseFor,   \* the name "recurseForDerivations"
  Text,         \* Text[n]: the characters of a name
  Letter, Digit, Dot, Quote, Backslash, Dollar,  \* characters
  AttrSet,      \* the sets that are no derivations
  Function,     \* functions all of whose arguments are optional
  Expression,   \* the expressions that are enumerated
  MaxDepth      \* longer paths are not taken

(* Every other value, by what forcing it does. *)
Leaf == {"derivation", "true", "false", "other",
         "throws",        \* nix::EvalError, or another std::exception
         "unprintable",   \* the same, with a text that is not UTF-8
         "overflow"}      \* nix::StackOverflowError

Value == AttrSet \cup Function \cup Leaf

ExpressionAssumption ==
  /\ Name \subseteq Nat /\ RecurseFor \in Name
  /\ IsFiniteSet(AttrSet)
  /\ AttrSet \cap Function = {} /\ Leaf \cap (AttrSet \cup Function) = {}
  /\ MaxDepth \in Nat /\ MaxDepth > Cardinality(AttrSet)
  /\ \A e \in Expression :
       /\ DOMAIN e.attrs = AttrSet
       /\ \A s \in AttrSet : /\ DOMAIN e.attrs[s] \subseteq Name
                             /\ Range(e.attrs[s]) \subseteq Value
       /\ e.returns \in [Function -> AttrSet]
       /\ e.root \in AttrSet \cup Function
       /\ e.forceRecurse \in BOOLEAN

(* Attribute names are strings, and different ones; the characters that    *)
(* joinAttrPath looks for are different, and none is in an identifier.     *)
TextAssumption ==
  /\ DOMAIN Text = Name /\ IsInjective(Text)
  /\ \A n \in Name : Text[n] \in Seq(Range(Text[n]))
  /\ IsInjective(<<Dot, Quote, Backslash, Dollar>>)
  /\ {Dot, Quote, Backslash, Dollar} \cap (Letter \cup Digit) = {}

ASSUME ExpressionAssumption
ASSUME TextAssumption

VARIABLES
  expr,        \* the expression, and args.forceRecurse
  todo,        \* the collector's queue
  answer,      \* answer[p]: the payload for a path that was evaluated
  path,        \* the path that is evaluated, <<>> or longer
  busy,        \* an evaluation is on its way
  depth,       \* how many components of it were selected
  value,       \* the value they lead to
  ancestors    \* the Bindings passed on the way

walkVars == <<path, busy, depth, value, ancestors>>
evaluatorVars == <<expr, todo, answer, walkVars>>

(* A value after autoCallFunction.  call tells the results of calls in one *)
(* walk apart, and from the values, which carry 0.                         *)
Called(v, n) == IF v \in Function THEN [of |-> expr.returns[v], call |-> n]
                                  ELSE [of |-> v, call |-> 0]

AttrsOf(s) == expr.attrs[s]

(***************************************************************************)
(* select.                                                                 *)
(***************************************************************************)

(* std::set orders arrays by their first difference, a prefix first. *)
Before(p, q) ==
  \/ IsStrictPrefix(p, q)
  \/ \E i \in DOMAIN p \cap DOMAIN q :
       p[i] < q[i] /\ SubSeq(p, 1, i - 1) = SubSeq(q, 1, i - 1)

Takeable == {p \in todo : Len(p) <= MaxDepth}

(* Mutant: the list of ancestors outlives an evaluation. *)
AncestorsKept == ancestors

NoAncestors == <<>>

Aborted == \E p \in DOMAIN answer : answer[p].type \in {"fatal", "abort"}

TakeJob ==
  /\ ~busy /\ ~Aborted
  /\ \E p \in Takeable :
       /\ \A q \in Takeable \ {p} : Before(p, q)
       /\ path' = p /\ todo' = todo \ {p}
  /\ busy' = TRUE
  /\ depth' = 0
  /\ value' = Called(expr.root, 1)
  /\ ancestors' = NoAncestors
  /\ UNCHANGED <<expr, answer>>

(* One round of the loop.  A component that is missing, or that is looked  *)
(* up in something else than a set, throws: a path was listed by its       *)
(* parent, so this does not happen to a deterministic expression.          *)
SelectAttr ==
  /\ busy /\ depth < Len(path)
  /\ value.of \in AttrSet
  /\ path[depth + 1] \in DOMAIN AttrsOf(value.of)
  /\ ancestors' = Append(ancestors, value)
  /\ value' = Called(AttrsOf(value.of)[path[depth + 1]], depth + 2)
  /\ depth' = depth + 1
  /\ UNCHANGED <<expr, todo, answer, path, busy>>

Selected == busy /\ depth = Len(path)

(* Mutant: only the parent is compared with. *)
IsParent == ancestors # <<>> /\ value = Last(ancestors)

(* Mutant: sets are compared, not their addresses. *)
EqualsAnAncestor == \E b \in Range(ancestors) : b.of = value.of

ContainsItself == value \in Range(ancestors)

(***************************************************************************)
(* collectAttrsForRecursion, for the set that was selected.                *)
(***************************************************************************)
HasFlag == RecurseFor \in DOMAIN AttrsOf(value.of)
Flag    == Called(AttrsOf(value.of)[RecurseFor], 0).of

(* Mutant: the top level needs the flag like any other set. *)
NeverByDefault == FALSE

RecurseByDefault == path = <<>>

(* Mutant: the flag counts when it is there, whatever its value. *)
RecurseIfFlagged ==
  expr.forceRecurse \/ IF HasFlag THEN TRUE ELSE RecurseByDefault

(* The flag overrides what the top level does by default.  It is one of    *)
(* the names, so the traversal visits it like any other.                   *)
Recurse ==
  expr.forceRecurse
    \/ IF HasFlag THEN Flag = "true" ELSE RecurseByDefault

(* forceBool throws. *)
FlagThrows == ~expr.forceRecurse /\ HasFlag /\ Flag \notin {"true", "false"}

Listed == IF Recurse THEN DOMAIN AttrsOf(value.of) ELSE {}

(***************************************************************************)
(* evaluate, and what the collector does with the response.                *)
(***************************************************************************)
Answer(type, names) ==
  /\ answer' = [p \in DOMAIN answer \cup {path} |->
                  IF p = path THEN [type |-> type, attrs |-> names]
                              ELSE answer[p]]
  /\ todo' = todo \cup {Append(path, a) : a \in names}
  /\ busy' = FALSE
  /\ UNCHANGED <<expr, path, depth, value, ancestors>>

EvaluateThrows ==
  /\ Selected
  /\ \/ value.of = "throws" /\ Answer("error", {})
     \/ value.of = "overflow" /\ Answer("fatal", {})

(* Not buildable. *)
EvaluateOther ==
  /\ Selected
  /\ value.of \in {"true", "false", "other"}
  /\ Answer("attrs", {})

EvaluateCycle ==
  /\ Selected
  /\ value.of \in AttrSet /\ ContainsItself
  /\ Answer("error", {})

EvaluateSet ==
  /\ Selected
  /\ value.of \in AttrSet /\ ~ContainsItself
  /\ \/ FlagThrows
        /\ Answer(IF Flag = "overflow" THEN "fatal" ELSE "error", {})
     \/ ~FlagThrows /\ Answer("attrs", Listed)

Finished == ~busy /\ (Aborted \/ Takeable = {})

WalkInit ==
  /\ expr \in Expression
  /\ todo = {<<>>}
  /\ answer = <<>>
  /\ path = <<>> /\ busy = FALSE
  /\ depth = 0 /\ value = Called(expr.root, 1) /\ ancestors = <<>>

(***************************************************************************)
(* joinAttrPath.                                                           *)
(***************************************************************************)

(* Mutant: a name with a dot needs no quotes. *)
IsPlainWithDots(s) ==
  /\ s # <<>> /\ s[1] \in Letter
  /\ Range(s) \subseteq Letter \cup Digit \cup {Dot}

IsPlainIdentifier(s) ==
  /\ s # <<>> /\ s[1] \in Letter
  /\ Range(s) \subseteq Letter \cup Digit

Escape(c) == IF c \in {Quote, Backslash, Dollar} THEN <<Backslash, c>>
                                                 ELSE <<c>>

Part(n) ==
  IF IsPlainIdentifier(Text[n]) THEN Text[n]
  ELSE <<Quote>> \o FlattenSeq([i \in DOMAIN Text[n] |-> Escape(Text[n][i])])
         \o <<Quote>>

JoinAttrPath(p) ==
  FlattenSeq([i \in DOMAIN p |->
                IF i = 1 THEN Part(p[i]) ELSE <<Dot>> \o Part(p[i])])

(***************************************************************************)
(* Correctness.                                                            *)
(***************************************************************************)
Payload == [type : {"attrs", "job", "error", "fatal", "abort"},
            attrs : SUBSET Name]

(* Types; the walk has passed one attribute set per component, and no path *)
(* is queued again once it was answered.                                   *)
WalkTypeOK ==
  /\ Range(answer) \subseteq Payload
  /\ todo \cap DOMAIN answer = {}
  /\ \A p \in todo \cup DOMAIN answer : Range(p) \subseteq Name
  /\ busy \in BOOLEAN
  /\ depth \in 0 .. Len(path) /\ Len(ancestors) = depth
  /\ value.of \in Value \ Function

(* The declarative view of the expression: the value that a path names.    *)
ValueAt(p) ==
  LET v[i \in 0 .. Len(p)] ==
        IF i = 0 THEN expr.root ELSE AttrsOf(Called(v[i - 1], 0).of)[p[i]]
  IN  v[Len(p)]
SetAt(p) == Called(ValueAt(p), 0).of
Calls(p) == {i \in 0 .. Len(p) : ValueAt(SubSeq(p, 1, i)) \in Function}

(* An expression whose sets contain themselves is not followed for ever:   *)
(* a path that is queued (Evaluator::select, its ancestors check) is no    *)
(* longer than there are sets, plus the calls on the way, each of which    *)
(* returns a new one.                                                      *)
DepthBounded ==
  \A p \in todo \cup DOMAIN answer :
    Len(p) <= Cardinality(AttrSet) + Cardinality(Calls(Front(p)))

(* What may be recursed into: any set with --force-recurse, else one that  *)
(* says so, or the top level if it does not say no.                        *)
MayRecurse(s, top) ==
  \/ expr.forceRecurse
  \/ IF RecurseFor \in DOMAIN AttrsOf(s)
     THEN Called(AttrsOf(s)[RecurseFor], 0).of = "true"
     ELSE top

(* The check for cycles and the flags open no set that the user did not    *)
(* ask for: above a job, every set may be recursed into                    *)
(* (collectAttrsForRecursion).                                             *)
JobsAreAskedFor ==
  \A p \in DOMAIN answer : answer[p].type = "job" =>
    \A i \in 0 .. Len(p) - 1 : MayRecurse(SetAt(SubSeq(p, 1, i)), i = 0)

(* The sets that can be reached through sets that may be recursed into. *)
Opened(s, top) ==
  {t \in AttrSet : /\ MayRecurse(s, top)
                   /\ \E a \in DOMAIN AttrsOf(s) :
                        Called(AttrsOf(s)[a], 0).of = t}
Reached ==
  LET r[n \in 0 .. Cardinality(AttrSet)] ==
        IF n = 0 THEN Opened(SetAt(<<>>), TRUE)
        ELSE r[n - 1] \cup UNION {Opened(s, FALSE) : s \in r[n - 1]}
  IN  r[Cardinality(AttrSet)]

(* What makes the evaluation of a path fail: its value or its flag throws, *)
(* or the very set was passed on the way.                                  *)
WalkFails(p) ==
  \/ SetAt(p) = "throws"
  \/ /\ SetAt(p) \in AttrSet /\ RecurseFor \in DOMAIN AttrsOf(SetAt(p))
     /\ ~expr.forceRecurse
     /\ Called(AttrsOf(SetAt(p))[RecurseFor], 0).of \notin {"true", "false"}
  \/ /\ ValueAt(p) \in AttrSet
     /\ \E i \in 0 .. Len(p) - 1 : ValueAt(SubSeq(p, 1, i)) = ValueAt(p)

(* The map of jobs has a key for each path: two paths of the traversal are *)
(* never given the same name (joinAttrPath, used by emitResponse).         *)
AttrsDistinct ==
  Finished =>
    \A p, q \in DOMAIN answer :
      JoinAttrPath(p) = JoinAttrPath(q) => p = q
=============================================================================
