---------------------------- MODULE MCJobRequest ----------------------------
(***************************************************************************)
(* Constants of the model-checking runs of JobRequest: five families of    *)
(* expressions with up to three sets and a function.                       *)
(***************************************************************************)
EXTENDS JobRequest, TLC

CONSTANTS S1, S2, S3, F, X, D

MCAttrSet == {S1, S2, S3}
MCFunction == {F}
MCLetter == {X}
MCDigit == {D}

(* The empty name, "."  with its quotes, x, x.x, and recurseForDerivations, *)
(* whose spelling does not matter beyond being plain.                      *)
Empty == 1
Odd   == 2
A     == 4
B     == 5
MCRecurseFor == 3
MCName == 1 .. 5
MCText == <<<<>>, <<Quote, Dot, Quote>>, <<X, D>>, <<X>>, <<X, Dot, X>>>>

Names(n1, v1, n2, v2) == [n \in {n1, n2} |-> IF n = n1 THEN v1 ELSE v2]

Graph(a1, a2, a3, returns, root, force) ==
  [attrs |-> [s \in MCAttrSet |-> IF s = S1 THEN a1
                                  ELSE IF s = S2 THEN a2 ELSE a3],
   returns |-> [f \in MCFunction |-> returns],
   root |-> root, forceRecurse |-> force]

With(graph, says, quirks, args, store, env) ==
  graph @@ [says |-> says, quirks |-> quirks, args |-> args,
            store |-> store, env |-> env]

Expr(a1, a2, a3, returns, root, force) ==
  With(Graph(a1, a2, a3, returns, root, force), <<>>, <<>>, {}, "local", {})

(* Every graph of three sets with two attributes each; those of S2 and S3  *)
(* in one order.                                                           *)
Node == <<S1, S2, S3, "derivation">>
MCGraphs ==
  {Expr(Names(A, Node[v[1]], B, Node[v[2]]), Names(A, Node[v[3]], B, Node[v[4]]),
        Names(A, Node[v[5]], B, Node[v[6]]), S2, S1, TRUE) :
     v \in {u \in [1 .. 6 -> 1 .. 4] : u[3] <= u[4] /\ u[5] <= u[6]}}

(* Two sets, with and without the flag, whatever its value, a function,    *)
(* and attributes of every kind.                                           *)
WithFlag(v, flags) ==
  {[n \in {A} |-> v]} \cup {Names(MCRecurseFor, f, A, v) : f \in flags}

MCFlags ==
  {Expr(a1, a2, [n \in {A} |-> "derivation"], S2, r, force) :
     a1 \in UNION {WithFlag(v, {"true", "false", "other", S2}) :
                     v \in {S2, F, "derivation", "throws", "overflow"}},
     a2 \in UNION {WithFlag(v, {"true", "false", "overflow"}) :
                     v \in {S1, S2, S3, F, "derivation", "other"}},
     r \in {S1, F}, force \in BOOLEAN}

(* Names that need quotes, or look like two. *)
MCNames ==
  {Expr(Names(n1, v1, n2, S2), Names(n1, v2, n2, "derivation"),
        [n \in {Odd} |-> "derivation"], S2, S1, TRUE) :
     n1 \in {Empty, A}, n2 \in {Odd, B}, v1, v2 \in {S2, S3, "derivation"}}

(* Every attribute logs a message; sets are shared, or returned by calls.  *)
SomeSays ==
  [s \in MCAttrSet \X {A, B, MCRecurseFor} |->
     IF s[2] = B THEN "traces" ELSE "warnings"]

MCTalk ==
  {With(Graph(Names(A, v[1], B, v[2]), a2, [n \in {A} |-> "derivation"],
              S2, S1, force), SomeSays, <<>>, {}, "local", env) :
     v \in {<<S2, S2>>, <<S2, F>>, <<F, "throws">>,
            <<"unprintable", "derivation">>},
     a2 \in UNION {WithFlag(w, {"true", "other"}) : w \in {S3, F}},
     force \in BOOLEAN,
     env \in {{"noise"}, {"kill"}, {"restart"}}}

(* Two derivations, usual or not, with the options and stores that tell    *)
(* them apart, in a process that may be lost or replaced.                  *)
Quirks1 == {{q} : q \in Quirk \ {"noConstituents"}} \cup {{}}
Quirks2 == {{"aggregate", "noConstituents"}, {"caOutputs", "badOptions"}}
Quirks3 == {{}, {"badOptions"}, {"unreadable"}, {"rootThrows"}}

AllArgs == Option \ {"readOnly", "caDerivations"}

MCRecord(q1, q2, args, store, env) ==
  With(Graph(Names(A, "derivation", B, "derivation"), <<>>, <<>>, S2, S1,
             FALSE), [s \in {<<S1, B>>} |-> "warnings"],
       [s \in {<<S1, A>>, <<S1, B>>} |-> IF s[2] = A THEN q1 ELSE q2],
       args, store, env)

MCRecords ==
  {MCRecord(q1, q2, args, "local", {}) :
     q1, q2 \in Quirks1 \cup Quirks2,
     args \in {{}, AllArgs, AllArgs \cup {"caDerivations"}}}
  \cup {MCRecord(q1, q2, args, store, {"kill", "restart"}) :
     q1, q2 \in Quirks3, store \in StoreKind,
     args \in {AllArgs, AllArgs \cup {"readOnly"}}}

MCExpression == MCGraphs \cup MCFlags \cup MCNames \cup MCTalk \cup MCRecords
=============================================================================
