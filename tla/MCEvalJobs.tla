----------------------------- MODULE MCEvalJobs -----------------------------
(***************************************************************************)
(* Constants of the model-checking runs of EvalJobs: two trees.  With      *)
(* MaxMemorySize = 2 and two workers the budget is 4.                      *)
(***************************************************************************)
EXTENDS EvalJobs

MCName == {"a", "b"}
LeafA  == <<"a">>

(* The root lists a leaf and a set, which lists one more leaf. *)
SetB   == <<"b">>
LeafBA == <<"b", "a">>

MCPath  == {<<>>, LeafA, SetB, LeafBA}
MCAttrs == [p \in MCPath |-> CASE p = <<>> -> {"a", "b"}
                               [] p = SetB -> {"a"}
                               [] OTHER -> {}]
MCKind  == <<>> :> "attrs" @@ SetB :> "attrs" @@ LeafA :> "job"
             @@ LeafBA :> "error"
MCNoProbes == [p \in MCPath |-> <<>>]

(* With BaseRss = 1, LeafA exceeds the whole budget, LeafBA fits when it   *)
(* is alone; either makes its worker restart, SetB does not.               *)
MCHugeCost == <<>> :> 0 @@ LeafA :> 4 @@ SetB :> 1 @@ LeafBA :> 3

(* The root lists two leaves. *)
LeafB == <<"b">>

MCPairPath  == {<<>>, LeafA, LeafB}
MCPairAttrs == [p \in MCPairPath |-> IF p = <<>> THEN MCName ELSE {}]

(* Two jobs for the resolver, which share a probe.  They do not fit        *)
(* together, with BaseRss = 0, and LeafA makes its worker restart.         *)
MCPairKind   == <<>> :> "attrs" @@ LeafA :> "job" @@ LeafB :> "aggregate"
MCPairCost   == <<>> :> 0 @@ LeafA :> 3 @@ LeafB :> 2
MCPairProbes == <<>> :> <<>> @@ LeafA :> <<{"q1"}>> @@ LeafB :> <<{"q1", "q2"}>>

(* One job that exceeds the whole budget, and a leaf that overflows the    *)
(* stack, which ends the run.                                              *)
MCEndsKind   == <<>> :> "attrs" @@ LeafA :> "job" @@ LeafB :> "fatal"
MCEndsCost   == <<>> :> 0 @@ LeafA :> 5 @@ LeafB :> 0
MCEndsProbes == <<>> :> <<>> @@ LeafA :> <<{"q1"}>> @@ LeafB :> <<>>
=============================================================================
