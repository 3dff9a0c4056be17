---------------------------- MODULE MCCacheStatus ----------------------------
(***************************************************************************)
(* Constants of the model-checking runs of CacheStatus.                    *)
(***************************************************************************)
EXTENDS CacheStatusReference

MCOutputPath == {"p1", "p1dev", "p2", "p3", "p4"}
MCDrv == 1 .. 4
MCJob == {1, 2}

(* Job 1 has two outputs, the others have one. *)
MCOutputs == 1 :> <<"p1", "p1dev">> @@ 2 :> <<"p2">> @@ 3 :> <<"p3">>
               @@ 4 :> <<"p4">>

(* Derivation 3 may be content-addressed: its output has no path yet. *)
MCOutputMap == {MCOutputs, [MCOutputs EXCEPT ![3] = <<NoPath>>]}

(* Every graph over them whose edges want the (only) output, or all. *)
Edges == {<<d, e>> \in MCDrv \X MCDrv : d < e}
MCInputGraph ==
  {[d \in MCDrv |-> [e \in {e \in MCDrv : <<d, e>> \in g} |->
                       IF d = 1 THEN {} ELSE {1}]] : g \in SUBSET Edges}

(* Derivations 2 and 3 want different outputs of derivation 4. *)
MCMultiPath == {"p1", "p2", "p3", "p4", "p4dev"}
MCMultiJob == {1}
MCMultiOutputMap ==
  {1 :> <<"p1">> @@ 2 :> <<"p2">> @@ 3 :> <<"p3">> @@ 4 :> <<"p4", "p4dev">>}
MCMultiGraph ==
  {1 :> (2 :> {1} @@ 3 :> {1}) @@ 2 :> (4 :> {1}) @@ 3 :> (4 :> {2})
     @@ 4 :> <<>>}

(* Jobs 1 and 2 reach derivation 5 over 3 and 4. *)
MCSharedPath == {"p1", "p2", "p3", "p4", "p5"}
MCSharedDrv == 1 .. 5
MCSharedOutputMap ==
  {1 :> <<"p1">> @@ 2 :> <<"p2">> @@ 3 :> <<"p3">> @@ 4 :> <<"p4">>
     @@ 5 :> <<"p5">>}
MCSharedGraph ==
  {1 :> (3 :> {1}) @@ 2 :> (4 :> {1}) @@ 3 :> (5 :> {1}) @@ 4 :> (5 :> {1})
     @@ 5 :> <<>>}
=============================================================================
