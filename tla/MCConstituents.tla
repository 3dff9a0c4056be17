--------------------------- MODULE MCConstituents ---------------------------
(***************************************************************************)
(* Constants of the model-checking runs of Constituents: three aggregates  *)
(* that name each other in every way, a job, and a job that failed.        *)
(***************************************************************************)
EXTENDS Constituents

CONSTANTS Missing, AggGlob, AllGlob

MCJob == 1 .. 5
MCAggregate == {1, 2, 4}
Good == 3
Bad  == 5
MCFailed == {Bad}
MCPattern == {Missing, AggGlob, AllGlob}
MCMatches == [s \in MCPattern |-> CASE s = Missing -> {}
                                    [] s = AggGlob -> MCAggregate
                                    [] s = AllGlob -> MCJob]

(* Every subset of the aggregates, with something else or nothing. *)
Others == {{}, {Good}, {Bad}, {Missing}}
MCInput ==
  {[named |-> a \cup o, glob |-> FALSE, direct |-> {}] :
     a \in SUBSET MCAggregate, o \in Others}
  \ {[named |-> {}, glob |-> FALSE, direct |-> {}]}

(* Globs, and derivations that are depended on already. *)
MCGlobInput ==
  {[named |-> {s}, glob |-> TRUE, direct |-> {}] : s \in MCPattern}
  \cup {[named |-> {AggGlob}, glob |-> FALSE, direct |-> {Good}],
        [named |-> {AggGlob, Good}, glob |-> TRUE, direct |-> {1}]}
  \cup {[named |-> {n}, glob |-> g, direct |-> {Good}] :
          n \in {Good} \cup MCAggregate, g \in BOOLEAN}

MCAllInput == MCInput \cup MCGlobInput
=============================================================================
