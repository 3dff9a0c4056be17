------------------------ MODULE CacheStatusReference ------------------------
(***************************************************************************)
(* The breakdown of a job by recursion, for stores that have answered      *)
(* everything: what the attempts of CacheStatus come to, whatever they     *)
(* knew when they began.                                                   *)
(***************************************************************************)
EXTENDS CacheStatus, TLC

RECURSIVE Walk(_, _, _)

Walk(b, d, names) ==
  LET outs    == WantedNames(d, names)
      missing == Missing({outputs[d][n] : n \in outs})
      visited == [b EXCEPT !.visited = @ \cup {d}]
      below   == FoldLeft(LAMBDA acc, e : Walk(acc, e, inputs[d][e]),
                          visited, SetToSortSeq(DOMAIN inputs[d], <))
  IN  IF d \in b.visited THEN b
      ELSE IF ~Known(d, outs) THEN [visited EXCEPT !.unknown = Append(@, d)]
      ELSE IF AllSubstitutable(missing)
           THEN [visited EXCEPT !.substitutes = @ \cup missing]
      ELSE [below EXCEPT !.builds = Append(@, d)]

WalkOf(j) ==
  Walk([visited |-> {}, builds |-> <<>>, unknown |-> <<>>,
        substitutes |-> {}], j, {})

Resolution(j) ==
  LET walk == WalkOf(j) IN
  IF /\ Known(j, DOMAIN outputs[j])
     /\ AllSubstitutable(Missing(Range(outputs[j])))
  THEN FastResolution(j)
  ELSE [status |-> "NotBuilt", builds |-> walk.builds,
        unknown |-> walk.unknown, substitutes |-> walk.substitutes]

(* What a job is reported with does not depend on when it was attempted:   *)
(* another attempt, with whatever has been learned since for other jobs,   *)
(* gives the same.  Dropped attempts leave no trace in it.                 *)
ResultsStand ==
  \A j \in Job : result[j].status # "Unknown" => result[j] = Resolution(j)
=============================================================================
