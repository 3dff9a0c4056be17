------------------------------ MODULE Traversal ------------------------------
(***************************************************************************)
(* What the collector promises, without workers, memory, retries or        *)
(* threads: it walks the tree of attribute sets from the root, every       *)
(* path that it meets is settled once, and it reports success only when    *)
(* all of them are settled.                                                *)
(***************************************************************************)
EXTENDS Response

VARIABLES
  pending,   \* paths met and not settled
  settled,   \* paths listed or reported
  outcome    \* "running", "success" or "failure"

traversalVars == <<pending, settled, outcome>>

TraversalInit ==
  pending = {Root} /\ settled = {} /\ outcome = "running"

(* An attribute set is listed: its members are met. *)
List(p) ==
  /\ outcome = "running"
  /\ p \in pending /\ IsListing(p)
  /\ pending' = (pending \ {p}) \cup ChildPaths(p)
  /\ settled' = settled \cup {p}
  /\ UNCHANGED outcome

(* A job or an error is reported; any path may end as an error. *)
Report(p) ==
  /\ outcome = "running"
  /\ p \in pending
  /\ pending' = pending \ {p}
  /\ settled' = settled \cup {p}
  /\ UNCHANGED outcome

Succeed ==
  /\ outcome = "running"
  /\ pending = {}
  /\ outcome' = "success"
  /\ UNCHANGED <<pending, settled>>

Fail ==
  /\ outcome = "running"
  /\ outcome' = "failure"
  /\ pending' = {}
  /\ UNCHANGED settled

TraversalNext ==
  (\E p \in Path : List(p) \/ Report(p)) \/ Succeed \/ Fail

TraversalSafety == TraversalInit /\ [][TraversalNext]_traversalVars

(* The traversal ends: evaluating is not the end of it, so no single       *)
(* action is fair, only their disjunction.                                 *)
TraversalSpec == TraversalSafety /\ WF_traversalVars(TraversalNext)
=============================================================================
