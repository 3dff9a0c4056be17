----------------------------- MODULE JobOutput ------------------------------
(***************************************************************************)
(* What the collector reports: the map `jobs` and the lines on stdout      *)
(* (emitResponse, emitError, OutputStreamLock).  Both the event loop and   *)
(* the thread of the CacheStatusResolver call emitResponse.  The map and   *)
(* stdout have a lock each; an emission touches one key, and two emissions *)
(* of different keys commute, so one emission is one step.                 *)
(***************************************************************************)
EXTENDS Response

VARIABLES
  jobs,        \* jobs[p]: what the map holds for p, "absent" before
  printed,     \* printed[p]: how many lines stdout has carried for p
  stdoutOpen   \* the stream is good

outputVars == <<jobs, printed, stdoutOpen>>

Reported == {"job", "aggregate", "error", "fatal", "memory"}

OutputInit ==
  /\ jobs = [p \in Path |-> "absent"]
  /\ printed = [p \in Path |-> 0]
  /\ stdoutOpen = TRUE

(* A job that awaits its constituents is printed by handleConstituents. *)
HasPendingConstituents(what) == what = "aggregate"

(* Mutant: nobody looks at the stream. *)
EmitNeverThrows(what) == FALSE

(* The line is lost, and ~LockedOutputStream throws, when stdout is closed.*)
EmitThrows(what) == ~stdoutOpen /\ ~HasPendingConstituents(what)

(* Mutant: jobs that await their constituents are printed at once, too. *)
EmitResponseAtOnce(p, what) ==
  /\ jobs' = [jobs EXCEPT ![p] = what]
  /\ printed' = [printed EXCEPT ![p] = IF stdoutOpen THEN @ + 1 ELSE @]
  /\ UNCHANGED stdoutOpen

(* emitResponse: `what` is the kind of the payload, or "memory" for the    *)
(* error that onKilled makes up with emitError.                            *)
EmitResponse(p, what) ==
  /\ jobs' = [jobs EXCEPT ![p] = what]
  /\ printed' = [printed EXCEPT ![p] =
                   IF HasPendingConstituents(what) \/ ~stdoutOpen
                   THEN @ ELSE @ + 1]
  /\ UNCHANGED stdoutOpen

(* handleConstituents prints the jobs that await their constituents, each  *)
(* once, rewritten or with an error (module Constituents).                 *)
EmitAggregates(those) ==
  /\ printed' = [p \in Path |-> IF p \in those THEN printed[p] + 1
                                              ELSE printed[p]]
  /\ UNCHANGED <<jobs, stdoutOpen>>

OutputTypeOK ==
  /\ jobs \in [Path -> Reported \cup {"absent"}]
  /\ printed \in [Path -> Nat]
  /\ stdoutOpen \in BOOLEAN
=============================================================================
