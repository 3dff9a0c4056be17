------------------------------ MODULE Response ------------------------------
(***************************************************************************)
(* What travels over the worker pipes, and what evaluating an attribute    *)
(* path yields (response.hh, response.cc, Evaluator in worker.cc).         *)
(*                                                                         *)
(* A job of the traversal is an attribute path, a sequence of names.       *)
(* Names, payload texts and JSON syntax are abstracted; the variant of the *)
(* payload is kept, because onResponse branches on it.  Evaluation is a    *)
(* function of the path (Kind): a retry of a path gives the same answer    *)
(* unless the process dies first.                                          *)
(***************************************************************************)
EXTENDS Naturals, Sequences, FiniteSets

CONSTANTS
  Name,      \* attribute names
  Path,      \* the attribute paths of the expression, the root <<>> included
  NoPath,    \* nlohmann::json nullptr in a Worker that has no job
  Kind,      \* Kind[p]: the payload that evaluate(p) returns
  Attrs      \* Attrs[p]: the names listed when Kind[p] = "attrs"

PayloadKind ==
  {"attrs",      \* Response::Attrs
   "job",        \* Response::Job without pending constituents
   "aggregate",  \* Response::Job whose namedConstituents is not empty
   "error",      \* Response::Error, fatal = false
   "fatal"}      \* Response::Error, fatal = true (StackOverflowError)

(* The expression is a tree: listing an attribute set gives paths of the   *)
(* tree, each of which is its parent's path with one name appended.  A     *)
(* set has finitely many members; the tree may be infinite.                *)
TreeAssumption ==
  /\ Path \subseteq Seq(Name)
  /\ <<>> \in Path
  /\ NoPath \notin Path
  /\ Kind \in [Path -> PayloadKind]
  /\ Attrs \in [Path -> SUBSET Name]
  /\ \A p \in Path : IsFiniteSet(Attrs[p])
  /\ \A p \in Path : \A a \in Attrs[p] : Append(p, a) \in Path

ASSUME TreeAssumption

(* The root of the traversal, nlohmann::json::array(). *)
Root == <<>>

(* The paths that a listing of p queues: its path with each name appended. *)
ChildPaths(p) == {Append(p, a) : a \in Attrs[p]}

IsListing(p) == Kind[p] = "attrs"
IsJob(p)     == Kind[p] \in {"job", "aggregate"}
JobPath      == {p \in Path : IsJob(p)}

(* Lines of the protocol.  A line that names no path carries NoPath. *)
LineType == {"config", "do", "exit",                       \* to a worker
             "next", "restart", "initError", "response"}   \* from a worker
Line == [type : LineType \ {"do", "response"}, attrPath : {NoPath}]
          \cup [type : {"do", "response"}, attrPath : Path]

ConfigLine    == [type |-> "config",    attrPath |-> NoPath]
MsgDo(p)      == [type |-> "do",        attrPath |-> p]
MsgExit       == [type |-> "exit",      attrPath |-> NoPath]
MsgNext       == [type |-> "next",      attrPath |-> NoPath]
MsgRestart    == [type |-> "restart",   attrPath |-> NoPath]
InitErrorLine == [type |-> "initError", attrPath |-> NoPath]
ResponseLine(p) == [type |-> "response", attrPath |-> p]
=============================================================================
