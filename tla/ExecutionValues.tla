-------------------------- MODULE ExecutionValues --------------------------
(***************************************************************************)
(* What StateService promises to the executions of applications: values of *)
(* its own for each, on which get and set act as if they were done at once.*)
(* A write that is cut short costs an execution all its values.  One that  *)
(* was abandoned leaves what it had, and a later one may come upon it;     *)
(* otherwise an execution starts with nothing.                             *)
(***************************************************************************)
EXTENDS Sequences, SequencesExt

CONSTANTS
  Execs,   \* executions of applications
  Paths,   \* paths of keys
  Values   \* values that can be saved

VARIABLES
  phase,   \* phase[e]: "new", "running", "ended" or "abandoned"
  values,  \* values[e]: what get returns, by path, or Unusable
  left     \* left[e]: what the execution has left behind

vars == <<phase, values, left>>

Empty == [p \in {} |-> p]
Unusable == [p \in {<<>>} |-> p]

Init ==
  /\ phase = [e \in Execs |-> "new"]
  /\ values = [e \in Execs |-> Empty] /\ left = [e \in Execs |-> Empty]

\* The values an execution has from now on.
Become(e, map) == values' = [values EXCEPT ![e] = map]
Enter(e, next) == phase' = [phase EXCEPT ![e] = next]

Found == {left[f] : f \in {g \in Execs : phase[g] = "abandoned"}}

Start(e) ==
  /\ phase[e] = "new" /\ Enter(e, "running")
  /\ \E map \in {Empty} \cup Found : Become(e, map)
  /\ UNCHANGED left

\* A path gets a value; the values on its way and beneath it are gone.
Stored(before, path, value) ==
  LET kept == {q \in DOMAIN before : ~IsPrefix(path, q) /\ ~IsPrefix(q, path)}
  IN  [q \in kept \cup {path} |-> IF q = path THEN value ELSE before[q]]

Set(e) ==
  /\ phase[e] = "running" /\ values[e] # Unusable
  /\ \E p \in Paths, v \in Values : Become(e, Stored(values[e], p, v))
  /\ UNCHANGED <<phase, left>>

Break(e) == phase[e] = "running" /\ Become(e, Unusable) /\ UNCHANGED <<phase, left>>

End(e) == phase[e] = "running" /\ Enter(e, "ended") /\ Become(e, Empty) /\ UNCHANGED left

\* In the midst of a write what is left may be unusable.
Abandon(e) ==
  /\ phase[e] = "running" /\ Enter(e, "abandoned") /\ Become(e, Empty)
  /\ \E map \in {values[e], Unusable} : left' = [left EXCEPT ![e] = map]

Next == \E e \in Execs : Start(e) \/ Set(e) \/ Break(e) \/ End(e) \/ Abandon(e)

Spec == Init /\ [][Next]_vars
=============================================================================
