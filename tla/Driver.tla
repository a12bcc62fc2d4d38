------------------------------- MODULE Driver -------------------------------
\* What every runtime driver promises the control plane (runtime/driver.go):
\* a sandbox appears only under a create, runs only under a create or a
\* start, and goes only under a delete or a create that undoes itself.  An
\* answered stop found it not running, an answered delete found it gone, and
\* an answered create or start left it in place unless another call took it.
EXTENDS Naturals, FiniteSets

CONSTANT Ids

\* there[i]: the driver holds the sandbox.  runs[i]: its workload runs or is
\* coming up, which it may still do when the call that asked was cut short.
\* open[i]: the operations a caller has open on it.  ended[i]: the operation
\* the last step answered without an error, "none" when it answered none.
\* mixed[i]: an open operation has run beside another one on that sandbox.
VARIABLES there, runs, open, mixed, ended

vars == <<there, runs, open, mixed, ended>>

Init ==
  /\ there = [i \in Ids |-> FALSE]
  /\ runs = [i \in Ids |-> FALSE]
  /\ open = [i \in Ids |-> {}]
  /\ mixed = [i \in Ids |-> FALSE]
  /\ ended = [i \in Ids |-> "none"]

\* One step of the driver, seen from outside: what may change for each
\* sandbox, under the operations that are open on it before the step.
Appears(i) == ~there[i] /\ there'[i] => "Create" \in open[i]
Runs(i) == ~runs[i] /\ runs'[i] => open[i] \cap {"Create", "Start"} # {}
Goes(i) == there[i] /\ ~there'[i] =>
  /\ open[i] \cap {"Create", "Delete"} # {}
  /\ ~mixed[i] => ~runs[i]
Mixes(i) == ~mixed[i] /\ mixed'[i] => Cardinality(open'[i]) > 1

\* What an answer without an error means when the call ran by itself.
Alone(i, op) == open[i] = {op} /\ ~mixed[i]
Answers(i) ==
  /\ ended'[i] = "Stop" /\ Alone(i, "Stop") => ~runs'[i]
  /\ ended'[i] = "Delete" /\ Alone(i, "Delete") => ~there'[i] /\ ~runs'[i]
  /\ ended'[i] \in {"Create", "Start"} /\ Alone(i, ended'[i]) => there'[i]

Next == \A i \in Ids : Appears(i) /\ Runs(i) /\ Goes(i) /\ Mixes(i) /\ Answers(i)

Spec == Init /\ [][Next]_vars

=============================================================================
