----------------------------- MODULE CommandRun -----------------------------
(***************************************************************************)
(* What CommandRunner.run promises (cmd_runners/_types.py 63-83), whatever  *)
(* the service behind it: the command is executed at most once, and its     *)
(* result is returned only when it has finished.  A run may end in an error *)
(* at any time, before, while or after the command executes.                *)
(***************************************************************************)
VARIABLES
  phase,    \* of the call: "called", "returned" or "failed"
  effect,   \* of the command: "none", "active", "success" or "failure"
  reported  \* what a returned result says of it

vars == <<phase, effect, reported>>

Init ==
  /\ phase = "called"
  /\ effect = "none"
  /\ reported = "none"

Start ==
  /\ phase = "called"
  /\ effect = "none"
  /\ effect' = "active"
  /\ phase' \in {"called", "failed"}
  /\ UNCHANGED reported

Finish ==
  /\ effect = "active"
  /\ effect' \in {"success", "failure"}
  /\ UNCHANGED <<phase, reported>>

\* The result is that of the command; a runner may not know its exit code.
Return ==
  /\ phase = "called"
  /\ effect \in {"success", "failure"}
  /\ phase' = "returned"
  /\ reported' \in {effect, "unknown"}
  /\ UNCHANGED effect

Fail ==
  /\ phase = "called"
  /\ phase' = "failed"
  /\ UNCHANGED <<effect, reported>>

\* The same runner is given another command.
Again ==
  /\ phase # "called"
  /\ phase' = "called"
  /\ effect' = "none"
  /\ reported' = "none"

Next == Start \/ Finish \/ Return \/ Fail \/ Again

CommandRunSpec == Init /\ [][Next]_vars
=============================================================================
