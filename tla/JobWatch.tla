------------------------------ MODULE JobWatch ------------------------------
(***************************************************************************)
(* What waiting for Slurm jobs promises to the tasks that call             *)
(* wait_completion_single (src/src/hpc_relay/_sbatch.py), with none of the *)
(* machinery that is shared through the Prefect server: a task waits until *)
(* it is told the state its job ended in, or that the job was cancelled    *)
(* with the task's own flow run, or that waiting failed; and a job is only *)
(* killed for a cancelled flow run that awaits it.                         *)
(***************************************************************************)
EXTENDS SlurmStates

CONSTANTS Jobs, Flows, Tasks, TaskJob, TaskFlow, JobStates

VARIABLES
  slurm,      \* job -> its state at Slurm
  killed,     \* jobs an scancel reached before they were over
  cancelled,  \* cancelled flow runs
  outcome     \* task -> "waiting", "cancelled", "gaveup" or a Slurm state

vars == <<slurm, killed, cancelled, outcome>>

Over(j) == slurm[j] \in TerminalStates

Init ==
  /\ slurm = [j \in Jobs |-> "NORECORD"]
  /\ killed = {}
  /\ cancelled = {}
  /\ outcome = [t \in Tasks |-> "waiting"]

\* Slurm moves a job, until it is over.
Evolve(j, s) ==
  /\ ~Over(j)
  /\ slurm' = [slurm EXCEPT ![j] = s]
  /\ UNCHANGED <<killed, cancelled, outcome>>

\* The user cancels a flow run.
Cancel(f) ==
  /\ cancelled' = cancelled \cup {f}
  /\ UNCHANGED <<slurm, killed, outcome>>

\* The job's end is reported as it is.
Report(t) ==
  /\ outcome[t] = "waiting"
  /\ Over(TaskJob[t])
  /\ outcome' = [outcome EXCEPT ![t] = slurm[TaskJob[t]]]
  /\ UNCHANGED <<slurm, killed, cancelled>>

\* The task is told its flow run was cancelled.
Fold(t) ==
  /\ outcome[t] = "waiting"
  /\ TaskFlow[t] \in cancelled
  /\ outcome' = [outcome EXCEPT ![t] = "cancelled"]
  /\ UNCHANGED <<slurm, killed, cancelled>>

\* scancel reaches some jobs of cancelled flow runs, some waits fail, or both.
KillOrGiveUp(S, T) ==
  /\ \A j \in S : ~Over(j) /\ \E t \in Tasks : TaskJob[t] = j /\ TaskFlow[t] \in cancelled
  /\ killed' = killed \cup S
  /\ outcome' = [t \in Tasks |-> IF t \in T /\ outcome[t] = "waiting"
                                 THEN "gaveup" ELSE outcome[t]]
  /\ UNCHANGED <<slurm, cancelled>>

Next ==
  \/ \E j \in Jobs, s \in JobStates : Evolve(j, s)
  \/ \E f \in Flows : Cancel(f)
  \/ \E t \in Tasks : Report(t) \/ Fold(t)
  \/ \E S \in SUBSET Jobs, T \in SUBSET Tasks : KillOrGiveUp(S, T)

Spec == Init /\ [][Next]_vars
=============================================================================
