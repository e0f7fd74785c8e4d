---------------------------- MODULE SlurmStates ----------------------------
(* The Slurm job states hpc_relay recognises and which of them it takes to *)
(* be final (src/src/hpc_relay/slurm.py).                                  *)

\* The Literal of every state name sacct may print.
SlurmJobState ==
  {"BOOT_FAIL", "CANCELLED", "COMPLETED", "DEADLINE", "FAILED", "NODE_FAIL",
   "OUT_OF_MEMORY", "PENDING", "PREEMPTED", "RUNNING", "SUSPENDED", "TIMEOUT",
   "COMPLETING", "CONFIGURING", "EXPEDITING", "LAUNCH_FAILED", "POWER_UP_NODE",
   "RECONFIG_FAIL", "REQUEUED", "REQUEUE_FED", "REQUEUE_HOLD", "RESIZING",
   "RESV_DEL_HOLD", "REVOKED", "SIGNALING", "SPECIAL_EXIT", "STAGE_OUT",
   "STOPPED", "UPDATE_DB"}

\* _TERMINAL_STATES: Slurm's JOB_END set, REVOKED and LAUNCH_FAILED.
TerminalStates ==
  {"BOOT_FAIL", "CANCELLED", "COMPLETED", "DEADLINE", "FAILED", "NODE_FAIL",
   "OUT_OF_MEMORY", "PREEMPTED", "TIMEOUT", "REVOKED", "LAUNCH_FAILED"}

\* A bug for the mutants: COMPLETING and STAGE_OUT, whose exit status Slurm
\* has not settled yet, taken for final.
IsTerminalTooEarly(state) == state \in TerminalStates \cup {"COMPLETING", "STAGE_OUT"}

is_terminal_state(state) == state \in TerminalStates
=============================================================================
