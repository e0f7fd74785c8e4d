--------------------------- MODULE SbatchMonitor ---------------------------
(***************************************************************************)
(* The cooperative monitoring of Slurm jobs on ONE hpc                     *)
(* (src/src/hpc_relay/_sbatch.py).  Any number of Prefect tasks, of several *)
(* flow runs and processes, each wait for one job.  They share, through    *)
(* the Prefect server: a status variable per job, a lease that lets one    *)
(* task per window call sacct for everybody, and a one-slot concurrency    *)
(* limit around the taking of that lease.                                  *)
(*                                                                         *)
(* Every call to the server or to the hpc is one step, so another task, a  *)
(* failure or a crash can come between any two of them.  _set_status is    *)
(* two calls: a read of the variable (who owns it) and a write.            *)
(***************************************************************************)
EXTENDS SlurmStates, Naturals, FiniteSets

CONSTANTS
  Jobs,        \* Slurm job ids; their order is that of the variables' names
  Flows,       \* flow runs
  Tasks,       \* task runs that wait for a job
  TaskJob,     \* the job a task waits for
  TaskFlow,    \* the flow run a task belongs to
  Submitters,  \* the tasks that come from _sbatch_try; the others await a job
               \* submitted by a launcher script (wait_for_completion)
  Cancellable, \* the flow runs the user may cancel (a bound of the model)
  JobStates,   \* the states the jobs go through
  NumReads,    \* _PRFEFECT_NUM_READS
  MaxFaults    \* bound on failed calls, lost replies and crashes

ASSUME JobsAssumption == Jobs \subseteq Nat
ASSUME TasksAssumption ==
  /\ TaskJob \in [Tasks -> Jobs]
  /\ TaskFlow \in [Tasks -> Flows]
  /\ Submitters \subseteq Tasks
  /\ Cancellable \subseteq Flows
ASSUME StatesAssumption == JobStates \subseteq SlurmJobState /\ JobStates # {}
ASSUME BoundsAssumption == NumReads \in Nat /\ MaxFaults \in Nat
ASSUME NoFlowAssumption == "none" \notin Flows

VARIABLES
  slurm,       \* job -> what sacct would print; "NORECORD" while too new
  killed,      \* jobs an scancel reached while they were not over (history)
  cancelled,   \* flow runs the user cancelled or deleted
  status,      \* job -> its status variable, "ABSENT" if there is none
  owner,       \* job -> flow_run_id in that variable
  lease,       \* "fresh" until lease_expires_at passes, or "expired"
  slots,       \* holders of the concurrency limit's slot
  faults,      \* failures so far
  pc,          \* task -> the call it makes next
  ids,         \* task -> job_ids of the scancel or sacct command
  todo,        \* task -> the ids whose variable is still to be written
  snap,        \* task -> the states the last sacct printed
  own,         \* task -> the owner the read of _set_status decided on
  got          \* task -> the state it returns

env   == <<slurm, killed, cancelled>>
vars  == <<slurm, killed, cancelled, status, owner, lease, slots, faults,
           pc, ids, todo, snap, own, got>>

NoFlow == "none"
NoState == "NORECORD"
Over(j) == slurm[j] \in TerminalStates

\* Where a task can be: in _sbatch_try before the wait ...
Inserting == {"insert", "insertW"}
\* ... in the cancellation guard once it saw the signal ...
Guarding == {"glist", "mark", "markW", "scancel", "fold"}
\* ... inside the concurrency slot ...
Section == {"recheck", "writeLease", "unlock"}
\* ... anywhere in an iteration of the poll loop ...
Polling == {"poll", "lease", "acquire", "list", "sacct", "apply", "applyW",
            "read", "reinsert", "reinsertW", "delete"} \cup Guarding \cup Section
\* ... or over: with sacct's state, folded, with an error, or dead.
Final == {"done", "folded", "failed", "crashed"}

TypeOK ==
  /\ slurm \in [Jobs -> JobStates \cup {NoState}]
  /\ killed \in SUBSET Jobs
  /\ cancelled \in SUBSET Flows
  /\ status \in [Jobs -> SlurmJobState \cup {"CANCELLING", "ABSENT"}]
  /\ owner \in [Jobs -> Flows \cup {NoFlow}]
  /\ lease \in {"fresh", "expired"}
  /\ slots \in SUBSET Tasks
  /\ faults \in 0..MaxFaults
  /\ pc \in [Tasks -> Inserting \cup Polling \cup Final]
  /\ ids \in [Tasks -> SUBSET Jobs]
  /\ todo \in [Tasks -> SUBSET Jobs]
  /\ snap \in [Tasks -> [Jobs -> JobStates \cup {NoState}]]
  /\ own \in [Tasks -> Flows \cup {NoFlow}]
  /\ got \in [Tasks -> SlurmJobState \cup {NoState}]

NoStates == [j \in Jobs |-> NoState]

Init ==
  /\ slurm = NoStates
  /\ killed = {}
  /\ cancelled = {}
  /\ status = [j \in Jobs |-> "ABSENT"]
  /\ owner = [j \in Jobs |-> NoFlow]
  /\ lease = "expired"
  /\ slots = {}
  /\ faults = 0
  /\ pc = [t \in Tasks |-> IF t \in Submitters THEN "insert" ELSE "poll"]
  /\ ids = [t \in Tasks |-> {}]
  /\ todo = [t \in Tasks |-> {}]
  /\ snap = [t \in Tasks |-> NoStates]
  /\ own = [t \in Tasks |-> NoFlow]
  /\ got = [t \in Tasks |-> NoState]

Goto(t, label) == pc' = [pc EXCEPT ![t] = label]
Set(f, t, v) == [f EXCEPT ![t] = v]

-----------------------------------------------------------------------------
(* The status variables. *)

\* A bug for the mutants: the writer re-stamps the variable as its own.
OwnerRestamped(t, j) == TaskFlow[t]

\* _set_status, first half: the variable keeps the flow run it was created by.
OwnerFor(t, j) == IF status[j] # "ABSENT" THEN owner[j] ELSE TaskFlow[t]

ReadOwner(t, j) == own' = Set(own, t, OwnerFor(t, j))

\* _set_status, second half.
WriteStatus(t, j, s) ==
  /\ status' = [status EXCEPT ![j] = s]
  /\ owner' = [owner EXCEPT ![j] = own[t]]

\* _delete_status
DeleteStatus(j) ==
  /\ status' = [status EXCEPT ![j] = "ABSENT"]
  /\ owner' = [owner EXCEPT ![j] = NoFlow]

\* _list_status_payloads: the server returns at most NumReads variables, by
\* name, and the caller keeps those it wants.
ListStatus ==
  LET all == {j \in Jobs : status[j] # "ABSENT"}
  IN  {j \in all : Cardinality({k \in all : k < j}) < NumReads}

\* The jobs of a list are handled in the order they were listed.
IsFirst(j, S) == j \in S /\ \A k \in S : j <= k

-----------------------------------------------------------------------------
(* _sbatch_try: the status variable of a job just submitted (or whose      *)
(* submission was replayed from the cache) is inserted before the wait.    *)

InsertRead(t) ==
  /\ pc[t] = "insert"
  /\ ReadOwner(t, TaskJob[t])
  /\ Goto(t, "insertW")
  /\ UNCHANGED <<env, status, owner, lease, slots, faults, ids, todo, snap, got>>

\* The artifact created next changes nothing here; its failure is that of
\* the write whose reply is lost.
InsertWrite(t) ==
  /\ pc[t] = "insertW"
  /\ WriteStatus(t, TaskJob[t], "PENDING")
  /\ own' = Set(own, t, NoFlow)
  /\ Goto(t, "poll")
  /\ UNCHANGED <<env, lease, slots, faults, ids, todo, snap, got>>

-----------------------------------------------------------------------------
(* _flow_cancellation_guard *)

\* read_flow_run: Cancelling, Cancelled or deleted is the signal.
GuardCheck(t) ==
  /\ pc[t] = "poll"
  /\ Goto(t, IF TaskFlow[t] \in cancelled THEN "glist" ELSE "lease")
  /\ UNCHANGED <<env, status, owner, lease, slots, faults, ids, todo, snap, own, got>>

\* A bug for the mutants: an unreadable flow run is taken for a deleted one.
BlipIsSignal(t) ==
  /\ pc[t] = "poll"
  /\ faults < MaxFaults
  /\ faults' = faults + 1
  /\ Goto(t, "glist")
  /\ UNCHANGED <<env, status, owner, lease, slots, ids, todo, snap, own, got>>

\* Any exception of that call is "no signal".
GuardBlind(t) ==
  /\ pc[t] = "poll"
  /\ faults < MaxFaults
  /\ faults' = faults + 1
  /\ Goto(t, "lease")
  /\ UNCHANGED <<env, status, owner, lease, slots, ids, todo, snap, own, got>>

\* A bug for the mutants: jobs another guard has marked are left out.
JobsNotMarked(f) == {j \in ListStatus : owner[j] = f /\ status[j] # "CANCELLING"}

\* The jobs the guard cancels: those whose variable names this flow run.
JobsOfFlow(f) == {j \in ListStatus : owner[j] = f}

GuardList(t) ==
  LET mine == JobsOfFlow(TaskFlow[t]) IN
  /\ pc[t] = "glist"
  /\ ids' = Set(ids, t, mine)
  /\ todo' = Set(todo, t, mine)
  /\ Goto(t, IF mine = {} THEN "lease" ELSE "mark")
  /\ UNCHANGED <<env, status, owner, lease, slots, faults, snap, own, got>>

MarkRead(t) ==
  /\ pc[t] = "mark"
  /\ \E j \in Jobs : IsFirst(j, todo[t]) /\ ReadOwner(t, j)
  /\ Goto(t, "markW")
  /\ UNCHANGED <<env, status, owner, lease, slots, faults, ids, todo, snap, got>>

MarkWrite(t) ==
  /\ pc[t] = "markW"
  /\ \E j \in Jobs :
       /\ IsFirst(j, todo[t])
       /\ WriteStatus(t, j, "CANCELLING")
       /\ todo' = Set(todo, t, todo[t] \ {j})
       /\ Goto(t, IF todo[t] = {j} THEN "scancel" ELSE "mark")
  /\ own' = Set(own, t, NoFlow)
  /\ UNCHANGED <<env, lease, slots, faults, ids, snap, got>>

\* scancel of all ids in one command; a job that is over is left alone.
Scancel(t) ==
  /\ pc[t] = "scancel"
  /\ killed' = killed \cup {j \in ids[t] : ~Over(j)}
  /\ ids' = Set(ids, t, {})
  /\ Goto(t, "fold")
  /\ UNCHANGED <<slurm, cancelled, status, owner, lease, slots, faults, todo, snap, own, got>>

\* A bug for the mutants: the failure of scancel is not looked at.
ScancelUnchecked(t) ==
  /\ pc[t] = "scancel"
  /\ faults < MaxFaults
  /\ faults' = faults + 1
  /\ ids' = Set(ids, t, {})
  /\ Goto(t, "fold")
  /\ UNCHANGED <<env, status, owner, lease, slots, todo, snap, own, got>>

\* The command fails, or fails after it reached some of the jobs: the wait
\* returns the error and the variables stay marked.
ScancelFails(t) ==
  /\ pc[t] = "scancel"
  /\ faults < MaxFaults
  /\ faults' = faults + 1
  /\ \E reached \in SUBSET ids[t] : killed' = killed \cup {j \in reached : ~Over(j)}
  /\ ids' = Set(ids, t, {})
  /\ Goto(t, "failed")
  /\ UNCHANGED <<slurm, cancelled, status, owner, lease, slots, todo, snap, own, got>>

\* guard.cancelled is not empty: report CANCELLED without waiting for sacct.
Fold(t) ==
  /\ pc[t] = "fold"
  /\ DeleteStatus(TaskJob[t])
  /\ got' = Set(got, t, "CANCELLED")
  /\ Goto(t, "folded")
  /\ UNCHANGED <<env, lease, slots, faults, ids, todo, snap, own>>

-----------------------------------------------------------------------------
(* _try_update_status *)

CheckLease(t) ==
  /\ pc[t] = "lease"
  /\ Goto(t, IF lease = "fresh" THEN "read" ELSE "acquire")
  /\ UNCHANGED <<env, status, owner, lease, slots, faults, ids, todo, snap, own, got>>

Acquire(t) ==
  /\ pc[t] = "acquire"
  /\ slots = {}
  /\ slots' = {t}
  /\ Goto(t, "recheck")
  /\ UNCHANGED <<env, status, owner, lease, faults, ids, todo, snap, own, got>>

\* A bug for the mutants: the lease is not checked again inside the slot.
NoRecheck(t) ==
  /\ pc[t] = "recheck"
  /\ Goto(t, "writeLease")
  /\ UNCHANGED <<env, status, owner, lease, slots, faults, ids, todo, snap, own, got>>

\* The holder this task queued behind may have renewed the lease.
Recheck(t) ==
  /\ pc[t] = "recheck"
  /\ IF lease = "fresh"
       THEN slots' = slots \ {t} /\ Goto(t, "read")
       ELSE slots' = slots /\ Goto(t, "writeLease")
  /\ UNCHANGED <<env, status, owner, lease, faults, ids, todo, snap, own, got>>

WriteLease(t) ==
  /\ pc[t] = "writeLease"
  /\ lease' = "fresh"
  /\ Goto(t, "unlock")
  /\ UNCHANGED <<env, status, owner, slots, faults, ids, todo, snap, own, got>>

Release(t) ==
  /\ pc[t] = "unlock"
  /\ slots' = slots \ {t}
  /\ Goto(t, "list")
  /\ UNCHANGED <<env, status, owner, lease, faults, ids, todo, snap, own, got>>

\* _list_running_job_ids: marked jobs are left out.
ListRunning(t) ==
  LET running == {j \in ListStatus : status[j] # "CANCELLING"} IN
  /\ pc[t] = "list"
  /\ ids' = Set(ids, t, running)
  /\ Goto(t, IF running = {} THEN "read" ELSE "sacct")
  /\ UNCHANGED <<env, status, owner, lease, slots, faults, todo, snap, own, got>>

\* A bug for the mutants: an id without a record is applied like the others.
SacctUnknown(t) ==
  /\ pc[t] = "sacct"
  /\ snap' = Set(snap, t, [j \in Jobs |-> IF j \in ids[t] THEN slurm[j] ELSE NoState])
  /\ todo' = Set(todo, t, ids[t])
  /\ ids' = Set(ids, t, {})
  /\ Goto(t, "apply")
  /\ UNCHANGED <<env, status, owner, lease, slots, faults, own, got>>

\* get_slurm_job_states: one sacct for all the ids, outside the slot.
Sacct(t) ==
  /\ pc[t] = "sacct"
  /\ \A j \in ids[t] : slurm[j] # NoState
  /\ snap' = Set(snap, t, [j \in Jobs |-> IF j \in ids[t] THEN slurm[j] ELSE NoState])
  /\ todo' = Set(todo, t, ids[t])
  /\ ids' = Set(ids, t, {})
  /\ Goto(t, "apply")
  /\ UNCHANGED <<env, status, owner, lease, slots, faults, own, got>>

\* One id without a record, or the command failing, and nobody's status is
\* refreshed; the error is logged and the iteration goes on.
SacctFails(t) ==
  /\ pc[t] = "sacct"
  /\ \/ (\E j \in ids[t] : slurm[j] = NoState) /\ faults' = faults
     \/ faults < MaxFaults /\ faults' = faults + 1
  /\ ids' = Set(ids, t, {})
  /\ Goto(t, "read")
  /\ UNCHANGED <<env, status, owner, lease, slots, todo, snap, own, got>>

ApplyRead(t) ==
  /\ pc[t] = "apply"
  /\ \E j \in Jobs : IsFirst(j, todo[t]) /\ ReadOwner(t, j)
  /\ Goto(t, "applyW")
  /\ UNCHANGED <<env, status, owner, lease, slots, faults, ids, todo, snap, got>>

ApplyWrite(t) ==
  /\ pc[t] = "applyW"
  /\ \E j \in Jobs :
       /\ IsFirst(j, todo[t])
       /\ WriteStatus(t, j, snap[t][j])
       /\ todo' = Set(todo, t, todo[t] \ {j})
       /\ snap' = Set(snap, t, [snap[t] EXCEPT ![j] = NoState])
       /\ Goto(t, IF todo[t] = {j} THEN "read" ELSE "apply")
  /\ own' = Set(own, t, NoFlow)
  /\ UNCHANGED <<env, lease, slots, faults, ids, got>>

-----------------------------------------------------------------------------
(* _poll_completion_once, after the refresh *)

\* The iteration ends and the loop sleeps.
NextIteration(t) == Goto(t, "poll")

\* A bug for the mutants: a missing variable is waited for, not inserted.
NeverReinsert(t) ==
  LET s == status[TaskJob[t]] IN
  /\ pc[t] = "read"
  /\ IF is_terminal_state(s)
       THEN got' = Set(got, t, s) /\ Goto(t, "delete")
       ELSE NextIteration(t) /\ UNCHANGED got
  /\ UNCHANGED <<env, status, owner, lease, slots, faults, ids, todo, snap, own>>

ReadStatus(t) ==
  LET s == status[TaskJob[t]] IN
  /\ pc[t] = "read"
  /\ \/ s = "ABSENT" /\ Goto(t, "reinsert") /\ UNCHANGED got
     \/ /\ s \notin {"ABSENT", "CANCELLING"} /\ is_terminal_state(s)
        /\ got' = Set(got, t, s) /\ Goto(t, "delete")
     \/ /\ s # "ABSENT" /\ (s = "CANCELLING" \/ ~is_terminal_state(s))
        /\ NextIteration(t) /\ UNCHANGED got
  /\ UNCHANGED <<env, status, owner, lease, slots, faults, ids, todo, snap, own>>

\* The variable of a job submitted outside of sbatch is created here.
ReinsertRead(t) ==
  /\ pc[t] = "reinsert"
  /\ ReadOwner(t, TaskJob[t])
  /\ Goto(t, "reinsertW")
  /\ UNCHANGED <<env, status, owner, lease, slots, faults, ids, todo, snap, got>>

ReinsertWrite(t) ==
  /\ pc[t] = "reinsertW"
  /\ WriteStatus(t, TaskJob[t], "PENDING")
  /\ own' = Set(own, t, NoFlow)
  /\ NextIteration(t)
  /\ UNCHANGED <<env, lease, slots, faults, ids, todo, snap, got>>

Report(t) ==
  /\ pc[t] = "delete"
  /\ DeleteStatus(TaskJob[t])
  /\ Goto(t, "done")
  /\ UNCHANGED <<env, lease, slots, faults, ids, todo, snap, own, got>>

-----------------------------------------------------------------------------
(* Failures of the Prefect API.  A call may fail before it had its effect  *)
(* or after it (the reply is lost).                                        *)

\* The exception leaves _poll_completion_once.  wait_completion_single tries
\* again if it tells of an outage that is within its tolerance (how long that
\* is, OutageTolerance models); any other exception ends the wait.  Before the
\* wait nothing catches it and the task fails.
Raises(t) ==
  /\ faults < MaxFaults
  /\ faults' = faults + 1
  /\ \/ Goto(t, "failed")
     \/ pc[t] \notin Inserting /\ Goto(t, "poll")
  /\ ids' = Set(ids, t, {})
  /\ todo' = Set(todo, t, {})
  /\ snap' = Set(snap, t, NoStates)
  /\ own' = Set(own, t, NoFlow)
  /\ got' = Set(got, t, NoState)

\* Leaving the slot by an exception releases it, unless that call fails too.
CallFails(t) ==
  /\ pc[t] \in (Inserting \cup Polling) \ {"poll", "scancel", "sacct"}
  /\ Raises(t)
  /\ slots' \in {slots, slots \ {t}}
  /\ UNCHANGED <<env, status, owner, lease>>

ReplyLost(t) ==
  /\ Raises(t)
  /\ \/ /\ pc[t] \in {"insertW", "reinsertW"}
        /\ WriteStatus(t, TaskJob[t], "PENDING") /\ UNCHANGED <<lease, slots>>
     \/ /\ pc[t] = "markW"
        /\ \E j \in Jobs : IsFirst(j, todo[t]) /\ WriteStatus(t, j, "CANCELLING")
        /\ UNCHANGED <<lease, slots>>
     \/ /\ pc[t] = "applyW"
        /\ \E j \in Jobs : IsFirst(j, todo[t]) /\ WriteStatus(t, j, snap[t][j])
        /\ UNCHANGED <<lease, slots>>
     \/ /\ pc[t] \in {"fold", "delete"}
        /\ DeleteStatus(TaskJob[t]) /\ UNCHANGED <<lease, slots>>
     \/ /\ pc[t] = "acquire" /\ slots = {}
        /\ slots' = {t} /\ UNCHANGED <<status, owner, lease>>
     \/ /\ pc[t] = "writeLease"
        /\ lease' = "fresh" /\ slots' \in {slots, slots \ {t}} /\ UNCHANGED <<status, owner>>
     \/ /\ pc[t] = "unlock"
        /\ slots' = slots \ {t} /\ UNCHANGED <<status, owner, lease>>
  /\ UNCHANGED env

-----------------------------------------------------------------------------
(* The environment *)

\* Slurm: a job moves until it is over.
SlurmStep(j, s) ==
  /\ ~Over(j)
  /\ s \in JobStates \ {slurm[j]}
  /\ slurm' = [slurm EXCEPT ![j] = s]
  /\ UNCHANGED <<killed, cancelled, status, owner, lease, slots, faults,
                 pc, ids, todo, snap, own, got>>

\* The clock passes lease_expires_at.
LeaseExpires ==
  /\ lease = "fresh"
  /\ lease' = "expired"
  /\ UNCHANGED <<env, status, owner, slots, faults, pc, ids, todo, snap, own, got>>

\* The server takes back a slot whose holder no longer renews it.
SlotExpires(t) ==
  /\ t \in slots
  /\ pc[t] \notin Section
  /\ slots' = slots \ {t}
  /\ UNCHANGED <<env, status, owner, lease, faults, pc, ids, todo, snap, own, got>>

UserCancels(f) ==
  /\ f \in Cancellable \ cancelled
  /\ cancelled' = cancelled \cup {f}
  /\ UNCHANGED <<slurm, killed, status, owner, lease, slots, faults,
                 pc, ids, todo, snap, own, got>>

\* The process of a flow run dies with all its tasks.
Crash(f) ==
  /\ faults < MaxFaults
  /\ faults' = faults + 1
  /\ \E t \in Tasks : TaskFlow[t] = f /\ pc[t] \notin Final
  /\ LET dies(t) == TaskFlow[t] = f /\ pc[t] \notin Final
     IN  /\ pc' = [t \in Tasks |-> IF dies(t) THEN "crashed" ELSE pc[t]]
         /\ ids' = [t \in Tasks |-> IF dies(t) THEN {} ELSE ids[t]]
         /\ todo' = [t \in Tasks |-> IF dies(t) THEN {} ELSE todo[t]]
         /\ snap' = [t \in Tasks |-> IF dies(t) THEN NoStates ELSE snap[t]]
         /\ own' = [t \in Tasks |-> IF dies(t) THEN NoFlow ELSE own[t]]
         /\ got' = [t \in Tasks |-> IF dies(t) THEN NoState ELSE got[t]]
  /\ UNCHANGED <<env, status, owner, lease, slots>>

-----------------------------------------------------------------------------
\* What a task does when no call fails.
TaskStep(t) ==
  \/ InsertRead(t) \/ InsertWrite(t)
  \/ GuardCheck(t) \/ GuardList(t) \/ MarkRead(t) \/ MarkWrite(t)
  \/ Scancel(t) \/ Fold(t)
  \/ CheckLease(t) \/ Acquire(t) \/ Recheck(t) \/ WriteLease(t) \/ Release(t)
  \/ ListRunning(t) \/ Sacct(t) \/ SacctFails(t) \/ ApplyRead(t) \/ ApplyWrite(t)
  \/ ReadStatus(t) \/ ReinsertRead(t) \/ ReinsertWrite(t) \/ Report(t)

TaskFault(t) == GuardBlind(t) \/ ScancelFails(t) \/ CallFails(t) \/ ReplyLost(t)

\* Nobody waits any more: the system rests.
AllFinal == (\A t \in Tasks : pc[t] \in Final) /\ UNCHANGED vars

Next ==
  \/ \E t \in Tasks : TaskStep(t) \/ TaskFault(t) \/ SlotExpires(t)
  \/ \E j \in Jobs, s \in JobStates : SlurmStep(j, s)
  \/ LeaseExpires
  \/ \E f \in Flows : UserCancels(f) \/ Crash(f)
  \/ AllFinal

\* The event loops keep running their tasks, the server serves the slot to
\* everyone who queues for it, leases and abandoned slots expire.
WaitFairness ==
  /\ \A t \in Tasks :
       /\ WF_vars(TaskStep(t))
       /\ SF_vars(Acquire(t))
       /\ WF_vars(SlotExpires(t))
  /\ WF_vars(LeaseExpires)

\* Slurm ends every job (a time limit is mandatory), cancelled or not.
SlurmFairness ==
  \A j \in Jobs : WF_vars(\E s \in JobStates \cap TerminalStates : SlurmStep(j, s))

Spec == Init /\ [][Next]_vars
\* Jobs may run for ever: what must happen must not wait for them.
CancelSpec == Spec /\ WaitFairness
FairSpec == Spec /\ WaitFairness /\ SlurmFairness

-----------------------------------------------------------------------------
(* Properties *)

\* A state returned by wait_completion_single is the one the job ended in: no
\* interleaving of refreshes, stale writes, deletions and re-insertions makes
\* a task report a state that Slurm later leaves or never reached.
ReportedStateIsFinal ==
  \A t \in Tasks : pc[t] = "done" => Over(TaskJob[t]) /\ got[t] = slurm[TaskJob[t]]

\* Only the one holder of the slot renews the lease, and only when it finds it
\* expired: each lease window has one refresher, whatever expires, fails,
\* crashes or is taken back meanwhile.
OneRefresherPerLease ==
  \A t \in Tasks : pc[t] = "writeLease" => slots = {t} /\ lease = "expired"

\* scancel only ever reaches a job awaited by a flow run that was cancelled,
\* although any monitor writes the variables of everyone's jobs and the guard
\* trusts the flow_run_id it finds in them.
KilledOnlyByOwnFlow ==
  \A j \in killed : \E t \in Tasks : TaskJob[t] = j /\ TaskFlow[t] \in cancelled

\* The job of a task that reports CANCELLED through the guard is over or was
\* committed to scancel: nothing keeps running unattended.
FoldLeavesNothingRunning ==
  \A t \in Tasks : pc[t] = "folded" => Over(TaskJob[t]) \/ TaskJob[t] \in killed

\* Every wait ends: sooner or later a task that polls reports a state, folds
\* or gives up, through failed calls, lost replies and other tasks' crashes.
EveryWaitEnds == \A t \in Tasks : pc[t] \in Polling ~> pc[t] \in Final

\* A cancelled flow run lets go of its jobs without waiting for them to end:
\* each of its tasks folds, with its job over or committed to scancel, unless
\* the task died or gave up.
CancelledFlowFolds ==
  \A t \in Tasks :
    TaskFlow[t] \in cancelled ~>
      \/ pc[t] \in {"failed", "crashed"}
      \/ pc[t] \in {"done", "folded"} /\ (Over(TaskJob[t]) \/ TaskJob[t] \in killed)

\* The inductive strengthening of the three safety invariants above.  A final
\* state known to the monitor is the one Slurm shows, be it in a variable,
FinalStatus == \A j \in Jobs : status[j] \in TerminalStates => status[j] = slurm[j]
\* in the answer of an sacct that may be applied long after,
FinalSnap == \A t \in Tasks, j \in Jobs :
  snap[t][j] \in TerminalStates => snap[t][j] = slurm[j]
\* or in the hands of a task that returns it;
FinalGot == \A t \in Tasks : pc[t] \in {"delete", "done"} =>
  got[t] \in TerminalStates /\ got[t] = slurm[TaskJob[t]]

\* the slot excludes, and nobody renews the lease behind its holder's back:
SlotExcludes ==
  /\ \A t \in Tasks : pc[t] \in Section => slots = {t}
  /\ \A t \in Tasks : pc[t] = "writeLease" => lease = "expired"

AwaitedBy(f, j) == \E t \in Tasks : TaskJob[t] = j /\ TaskFlow[t] = f
\* A job is settled once scancel may reach it or can no longer harm it.
Settled(j) ==
  Over(j) \/ \E t \in Tasks : TaskJob[t] = j /\ TaskFlow[t] \in cancelled

\* until a job is settled its variable names a flow run that awaits it,
VariableOwned == \A j \in Jobs :
  status[j] # "ABSENT" => Settled(j) \/ AwaitedBy(owner[j], j)
\* and so does what its own waiter is about to write into it,
InsertOwned == \A t \in Tasks : pc[t] \in {"insertW", "reinsertW"} =>
  Settled(TaskJob[t]) \/ AwaitedBy(own[t], TaskJob[t])
\* or any other task is,
WriteOwned == \A t \in Tasks, j \in Jobs :
  pc[t] \in {"markW", "applyW"} /\ IsFirst(j, todo[t]) => Settled(j) \/ AwaitedBy(own[t], j)
\* since a variable that was listed is not deleted before;
ListedPresent == \A t \in Tasks, j \in Jobs :
  j \in ids[t] \cup todo[t] => Settled(j) \/ status[j] # "ABSENT"

\* and a guard that saw the signal holds settled jobs only.
GuardSettled ==
  \A t \in Tasks : pc[t] \in Guarding \cup {"folded"} =>
    TaskFlow[t] \in cancelled /\ (pc[t] # "glist" => \A j \in ids[t] : Settled(j))

\* Everything a step has to know to keep the promises of JobWatch.
SafetyInv ==
  /\ FinalStatus /\ FinalSnap /\ FinalGot
  /\ SlotExcludes
  /\ VariableOwned /\ InsertOwned /\ WriteOwned /\ ListedPresent
  /\ GuardSettled /\ KilledOnlyByOwnFlow

\* What a task's wait has come to, as JobWatch sees it.
Outcome(t) ==
  CASE pc[t] = "done" -> got[t]
    [] pc[t] = "folded" -> "cancelled"
    [] pc[t] \in {"failed", "crashed"} -> "gaveup"
    [] OTHER -> "waiting"

Watch == INSTANCE JobWatch WITH outcome <- [t \in Tasks |-> Outcome(t)]

\* The lease, the slot, the shared variables and the guard together implement
\* JobWatch: what every task is told, and whose jobs are killed, is as if each
\* task watched Slurm and its own flow run alone.
ImplementsJobWatch == Watch!Spec

\* The header of _sbatch.py: one sacct call per hpc at a time.
OneSacctAtATime == Cardinality({t \in Tasks : pc[t] = "sacct"}) <= 1

\* The docstring of wait_completion_single: no variable outlives its wait.
NoVariableLeft ==
  (\A t \in Tasks : pc[t] \in {"done", "folded"}) =>
    \A j \in Jobs : status[j] = "ABSENT"

\* _list_running_job_ids: a refresh does not overwrite the CANCELLING marker.
MarkerKept ==
  [][\A j \in Jobs : status[j] = "CANCELLING" => status'[j] \in {"CANCELLING", "ABSENT"}]_vars

=============================================================================
