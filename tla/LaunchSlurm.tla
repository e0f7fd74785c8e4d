---------------------------- MODULE LaunchSlurm ----------------------------
(***************************************************************************)
(* A flow that starts a launcher script and waits for the Slurm jobs it     *)
(* submitted (extra/launch_slurm.py), over the runner of SshCommand that    *)
(* executes the script.  The script submits its jobs one by one, then       *)
(* prints a summary with a line per stage, on stdout or stderr; launch_slurm *)
(* parses it, and wait_for_completion awaits the jobs one after the other    *)
(* and publishes the logs of each.  A cleanup job that the script submits as *)
(* well is not in the summary.  A run of the flow that is interrupted       *)
(* in the wait is followed by one with its rerun token, for which the record *)
(* of the launch is replayed and the wait starts again.                     *)
(*                                                                         *)
(* The poll of wait_completion_single is three steps here; SbatchMonitor    *)
(* takes all its calls apart.  Refresh stands for whoever holds the lease.  *)
(***************************************************************************)
EXTENDS SshCommand, SlurmStates, SequencesExt

CONSTANTS
  Jobs,       \* Slurm job ids
  JobStates,  \* the states the jobs go through by themselves
  MaxRuns,    \* bound on the runs of the flow
  MaxFaults,  \* bound on failures while jobs are awaited
  MaxLate     \* bound on refreshes that arrive after a wait has ended

\* A line has a run id and dir (one value, run) and job ids, which matter in
\* the lines that report a submission, of the main jobs ("submitted") or of the
\* cleanup job ("cleanup"), and in those of the summary.
ASSUME LaunchAssumption ==
  /\ \A l \in Lines : l.jobs \in Seq(Jobs)
  /\ JobStates \subseteq SlurmJobState
  /\ MaxRuns \in Nat \ {0} /\ MaxFaults \in Nat /\ MaxLate \in Nat

VARIABLES
  at,         \* where the flow is
  ls,         \* what launch_slurm returned: its slurm_jobs
  run,        \* the number of the flow run
  results,    \* of the wait so far
  told,       \* the state the last wait_completion_single returned
  slurm,      \* job -> its state in Slurm
  killed,     \* jobs an scancel reached while they were not over
  cancelled,  \* flow runs the user cancelled
  var,        \* job -> its status variable, "ABSENT" if there is none
  owner,      \* job -> the flow run in that variable, 0 if there is none
  faults, late

launchVars == <<at, ls, run, results, told, slurm, killed, cancelled, var, owner, faults, late>>
hpc  == <<slurm, killed, cancelled, late>>
vars == <<sshVars, launchVars>>

Submission == [job : Jobs, dir : {l.run : l \in Lines}]
Waiting == {"poll", "scancel", "read", "report"}

TypeOK ==
  /\ SshTypeOK
  /\ at \in {"launch", "announce", "launchError", "raised", "interrupted",
             "waitError", "done"} \cup Waiting
  /\ ls \in Seq(Submission)
  /\ run \in 1..MaxRuns
  /\ results \in Seq([job : Jobs, state : SlurmJobState])
  /\ Len(results) <= Len(ls)
  /\ told \in SlurmJobState \cup {"none"}
  /\ slurm \in [Jobs -> SlurmJobState]
  /\ killed \in SUBSET Jobs
  /\ cancelled \in SUBSET (1..MaxRuns)
  /\ var \in [Jobs -> SlurmJobState \cup {"CANCELLING", "ABSENT"}]
  /\ owner \in [Jobs -> 0..MaxRuns]
  /\ faults \in 0..MaxFaults
  /\ late \in 0..MaxLate

Init ==
  /\ SshInit
  /\ at = "launch"
  /\ ls = <<>>
  /\ run = 1
  /\ results = <<>>
  /\ told = "none"
  /\ slurm = [j \in Jobs |-> "PENDING"]
  /\ killed = {}
  /\ cancelled = {}
  /\ var = [j \in Jobs |-> "ABSENT"]
  /\ owner = [j \in Jobs |-> 0]
  /\ faults = 0
  /\ late = 0

IsOver(j) == slurm[j] \in TerminalStates
Fault == faults < MaxFaults /\ faults' = faults + 1

\* The submissions that lines speak of, in order, with the dir of each line.
Submissions(lines, dirs) == FlattenSeq(
  [k \in DOMAIN lines |->
    [i \in DOMAIN lines[k].jobs |-> [job |-> lines[k].jobs[i], dir |-> dirs[k]]]])

\* Each line has its own dir, or that of the first line is the dir of all.
BySubmission(lines) == Submissions(lines, [k \in DOMAIN lines |-> lines[k].run])
ByFirstLine(lines) == Submissions(lines, [k \in DOMAIN lines |-> lines[1].run])

Saying(what) == {l \in Lines : l.says = what}

\* The main jobs the script has submitted so far; and all that Slurm has of it.
Launched == BySubmission(Only(SubSeq(output, 1, sent), Saying("submitted")))
IsLaunched(j) == \E k \in 1..sent :
  output[k].says \in {"submitted", "cleanup"} /\ \E i \in DOMAIN output[k].jobs : output[k].jobs[i] = j

-----------------------------------------------------------------------------
(* launch_slurm *)

SummaryIn(s) == Only(TextOf(s), Saying("summary"))

\* A bug for the mutants: only stdout is looked at, and only for one line.
FirstLine == IF SummaryIn("out") = <<>> THEN <<>> ELSE <<SummaryIn("out")[1]>>

\* The summary may be on either stream; that on stdout is preferred.
Summary == IF SummaryIn("out") # <<>> THEN SummaryIn("out") ELSE SummaryIn("err")

\* _parse_launch_summary returns neither None nor raises.
WellFormed(lines) ==
  /\ \A k \in DOMAIN lines : lines[k].run = lines[1].run
  /\ \E k \in DOMAIN lines : lines[k].jobs # <<>>

\* What the flow relies on: the lines of a summary name the main jobs in the
\* order they were submitted in (external: the script is not in src/).  That
\* they are of one run is for _parse_launch_summary to see.
ASSUME LauncherAssumption ==
  \A o \in Outputs, s \in Streams :
    LET summary == Only(Only(o, To(s)), Saying("summary"))
    IN  (\E k \in DOMAIN summary : summary[k].jobs # <<>>)
          => BySubmission(summary) = BySubmission(Only(o, Saying("submitted")))

Succeeded == pc = "returned" /\ code = "zero"

\* Every error is returned after an attempt to publish it.
LaunchFails ==
  /\ at = "launch"
  /\ pc \in Over
  /\ ~(Succeeded /\ WellFormed(Summary))
  /\ at' = "launchError"
  /\ UNCHANGED <<sshVars, hpc, ls, run, results, told, var, owner, faults>>

\* The paths of all jobs are built from the one run id and dir.
Parse ==
  /\ at = "launch"
  /\ Succeeded
  /\ WellFormed(Summary)
  /\ ls' = ByFirstLine(Summary)
  /\ at' = "announce"
  /\ UNCHANGED <<sshVars, hpc, run, results, told, var, owner, faults>>

\* The artifact of the launch; the result is recorded when the task returns it.
Announce ==
  /\ at = "announce"
  /\ at' = "poll"
  /\ UNCHANGED <<sshVars, hpc, ls, run, results, told, var, owner, faults>>

\* That call is not guarded: the task raises and nothing is recorded.
AnnounceFails ==
  /\ at = "announce"
  /\ Fault
  /\ at' = "raised"
  /\ UNCHANGED <<sshVars, hpc, ls, run, results, told, var, owner>>

-----------------------------------------------------------------------------
(* wait_for_completion: a wait_completion_single for one job after another. *)

Awaited == ls[Len(results) + 1].job
Mine == {j \in Jobs : var[j] # "ABSENT" /\ owner[j] = run}

DeleteVar(j) ==
  /\ var' = [var EXCEPT ![j] = "ABSENT"]
  /\ owner' = [owner EXCEPT ![j] = 0]

\* The cancellation guard lists and marks the jobs of this flow run; when it
\* finds none, or does not see the signal, the poll goes on.
Guard ==
  /\ at = "poll"
  /\ IF run \in cancelled /\ Mine # {}
       THEN /\ at' = "scancel"
            /\ var' = [j \in Jobs |-> IF j \in Mine THEN "CANCELLING" ELSE var[j]]
       ELSE at' = "read" /\ UNCHANGED var
  /\ UNCHANGED <<sshVars, hpc, ls, run, results, told, owner, faults>>

GuardBlind ==
  /\ at = "poll"
  /\ Fault
  /\ at' = "read"
  /\ UNCHANGED <<sshVars, hpc, ls, run, results, told, var, owner>>

\* scancel, and the wait is told CANCELLED at once.
ScancelAndFold ==
  /\ at = "scancel"
  /\ killed' = killed \cup {j \in Mine : ~IsOver(j)}
  /\ DeleteVar(Awaited)
  /\ told' = "CANCELLED"
  /\ at' = "report"
  /\ UNCHANGED <<sshVars, ls, run, results, slurm, cancelled, faults, late>>

\* A bug for the mutants: a job without a variable is waited for all the same.
ReadOnly ==
  LET s == var[Awaited] IN
  /\ at = "read"
  /\ IF is_terminal_state(s)
       THEN DeleteVar(Awaited) /\ told' = s /\ at' = "report"
       ELSE UNCHANGED <<var, owner, told>> /\ at' = "poll"
  /\ UNCHANGED <<sshVars, hpc, ls, run, results, faults>>

\* A missing variable is inserted in the name of this flow run; the others are
\* waited on until they hold a final state.
ReadVar ==
  LET s == var[Awaited] IN
  /\ at = "read"
  /\ \/ /\ s = "ABSENT"
        /\ var' = [var EXCEPT ![Awaited] = "PENDING"]
        /\ owner' = [owner EXCEPT ![Awaited] = run]
        /\ at' = "poll"
        /\ UNCHANGED told
     \/ /\ is_terminal_state(s)
        /\ DeleteVar(Awaited)
        /\ told' = s
        /\ at' = "report"
     \/ /\ s # "ABSENT" /\ ~is_terminal_state(s)
        /\ at' = "poll"
        /\ UNCHANGED <<var, owner, told>>
  /\ UNCHANGED <<sshVars, hpc, ls, run, results, faults>>

\* A bug for the mutants: a cancelled job ends the loop.
PublishOrBreak ==
  /\ at = "report"
  /\ results' = Append(results, [job |-> Awaited, state |-> told])
  /\ told' = "none"
  /\ at' = IF Len(results') = Len(ls) \/ told = "CANCELLED" THEN "done" ELSE "poll"
  /\ UNCHANGED <<sshVars, hpc, ls, run, var, owner, faults>>

\* The logs are fetched and published, and the next job is awaited.
Publish ==
  /\ at = "report"
  /\ results' = Append(results, [job |-> Awaited, state |-> told])
  /\ told' = "none"
  /\ at' = IF Len(results') = Len(ls) THEN "done" ELSE "poll"
  /\ UNCHANGED <<sshVars, hpc, ls, run, var, owner, faults>>

\* scancel fails, perhaps after it reached some jobs, or the server is away for
\* too long: an OpError is returned, and recorded as the result of the task.
WaitFails ==
  /\ at \in {"poll", "scancel", "read"}
  /\ Fault
  /\ \E reached \in SUBSET (IF at = "scancel" THEN Mine ELSE {}) :
       killed' = killed \cup {j \in reached : ~IsOver(j)}
  /\ at' = "waitError"
  /\ UNCHANGED <<sshVars, ls, run, results, told, slurm, cancelled, var, owner, late>>

\* The process dies, or fetching or publishing the logs raises.
Interrupt ==
  /\ at \in Waiting
  /\ Fault
  /\ at' = "interrupted"
  /\ UNCHANGED <<sshVars, hpc, ls, run, results, told, var, owner>>

\* A bug for the mutants: the rerun goes on after the jobs already awaited.
ResumeAfter ==
  /\ at = "interrupted"
  /\ run < MaxRuns
  /\ run' = run + 1
  /\ at' = IF Len(results) < Len(ls) THEN "report" ELSE "done"
  /\ told' = "COMPLETED"
  /\ UNCHANGED <<sshVars, hpc, ls, results, var, owner, faults>>

\* The rerun: launch_slurm is replayed, wait_for_completion starts again.
Rerun ==
  /\ at = "interrupted"
  /\ run < MaxRuns
  /\ run' = run + 1
  /\ at' = "poll"
  /\ results' = <<>>
  /\ told' = "none"
  /\ UNCHANGED <<sshVars, hpc, ls, var, owner, faults>>

-----------------------------------------------------------------------------
(* The user, Slurm and the other waits on this hpc. *)

\* During the launch nobody looks at the flow run's state.
UserCancels ==
  /\ at \in {"announce"} \cup Waiting
  /\ run \notin cancelled
  /\ cancelled' = cancelled \cup {run}
  /\ UNCHANGED <<sshVars, at, ls, run, results, told, slurm, killed, var, owner, faults, late>>

SlurmStep(j) ==
  /\ IsLaunched(j)
  /\ ~IsOver(j)
  /\ \E s \in (JobStates \ {slurm[j]}) \cup (IF j \in killed THEN {"CANCELLED"} ELSE {}) :
       slurm' = [slurm EXCEPT ![j] = s]
  /\ UNCHANGED <<sshVars, at, ls, run, results, told, killed, cancelled, var, owner, faults, late>>

\* A refresh does not list marked jobs.
Refresh(j) ==
  /\ var[j] \notin {"ABSENT", "CANCELLING", slurm[j]}
  /\ var' = [var EXCEPT ![j] = slurm[j]]
  /\ UNCHANGED <<sshVars, hpc, at, ls, run, results, told, owner, faults>>

\* One that had listed the job before its wait ended, or before it was marked,
\* writes it again.
LateWrite(j) ==
  /\ late < MaxLate
  /\ late' = late + 1
  /\ \/ /\ \E k \in DOMAIN results : results[k].job = j
        /\ var[j] = "ABSENT"
        /\ owner' = [owner EXCEPT ![j] = run]
     \/ var[j] = "CANCELLING" /\ UNCHANGED owner
  /\ var' = [var EXCEPT ![j] = slurm[j]]
  /\ UNCHANGED <<sshVars, at, ls, run, results, told, slurm, killed, cancelled, faults>>

FlowStep ==
  \/ LaunchFails \/ Parse \/ Announce
  \/ Guard \/ ScancelAndFold \/ ReadVar \/ Publish \/ Rerun

RunCommand == SshNext /\ UNCHANGED launchVars

Next ==
  \/ RunCommand
  \/ LaunchFails \/ Parse \/ Announce \/ AnnounceFails
  \/ Guard \/ GuardBlind \/ ScancelAndFold \/ ReadVar \/ Publish
  \/ WaitFails \/ Interrupt \/ Rerun \/ UserCancels
  \/ \E j \in Jobs : SlurmStep(j) \/ Refresh(j) \/ LateWrite(j)

\* The flow's process runs on, jobs end, and somebody refreshes the variables.
Fairness ==
  /\ SshFairness
  /\ WF_vars(FlowStep)
  /\ \A j \in Jobs : WF_vars(SlurmStep(j)) /\ WF_vars(Refresh(j))

LaunchSpec == Init /\ [][Next]_vars /\ Fairness

-----------------------------------------------------------------------------
(* Properties. *)

\* What launch_slurm returns is every main job the script submitted, in order
\* and with the dir its logs are in; when a lost connection cut the summary off,
\* the first of them.  The cleanup job is not known (launch_slurm.py 56-60,
\* 153-183, 424-439).
LaunchIsKnown ==
  at = "announce" =>
    /\ Len(ls) <= Len(Launched)
    /\ \A k \in DOMAIN ls : ls[k].job = Launched[k].job
    /\ dropped \/ ls = Launched

\* The results are those of the jobs in order, and each is the state Slurm
\* ended the job in, or tells of a cancellation (launch_slurm.py 476-551).
ResultsAreTrue ==
  \A k \in DOMAIN results :
    /\ results[k].job = ls[k].job
    /\ \/ results[k].state = slurm[results[k].job] /\ IsOver(results[k].job)
       \/ results[k].state = "CANCELLED" /\ run \in cancelled

\* A wait that returns leaves no job it knows of running: those that come after a
\* cancellation are still awaited, and so cancelled (launch_slurm.py 493-503),
\* unless a late write gave the guard a job that was over to cancel.  And it
\* leaves no status variable, not even of an earlier run, but those of late
\* writes (_sbatch.py 518-519).
WaitLeavesNothing ==
  at = "done" =>
    /\ late = 0 => \A k \in DOMAIN ls : IsOver(ls[k].job) \/ ls[k].job \in killed
    /\ Cardinality({j \in Jobs : var[j] # "ABSENT"}) <= late

\* Every wait ends, cancelled or not, in the first run or a rerun, unless the
\* run before it died between the mark and the fold.
WaitEnds ==
  at \in Waiting ~>
    at \notin Waiting \/ (var[Awaited] = "CANCELLING" /\ owner[Awaited] # run)

\* _sbatch.py 650-652: "its jobs (including this one) have been committed to
\* scancel", which a late write for a job that is over makes untrue.
NothingRunsOn ==
  at = "done" => \A k \in DOMAIN ls : IsOver(ls[k].job) \/ ls[k].job \in killed

\* launch_slurm's record is what keeps a rerun from launching again
\* (README.md 159): "the job is not re-submitted".  The artifact may fail first.
LaunchIsRecorded == at = "raised" => Launched = <<>>

\* Every error of a launch: no job runs that the flow does not know of.
FailedLaunchIsClean == at = "launchError" => Launched = <<>>
=============================================================================
