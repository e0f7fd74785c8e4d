# A TLA+ model of hpc-relay

`hpc_relay` lets Prefect flows run commands and Slurm jobs on remote HPCs. This
directory specifies its core logic in TLA+, model-checks it with TLC on small
instances and proves its safety with TLAPS for every instance: monitoring,
resumption, outages, the command runners and their refinement of one contract. Paths are relative to the repository; `_sbatch.py`, `slurm.py`, ...
are in `src/hpc_relay/`.

## The system

| Part | Code | State it keeps | What happens to it |
|---|---|---|---|
| Waiting for Slurm jobs | `_sbatch.py` 81-109, 304-336, 470-812 | on the Prefect server: a status variable per job, a lease variable and a one-slot concurrency limit per hpc; per task: the outage clock and the backoff | the poll loop of every waiting task: cancellation guard, shared `sacct` refresh, read of the own status |
| Submitting and resuming | `_sbatch.py` 137-301, 344-425, `prefect.py`, `run.py` | Prefect's result cache, keyed by rerun token (or flow run), task name and parameters | `sbatch`, `sbatch_try`, `sbatch_submit`, `run`, `run_try`: look up, run, persist, replay after a crash |
| Slurm access | `slurm.py` | none between calls (`await_completion` keeps the jobs it saw end) | `submit_slurm`, `get_slurm_job_states`, `await_completion` |
| Launcher scripts | `extra/launch_slurm.py` | the parsed summary of a launcher run, the results of the jobs awaited so far | `launch_slurm` runs a script and reads the job ids it printed, `wait_for_completion` awaits them one after the other |
| Command runners over a service | `cmd_runners/` | `_cscs_firecrest.py`: client and the signature of its credentials; `_jsc.py`: a UNICORE job and read offsets; `_ecmwf_ecaccess.py`, `ecmwf_ecaccess_perl.py`: a session token, temporary files, handles, a remote job | `run` a command and return its output or an error |
| Command runners over a shell | `_generic.py`, `_cineca.py`, `_simple.py`, `_local.py`, `_exec_cmd.py` in `cmd_runners/` | a connection or a child process while a command runs | the same, chosen by the type of the context |
| ECaccess commands | `main` of `ecmwf_ecaccess_perl.py` | a session token and what one command opens | submit, delete, restart, list and read jobs by hand |
| Token script | `scripts/token_jsc.py` | the token file that the JSC runner reads | mint a token and save it |
| Results and errors | `result.py`, `cmd_runners/_types.py` | none | `is_err`, `try_run`, `unwrap`, quoting |
| Examples and other scripts | `examples/`, `scripts/check_headers.py`, `scripts/ecaccess.py` | none | a demonstration, a licence check, a wrapper that calls `main` |

The parts meet as follows. A flow (`prefect.py`) calls the tasks of
`_sbatch.py`, `run.py` and `extra/launch_slurm.py`; these build a command runner
from a `CmdContext` and run shell commands through it, directly or through
`slurm.py`. Tasks of all flows and processes that wait for a job on the same hpc
cooperate only through the Prefect server: whoever finds the lease expired
calls `sacct` for every job that has a variable and writes everyone's status.

What is hard in it:

- the monitoring is a distributed algorithm whose every step is a call that may
  fail or lose its reply, whose processes may die, and whose read-modify-write
  steps (`_set_status`) and refreshes (list, `sacct`, write) are not atomic;
- cancellation races with the refreshes, with other guards of the same flow and
  with the end of the jobs;
- a rerun must replay what succeeded, repeat what did not, and never submit a
  job twice, although a crash may come between the submission and its record;
- the runners turn asynchronous services (ECaccess, UNICORE, FirecREST) into a
  blocking `run`, with credentials that change, outputs that are read in pieces
  and jobs and files that have to be cleaned up;
- a command over SSH prints on two streams that share one window while its
  connection may be lost, silently or not, at any moment;
- a launcher starts jobs that the flow learns of only from what it printed, and
  awaits them one after the other while it may be cancelled or interrupted.

Per component, what makes it correct:

- waiting: the reported state is the final one; one refresher per lease; a
  cancellation reaches the flow's jobs, all of them and no others; every wait
  ends; the variables disappear with the waits;
- resuming: at most one submission of a job but for the window between `sbatch`
  and the record of its job id; nothing that failed is replayed;
- Slurm access: `await_completion` returns only final states, in the order asked;
  parsing ignores rows of other jobs; no accepted job is forgotten;
- runners: the output returned is that of the command run; credentials in use are
  those on disk; no remote job, temporary file, token or connection outlives the
  call; every call returns;
- launchers: the jobs awaited are the main jobs the script submitted; each result is
  the end of its job or its cancellation; a wait that returns leaves none of them
  running and no variable.

## The plan

Done, in this order:

1. `SlurmStates`, `SbatchMonitor`, the abstract `JobWatch` it implements, and
   `SbatchMonitorProofs`.
2. `RerunCache` and `RerunCacheProofs`: cache keys, eager commit, replay, crash
   windows, over several runs that share a rerun token.
3. `OutageTolerance` and `OutageToleranceProofs`: the outage clock and the
   backoff of `wait_completion_single`, in seconds.
4. `SlurmCommands`: `submit_slurm`, `get_slurm_job_states`, `await_completion`.
5. `CommandRun`, the contract of a runner, and the three runners that keep state
   while a command runs: `JscCommand`, `FirecrestRunner`, `EcaccessCommand`.
6. `SshCommand` and, over it, `LaunchSlurm`: the SSH and local runners, the
   summary parser and `wait_for_completion`.
7. `JscToken`, the token script around a run of `JscCommand`; the commands of
   `main` in `EcaccessCommand`.
8. The proofs about the runners, `SshCommand` under `LaunchSlurm`, and
   `SlurmCommands`; replay and retried errors in `RerunCacheProofs`.
9. The proofs about output and the launcher flow in `LaunchProofs`, and the fold
   of a cancelled flow in `SbatchMonitorProofs`.

Left, and why: liveness, which the prover does not do. Every safety invariant
and action property that a run checks is stated by a theorem. Some theorems have
hypotheses of their own, which the code does not always meet: `FoldIsThorough`,
`SubmittedOnce`, `FreshRunsAreApart`, `RerunsReplay` and `ErrorsAreRetried`.

## The modules

| Module | Models |
|---|---|
| `SlurmStates` | the table of Slurm states of `slurm.py` and `is_terminal_state` |
| `JobWatch` | abstract: each task watches Slurm and its own flow run alone |
| `SbatchMonitor` | `wait_completion_single` and everything it calls, with the environment |
| `RerunCache` | the tasks of `_sbatch.py`, `run.py` and `prefect.py` around Prefect's result store |
| `OutageTolerance` | when `wait_completion_single` gives up |
| `SlurmCommands` | `submit_slurm`, `get_slurm_job_states`, `await_completion` |
| `CommandRun` | abstract: what `CommandRunner.run` promises |
| `JscCommand` | one run of the JSC runner over UNICORE |
| `JscToken` | the token file, the script that writes it, and that run |
| `FirecrestRunner` | several runs of one FirecREST runner while its credentials change |
| `EcaccessCommand` | one run of the ECaccess runner, or one command of its client's `main` |
| `SshCommand` | one run of the generic, CINECA, simple or local runner |
| `LaunchSlurm` | `launch_slurm` over such a run, and `wait_for_completion` |
| `MC...` | the constants of the runs, one for each module with a run |
| `...Proofs` | the TLAPS proofs: `SbatchMonitor`, `RerunCache`, `OutageTolerance`, `SlurmCommands` (`SlurmProofs`), `JscToken` (`JscProofs`), `FirecrestRunner`, `EcaccessCommand`, `LaunchSlurm` (`LaunchProofs`) |

### SbatchMonitor

One hpc. A task of `Tasks` is one call of `wait_completion_single`: it waits for
`TaskJob[t]` in the flow run `TaskFlow[t]`. Tasks in `Submitters` come from
`_sbatch_try`, which inserts the status variable first; the others come from
`wait_for_completion` of a launcher and find no variable. Two tasks with one job
model a resumed run that awaits a job of the earlier one: its submission is
replayed, so it too starts at the insertion.

The state on the server is `status` and `owner` (a status variable and the
`flow_run_id` in it), `lease` (`"fresh"` until `lease_expires_at`), `slots` (the
holder of the concurrency limit). `slurm` is what `sacct` would print,
`"NORECORD"` while the job is too new; `killed` records which jobs an `scancel`
reached before they were over, for the properties only. Each task has a `pc`
that names its next call, the ids of a command (`ids`), the ids still to write
(`todo`), the states `sacct` printed (`snap`), the owner read by `_set_status`
(`own`) and the state to return (`got`).

One action is one call to the server or the hpc, so anything may come between
two calls:

| Code | Actions |
|---|---|
| `_sbatch_try` 377-396 | `InsertRead`, `InsertWrite` (the artifact created next only adds a way to fail, the same as a lost reply) |
| `_flow_cancellation_guard` | `GuardCheck`, `GuardBlind`, `GuardList`, `MarkRead`, `MarkWrite`, `Scancel`, `ScancelFails` |
| `_try_update_status` | `CheckLease`, `Acquire`, `Recheck`, `WriteLease`, `Release`, `ListRunning`, `Sacct`, `SacctFails`, `ApplyRead`, `ApplyWrite` |
| `_poll_completion_once` | `Fold`, `ReadStatus`, `ReinsertRead`, `ReinsertWrite`, `Report` |
| `wait_completion_single` 603-626 | `CallFails` (no effect on the server), `ReplyLost` (the effect happened) |
| environment | `SlurmStep`, `LeaseExpires`, `SlotExpires`, `UserCancels`, `Crash` |

Abstractions. Time is not counted: the lease may expire at any moment, a slot
whose holder is not inside it (dead, or its reply was lost) may be taken back
at any moment, and an exception that leaves an iteration may be tolerated or end
the wait: it is not told whether it is one of an outage, nor how long that lasts
(`OutageTolerance`). An `scancel` that fails may have reached any of its jobs. A live holder never loses the slot: Prefect renews the 180 s
concurrency lease in the background, so only a suspended process could. The
state of a job may be read and be stale at once, but a final state is final:
that is Slurm's own promise, stated at `slurm.py` 142. Malformed variables
(skipped by the code) and the absence of a flow run (unit tests) are left out.

### JobWatch

A task is `waiting` until it is told the state its job ended in, or that it was
`cancelled` with its flow run, or it `gaveup`; `scancel` reaches a job only when
a cancelled flow run awaits it. `SbatchMonitor!Outcome` maps a task's `pc` and
`got` to that.

### RerunCache

A flow is a sequence of calls, `Op` and `Spec`; each run of `Runs` makes them in
order under the token it is given (or under its own short id). `store` is what
Prefect persisted, by key: token, task name, parameters. `_sbatch_submit_async`
has keys of its own, under which the submission nested in `sbatch`, `sbatch_try`
and `sbatch_submit` is committed at once. `told` is the state a run's last wait
returned, `cancelled` the runs the user cancelled. `doneFor` and `doneBy` say for which
key and by which run each thing was done on the hpc; `returned`, `lost` and
`expired` are histories for the properties.

| Code | Actions |
|---|---|
| `prefect.task`, the key function | `Begin`, `ReplayCall`, `EnterBody`, `ReplaySubmission` |
| `_sbatch_submit_async` | `Submit`, `Accept`, `RecordSubmission` |
| `sbatch`, `sbatch_try`, `sbatch_submit` | `WaitEnds`, `WaitFolds` (the guard of a cancelled run, `_sbatch.py` 646-655), `Conclude` |
| `run`, `run_try`, `launch_slurm` | `Execute`, `RecordCommand` |
| any of them raises, the process dies | `CallFails`, `Crash` |
| environment | `JobEnds`, `UserCancels`, `Expire` |

Abstractions. What Prefect does with a task and its result is external: look
up, run, store what was returned, store nothing when it raised. A flow makes its
calls one after the other; calls made concurrently with `.submit` behave like
overlapping runs that share a token (`MayOverlap`). What a wait returns is that of
`SbatchMonitor`: the end of its job (`ReportedStateIsFinal`) or, in a cancelled run,
`CANCELLED` while the job may run on or have ended otherwise. A non-zero exit code is a
result, as in the code; the nested `run` that fetches the head and tail of a
log only adds a way to fail. The empty token is falsy, hence no token.

### OutageTolerance

The clock counts seconds since the last complete iteration. `Raised(d)` is an
iteration that raises after `d` seconds: it starts or continues the outage, and
gives up or doubles the backoff; `Complete` is one that does not, and ends the
outage; `WakeUp(s)` ends a sleep during which the machine was suspended for `s`
seconds.

### SlurmCommands

A caller submits jobs with `submit_slurm` until one is refused, then awaits them
with `await_completion`, perhaps naming one twice. `Submit`, `SubmitRefused`
and `SubmitFails` are the outcomes of a submission: a job that is not
valid, `sbatch`'s answer (`Submitted`, `Answered`), a failed command. `Poll` picks the
jobs not yet seen over, `Sacct` parses the table (`States`) and
fails for a job without a row, `SacctFails` is a failed command.

Abstractions. A job is new to `sacct` at first and may be purged from it in the
end. What makes a job valid and the options on the command line are data; words of `sbatch`'s answer that are
not its job id are not numbers; the return code of `sacct` is not looked at by
the code, so a failed one is a table with rows missing.

### CommandRun and the runners

`CommandRun` has a call (`phase`), the command's effect on the hpc, and what a
result says of it: the command starts at most once, and a result is returned
only when it has ended, and is its own or unknown. An error may come at any time.
Each runner has a refinement mapping `Run` at the end of its module.

`JscCommand`: `NewJob` creates the UNICORE job, `Look` and `PollStatus` read its
status, `Drain` reads all of stdout, decodes it and appends what lies beyond the
offset, `ReadStderr` and `MakeResult` build the result and `Delete` deletes the
job. `CharEnd` gives the last byte of each character printed, so a read may end
inside one; `Decode` then yields a replacement character. Each request may fail
(`RequestFails`), and its answer be lost.

`FirecrestRunner`: `Construct` and `Call` hash the credential files one by one
(`HashFile`; `HashRaises` if one is removed just then), `Compare` keeps the signature and decides about a new client,
`ReadFile` reads the files again for it, `Built` replaces it. `GetScratchDir`,
`Submit`, `WaitEnds` and `View` (stdout, stderr, exit code) are `_run`;
`ViewDropped` is the one retry of a view on a dropped connection. `Rotate` is
the user: a file gets its next version, or is gone, empty or back.

`JscToken` adds the token. `LoadToken` reads the file once per run; a request with
a token that is not accepted is `Refused`, and so, later, is the deletion of the
job. The script is `StartScript`, `DiscoverSites`, `CreateToken`, `OpenFile`,
`WriteToken`, and may stop before each (`ScriptStops`); `open(path, "w")` truncates,
so there is a moment at which the file is empty. Tokens are numbered as they are
issued; `Expire` ends one. Abstractions: one script at a time; a token is
accepted on every site; whether it is renewable is one of the reasons for which the
gateway refuses; the text is short enough for one write at the close.

`EcaccessCommand`: `op` is `run` or a command of `main`. One action for each call of
the client, from `Authenticate` through the upload of the script (or `CopyFile`, of a
distant one), `SubmitJob`, the polls and the reads of the two outputs to
`ReleaseToken`; `DeleteJob`, `RestartJob` and `List` are the calls only `main` makes.
`excused` records what a failed call itself left behind. `CallFails` fails any
call before or after the gateway carried it out; an answer may also be empty, so
that the job id is unknown and the poll looks at the jobs of the user
(`Listed`). Assumed of the gateway: it gives no handle for an empty or a
vanished job id. A user who restarts a job of the runner while it is polled is
left out.

### SshCommand

`get_command_runner` picks `runner` from the context. The generic and the CINECA
runner read stdout to its end (`Read`, `EndOfOutput`), then stderr, then the exit
status (`RecvExitStatus`) of a paramiko channel whose `Window` both streams share;
the simple and the local one let `subprocess.run` read both at once. `output` is
what the command prints when nothing stops it, a sequence of lines for one stream
or the other; `Write` is a line of it, and blocks while there is no room. `Die` is a
command that is killed or gives up, `Drop` a loss of the connection, with any part
of what was under way; the exit status may have arrived before the output, and
lines that arrived be lost. `Notice` is the transport that finds out, which it
need not: the runners set neither a timeout nor a keepalive. Every step of the
runner that may raise has a counterpart that does (`ConnectFails`, `ExecFails`,
`Undecodable`, ...). `is_connection_closed` is the heuristic of `_generic.py`
62-112, which the CINECA and the simple runner use.

### LaunchSlurm

The script runs as the command of `SshCommand`. A line has what it says, a run id and
job ids; a line that says `submitted` is the moment `sbatch` accepted them, one
that says `cleanup` the same of the cleanup job, one that says `summary` is for the
parser. The cleanup job is in no summary (`launch_slurm.py` 56-60), so the flow
never knows, awaits or cancels it; `Launched` is the main jobs. `Parse` and `LaunchFails` are the outcomes
of `launch_slurm`, `AnnounceFails` the artifact call that is not guarded.
`wait_for_completion` is a loop of `Guard`, `ScancelAndFold`, `ReadVar` and `Publish`
for one job of `ls` after the other. Here a poll is three steps: `SbatchMonitor`
takes its calls apart, so a refresh by whoever has the lease is one step
(`Refresh`), but a late one may write again the variable of a wait that is over
or of a job that was marked since (`LateWrite`). `Interrupt` and `Rerun` are a run that dies and one with its token,
to which the launch is replayed.

Abstractions. All jobs are of this launcher. The poll is coarser than in
`SbatchMonitor`, and the calls in it that fail are one (`WaitFails`). What scripts
print is `Outputs`; that the lines that report a submission tell all of them is
how a test knows, not the code, and only properties use it. The script itself is
not in `src/`: `LauncherAssumption` says what the flow relies on, that the lines of
a summary name the main jobs in the order they were submitted in. It does not say that
they are of one run, that a connection lets all of them through, or that the
cleanup job is among them. A lost connection cuts the output between lines; within
one, it could shorten a `dir`, which the code would not notice. The short
id of a run is taken to be unique.

## The runs

| Run | Instance | Shows |
|---|---|---|
| `two_flows` | two flow runs, a job each, both may be cancelled, 1 fault | final states reported, one refresher per lease, no foreign `scancel`, a fold leaves nothing running |
| `resumed` | one job awaited by its submitter and by another flow run, 2 faults | the refinement of `JobWatch` |
| `live_wait` | a submitted and an external job, no cancellation, 1 fault | every wait ends |
| `live_cancel` | one flow run with two jobs that may run for ever | its tasks fold and their jobs are cancelled or over |
| `rerun` | a fresh run, its rerun, another fresh run; four calls each, 1 fault, 1 expiry, the first two may be cancelled | nothing recorded is done twice, what is returned is the end of its job or tells of a cancellation and is replayed, no error is replayed, fresh runs are apart |
| `outage` | the code's 5, 300 and 60 s; iterations of 0, 1 and 30 s; naps up to 7 s late | giving up comes neither before the tolerance nor long after it |
| `slurm` | two of three jobs, one perhaps named twice, 1 fault | final states in the order asked, no accepted job forgotten, a purge does no harm, every await ends |
| `jsc` | three characters in four bytes, 2 new tokens, 2 calls of the script, 1 expiry, 1 fault | stdout in order and, if the last read went through, complete; the job deleted; rotations seen and the saved token kept; every run ends; refinement of `CommandRun` |
| `firecrest` | two commands, two files, each with a second version, 2 faults | the client follows the files, refinement of `CommandRun` |
| `ecaccess` | one run or one command of `main`, 3 faults | the whole script runs or none of it, nothing is left, the run ends, refinement of `CommandRun` |
| `launch` | four runners, seven scripts, a window of 2 lines, two jobs, two runs of the flow, 1 fault, 1 late write | a zero is that of a complete command, every command returns, connections are closed, the main jobs are known, results are true, a wait leaves none of them and ends, refinement of `CommandRun` |
| `fold_external` | a job awaited by an external waiter, cancelled | the code does not do what its comment says, see below |

Bounds. `MaxFaults` counts failed calls, lost replies and crashes together. In
the monitor two tasks are enough for one to be refresher, guard or dead process
to the other, and every race known is between two; two jobs make lists and
orders of writes non-trivial. A job has no record, then is `COMPLETING`, then
`COMPLETED`: the monitor distinguishes no more. A lease and a slot may expire at
every step, so no window is too short to be seen. In `rerun` the second run may
meet every prefix of what the first one stored; there are five job ids, and they
are symmetric. In
`outage` the three durations are an immediate refusal, a slow one and a timeout.
In `jsc` reads may end in every byte, and the script may mint a token from the
old one, from a newer one or from a password, before, while and after the run
reads the file; in `firecrest` a file changes between any
two steps of a run, and two faults are what it takes for the retry of a view to
fail too; in `ecaccess` three faults are a failed call and two failed calls of
the clean-up. In `launch` a window of two lines is filled by the scripts that
print three; the scripts put the summary on either stream, submit a cleanup job, mix two runs, name no
job, print none, speak of a closed connection, or print more on stderr than
the window holds, and an interrupted wait has one rerun. `slurm` has a third id, for a submission that would be made again, and
`sacct` always prints a row that nobody asked for. `CHECK_DEADLOCK FALSE` stands where the system stops: every call has
returned, or a bound is reached. The monitor stutters explicitly when all is over.

Fairness. `WaitFairness`: an event loop keeps running its tasks (weak fairness
of a task's next call); the lease expires by the clock and the server takes
abandoned slots back (weak); the server serves a free slot to a task that keeps
asking, for which strong fairness is needed because another task may take the
slot in between: the client retries until it gets it, there is no queue, so this
is the assumption that no task always loses. `SlurmFairness`: Slurm ends every
job. `live_cancel` does without it, since a cancelled flow must not wait for its
jobs. `FairSlurmCommandsSpec`: the event loop runs the caller, and Slurm ends
every job. `FairEcaccessSpec`: the client makes its next call (it is
sequential code), its own job ends, and so does the user's other job.
`JscFairness`: the process of the run
goes on, and the job starts, writes and ends; the token script is never fair.
`SshFairness`: the runner's thread goes on and a command that is not blocked writes
and exits; nobody has to notice a lost connection, which is why
`EveryCommandReturns` excepts it. `Fairness` of `LaunchSlurm` adds the flow, Slurm and
the refreshes. Faults, crashes, cancellations and purges are never fair. The
other specifications state safety only and no fairness.

### What the code does not do

`fold_external` is a run; PROJECT.json quotes the lines it disagrees with. The
other configurations named here are in this directory, and TLC finds each
violated in the same way (`tlc -config X.cfg MC...`).

Monitoring (`MCSbatchMonitor`):

- `fold_external`, `fold_limit`: a task folds when its flow's guard cancelled
  *some* job. If its own was not among them (no variable yet, or beyond the 200;
  `fold_limit` sets `NumReads` to 1 with two jobs) it reports `CANCELLED` and
  its job runs on.
- `two_saccts`: `sacct` runs outside the slot under a 20 s lease that nobody
  renews. A slower `sacct` overlaps with the next.
- `marker_lost`: a refresh writes the answers of a list that is as old as the
  `sacct` command, over a `CANCELLING` marker set meanwhile. The owner is kept,
  so the fold itself still works (`two_flows`, `live_cancel`).
- `variable_leak`: the same late write re-creates the variable of a job whose
  wait is over. Nobody removes it.
- `cancel_resumed`: the variable of a resumed job still names the crashed run, so
  cancelling the resumed run does nothing.
- `stale_marker`: a variable left `CANCELLING` by a run that died is never
  refreshed; an external waiter of another run polls for ever.

With cancellation *and* a lost reply `EveryWaitEnds` fails in rarer ways of the
same kind (a leaked variable taken over by another cancelled flow), which is why
`live_wait` allows no cancellation and `live_cancel` no fault.

Resuming (`MCRerunCache`):

- `error_replayed` (with `-continue`, for both of its invariants): `run_try` returns
  its `OpError`, which is stored and replayed by every rerun, as those of
  `launch_slurm` are; `sbatch_try` avoids just that (`NoErrorReplayed`). And the wait
  of a cancelled run returns `CANCELLED` without asking what became of the job;
  `sbatch_try` returns and stores that, so a rerun is answered `CANCELLED` although
  the job completed, or runs on (`FinalStateReturned`).
- `fresh_repeats`: in a run without a token, a second call with the same
  parameters is answered from the first, because the key falls back to the short
  id of the run; `prefect.py` 97-99 says that it runs.
- `failed_job`: `sbatch` raises for a job that `FAILED`; the rerun finds the
  submission stored, awaits the same job and raises again. README 160 promises a
  fresh try.

Outages (`MCOutageTolerance`): `laptop_sleep`: the clock runs on while a laptop
sleeps in the middle of an outage, so the first failure after it is the last,
although the docstring (`_sbatch.py` 597) counts such sleep as tolerated.

FirecREST (`MCFirecrestRunner`):

- `stale_client`: the new signature is kept before the client is built. If
  building raises, because a file was missing or empty at that moment, and the
  file is back with the same bytes, the old client is used from then on.
- `firecrest_raises`: that exception, or one of a file removed while it is hashed,
  leaves `run`, which is to return errors.

JSC (`MCJscCommand`): `rotation_gap`: the script truncates the token file before it
writes it, so a run that starts in between fails with an empty token although
both the old one and the new one are accepted (`_jsc.py` 108-109).

SSH and launchers (`MCLaunchSlurm`):

- `ssh_deadlock`: a command that fills the window with stderr while its stdout is
  being read blocks, and so does the runner, for ever. Comments in `_generic.py`
  and `_cineca.py` say that reading first avoids deadlocks; it avoids the one
  between reading and waiting for the status only. `Fits` is the premise under
  which every command returns.
- `generic_dropped`: the generic runner has no heuristic for closed connections and
  returns -1 as an exit code while the command may be running.
- `lost_launch` (with `-continue`, for both of its invariants): every error of a
  launch (a summary that is cut off, mixes runs or names no job, a non-zero exit)
  leaves the jobs submitted so far running and unknown to the flow
  (`FailedLaunchIsClean`). And the artifact of a launch is created outside any
  guard, so the task may raise after the jobs were submitted, and the rerun
  launches again (`LaunchIsRecorded`).
- `late_write`: a late refresh re-creates the variable of a job that is over; a guard
  of the cancelled flow finds just that one, cancels it, and the wait folds for a
  job whose own variable was not inserted yet, which runs on.

Stated, without a configuration of their own: a character of stdout that a read
of the JSC runner cut in two stays replaced, and a failed last read returns a
truncated stdout (`StdoutIsFaithful` allows just that); the ECaccess runner leaves
the temporary file and the upload handle after a failed submission
(`NothingIsLeft` promises them only after a result) and never cancels its job;
`await_completion` fails at once for a job too new for `sacct`
(`FailsOnlyForUnseen` allows it; a TODO at `slurm.py` 239 knows of it). A rerun
after a run that died between marking its variables and folding may wait for ever
on a `CANCELLING` of the dead run; `WaitEnds` excepts it.

## The proofs

All theorems hold for any values of the constants under the named `ASSUME`s of
the module, which TLC evaluates in every run of it. Five have hypotheses besides:
`FoldIsThorough` (three, given below), `SubmittedOnce`, `FreshRunsAreApart` and
`RerunsReplay` (`~MayOverlap`), `ErrorsAreRetried` (a flow without `run_try` and
`launch_slurm`, `ErrorsRaise`).

### SbatchMonitorProofs

For any sets of jobs (natural numbers), flow runs and tasks, any assignment of
tasks to jobs and flow runs, any `NumReads` and any number of faults:

- `TypeCorrect`: the type invariant. It is not inductive alone: a refresh may
  only write what `sacct` printed, which is `SnapComplete`.
- `Safety`: `SafetyInv`, from which `ReportedStateCorrect`, `LeaseExclusive` and
  `NoForeignCancellation` follow.
- `MonitorImplementsJobWatch`: every step is a step of `JobWatch` or a stutter.

The argument. *Final states*: whatever final state is written in a variable, in
the answer of an `sacct` or in the hands of a reporting task is Slurm's
(`FinalStatus`, `FinalSnap`, `FinalGot`); since Slurm never leaves it, lateness
does no harm. *Slot*: a task inside it is its only holder, and only a holder
makes the lease fresh (`SlotExcludes`). *Owners*: call a job settled when it is
over or a flow run that awaits it was cancelled. Until then its variable names
one that awaits it (`VariableOwned`), because that is what any writer read
(`InsertOwned`, `WriteOwned`), and a listed variable is not deleted
(`ListedPresent`) since only its own waiters delete it, when it is settled.
Hence the jobs a guard finds under its own, cancelled, flow run are settled
(`GuardSettled`), and that is all `scancel` needs (`KilledOnlyByOwnFlow`). Each
of these is a lemma with one step per action.

`FoldIsThorough` is `FoldLeavesNothingRunning` under three hypotheses. Each is
needed, for TLC finds the property violated without it:

- `Submitters = Tasks`: every task inserts its variable before it polls, as those
  of `_sbatch_try` do and the waits of a launcher do not (`fold_external`);
- `ListsAll`: there are at most `NumReads` jobs, so a list shows all variables
  (`fold_limit`);
- `OneFlowPerJob`: the tasks that await one job are of one flow run. A resumed run
  does not meet this: the variable names one of the two runs, and the guard of the
  other does not find the job (two runs of which one awaits two jobs suffice).

Its invariant `FoldInv` is kept relative to `SafetyInv`. Call a job attended when
it is over or was committed to `scancel`. Until then its variable, and whatever
anybody is about to write there, names its own flow run (`OwnedStatus`,
`OwnedInsert`, `OwnedWrite`), and it is there for as long as the job is awaited or
on somebody's list (`StillThere`, `StillListed`): it is deleted by its own waiters
only, who do so when it is attended. The guard's list is complete
(`ListIsComplete`), so the job of the task is in it from the list to `scancel`
(`GuardHolds`), which attends to it.

### RerunCacheProofs

For any flow, tokens, runs, failures and expiries:

- `CacheSafety`: the types and `CacheInv`.
- `ReturnsAreTrue`: what `sbatch_try` returns is the end of the job submitted for it,
  or `CANCELLED` if a run of the token was cancelled (whatever the job does); what
  `sbatch` returns is `COMPLETED`, and its job did complete. Also when runs overlap.
- `SubmittedOnce` and `FreshRunsAreApart`, for runs that do not overlap. Overlapping
  runs with one token may both miss the store and both submit; the code has no
  lock against that.
- `RerunsReplay`, also for runs that do not overlap: what a call returned, its
  rerun returns, until the record expires.
- `ErrorsAreRetried`: in a flow without `run_try` and `launch_slurm` no error is
  answered from the store. With them it may be (`error_replayed`).

The argument. What a run holds was done for the call it is in (`HeldForCall`),
and what it was told of that job is its end or the `CANCELLED` of a fold (`ToldOf`),
so what it stores is that as well (`StoreIsTrue`). If one run is active at a time
(`OneActive`), what is done is stored or held by it (`Tracked`), and while it does
a thing there is no record of it (`MissWhileDoing`, and `MissInCall` for the task
around it); two records of one key would be one. So a run writes only where
nothing is stored, and what was returned stays there (`ReturnedIsStored`). `FreshUntouched` and `Announced` say that a short id is the token of
nothing before its run has begun.

### OutageToleranceProofs

For any poll time, tolerance, backoff limit, durations and suspensions:
`ClockSafety` (types and `ClockInv`), `PatientThroughout` (giving up means more
than `Tolerance` seconds without a complete iteration) and `BoundedOutage` (the
time without one is bounded by the sum of the constants). `ClockInv` strengthens
the two bounds by one conjunct for each place in the loop: within the tolerance
when a nap begins, within one backoff more when it ends.

### SlurmProofs

For any job ids, any number of submissions and of failed commands: `SlurmSafety`,
`FinalStates`, `AllJobsKnown`, `OnlyUnseenFail`. That a table is read right in any
order of its rows is `StatesAreTrue`: a sequence that orders a finite set has all of
it (`OrdersAreComplete`, by the pigeonhole principle), and the noise is no job.
What was seen over is how the job ended, also after a purge (`SeenIsFinal`), since
`EndsAreTrue` ties what Slurm shows to how the job ended.

### JscProofs

For any text, any width of its characters, any number of failures, tokens and calls
of the script: `JscTypeCorrect`, `StdoutFaithful`, `JobIsDeleted`, `RotationsSeen`,
`TokenSurvival`, `JscImplementsCommandRun`. A read of the file from its start has character `k` of the text, or its
replacement, at place `k` (`DecodeIsInOrder`), so appending what lies beyond the
offset keeps `ReadInv`; that a last read has all of them follows from
`ProgressInv`, as the job is over and has written everything. The token is
independent of it: what a run uses is what the file held when it began.

### FirecrestProofs

For any set of credential files with any versions and any number of runs:
`FirecrestTypeCorrect`, `ClientIsCurrent`, `FirecrestImplementsCommandRun`. Versions
only grow. The client is never newer than the disk, and, unless a build raised, not
older than the signature kept (`ClientOf`); what a run has hashed is not newer than
the disk either (`FoundOf`). So where nothing was found to have changed, the
client lies between two bounds that are the disk's version, however the user's
rotations fell between the hashes and the reads.

### EcaccessProofs

For any number of failed calls: `EcaccessTypeCorrect`, `WholeScript`, `LeavesNothing`,
`EcaccessImplementsCommandRun`. `OpInv` says which command makes which call, `LeftInv`
that whatever is open is closed by a later call or excused, and `JobInv` that a
result is only reached with the job's own id, since no handle is given without
one: the status of another job is never returned.

### LaunchProofs

For any scripts, window, jobs, reruns, failures and late refreshes, of the four
runners and of the flow over them:

- `ConnectionIsClosed` and `SshImplementsCommandRun`. `StatusInv` says that a status
  received is that of the command, `CodeInv` that a return code is that or one
  that stands for a closed connection.
- `OutputIsComplete`: with return code zero comes all the command printed, unless
  the connection was lost. On a connection that was not, the lines of a stream
  that were read or are on their way are those written to it (`NothingLost`,
  where `Count` counts them in `output`), and a stream is left only when it is empty
  and the command has exited (`Drained`). What is read is a prefix of the filtered
  output, and one of full length is all of it.
- `NoMutualWait`: if stderr fits into the window (`Fits`), or both streams are
  read at once, a command that runs and has more to write has room to, or the
  runner has something to read. It is the safety core of `EveryCommandReturns`,
  and what the comments on deadlocks in `_generic.py` and `_cineca.py` are right
  about; `ssh_deadlock` shows that it needs `Fits`. `NobodyBlocks` is stated here
  and not run. Nothing of stderr is read before stdout has ended (`StreamInv`), so
  by `NothingLost` what fills the window is stderr that `Fits` has bounded, or
  else holds a line the runner is about to read.
- `LaunchTypeCorrect`: the types of runner and flow.
- `LaunchReportsAll`: what `launch_slurm` returns is the main jobs the script submitted,
  in order and with their `dir`, or the first of these jobs when the connection was
  lost. It puts together `OutputIsComplete`, the preference for stdout, the check of
  the summary, and `LauncherAssumption`. What is read of a stream is a prefix of what
  was printed there, so the summary read names a prefix of the jobs (`ParseIsTrue`,
  by `OnlyBegins` and `FlattenBegins`).
- `ResultsAreCorrect`: each result is how its job ended, or tells of a
  cancellation. A final state in a variable is Slurm's (`TruthInv`), whoever
  wrote it and however late.
- `WaitIsThorough`: a wait that returns leaves no job of the summary running, unless a late write
  misled the guard, and no variable but those of late writes. While jobs are
  awaited and nothing was late, this run's variable is that of the job awaited
  (`KilledInv`), so `scancel` hits the one that is folded; the variables no wait is
  to come for number at most the late writes (`LooseInv`), also when a rerun
  starts again with the first job.

`LaunchInv` is the conjunction of all these. What the models do with sequences is
data of any length, so the module first derives what it needs of induction:
every set of naturals has a least member (`Least`, from `WFMin` and
`NatLessThanWellFounded`), so a set with 0 and all successors is `Nat`
(`Induction`), so a recursive function over a prefix of the naturals exists and
satisfies its equations (`Recursion`). `OnlyFacts` (the filter, its length and its
prefixes) and `FlattenFacts` (the type of a concatenation) follow from that. The
filter `Only` of `SshCommand` takes a set, where the library's `SelectSeq` takes an
operator, which the provers cannot reason about.

### Only model-checked

Liveness, which the prover cannot do: `EveryWaitEnds`, `WaitEnds`,
`EveryCommandReturns` and the other properties that need fairness.
`FoldLeavesNothingRunning` is proved under the hypotheses it needs; `two_flows`
is an instance of them. The types of `JscToken`,
`FirecrestRunner`, `EcaccessCommand`, `SlurmCommands`, `OutageTolerance` and
`LaunchSlurm` are proved and not run.

## What is not modelled

`result.py`, the data types of `_types.py`, quoting and report formatting are pure
data; an error is an outcome in the models. Artifacts and logs are calls that may
fail, their text is left out. Of `scripts/token_jsc.py`, `--check` only reads and
prints, and `run_command` has no caller. `scripts/ecaccess.py` only calls `main`.
The examples and `check_headers.py` are not part of the library. Prefect, Slurm,
ECaccess, UNICORE, FirecREST, paramiko and `ssh` are modelled as the code uses
them, with the assumptions stated above.
