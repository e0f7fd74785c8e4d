----------------------------- MODULE JscCommand -----------------------------
(***************************************************************************)
(* One run of JscUnicoreCommandRunner (cmd_runners/_jsc.py 139-295): the    *)
(* command becomes a UNICORE job, whose status is polled while its stdout   *)
(* is read from the start, decoded, and what lies beyond an offset added to *)
(* what was read before.  JscToken has the token that the requests carry,   *)
(* and puts the actions together.                                          *)
(*                                                                         *)
(* The job prints the characters 1, 2, ..., Len(CharEnd).  The character k  *)
(* ends with the byte CharEnd[k], so a read may end in the middle of one,   *)
(* which decode(errors="replace") turns into one replacement character.     *)
(***************************************************************************)
EXTENDS Integers, Sequences, FiniteSets

CONSTANTS
  CharEnd,    \* the last byte of each character the command prints
  MaxFaults   \* bound on failed requests

ASSUME OutputAssumption ==
  /\ CharEnd \in Seq(Nat \ {0})
  /\ \A j, k \in 1..Len(CharEnd) : j < k => CharEnd[j] < CharEnd[k]
ASSUME JscBoundsAssumption == MaxFaults \in Nat

VARIABLES
  pc,
  job,      \* status of the UNICORE job, "none" before it is submitted
  deleted,  \* has it been deleted? "no" or "yes"
  exit,     \* the exitCode property of the job: "zero", "other" or "absent"
  written,  \* bytes of stdout the command has written
  offset,   \* stdout_offset
  stdout,   \* stdout_parts, joined
  code,     \* the return code of the result: "zero" or "other"
  result,   \* "none", "ok", or "error" once an exception is on its way
  missed,   \* "drain" if the last read of stdout failed, "new" or "delete" if
            \* the answer to that was lost or it failed
  faults

vars == <<pc, job, deleted, exit, written, offset, stdout, code, result, missed, faults>>

Bytes == IF CharEnd = <<>> THEN 0 ELSE CharEnd[Len(CharEnd)]
Cut == 0  \* the replacement character

TerminalStatuses == {"SUCCESSFUL", "FAILED", "DONE"}
Pending == {"QUEUED", "RUNNING"}
Over == {"returned", "failed"}

TypeOK ==
  /\ pc \in {"new", "look", "poll", "drain", "lastdrain", "stderr", "code",
             "delete"} \cup Over
  /\ job \in {"none"} \cup Pending \cup TerminalStatuses
  /\ deleted \in {"no", "yes"}
  /\ exit \in {"zero", "other", "absent"}
  /\ written \in 0..Bytes
  /\ offset \in 0..Len(CharEnd)
  /\ stdout \in Seq(0..Len(CharEnd))
  /\ code \in {"none", "zero", "other"}
  /\ result \in {"none", "ok", "error"}
  /\ missed \in SUBSET {"new", "drain", "delete"}
  /\ faults \in 0..MaxFaults

Init ==
  /\ pc = "new"
  /\ job = "none"
  /\ deleted = "no"
  /\ exit = "absent"
  /\ written = 0
  /\ offset = 0
  /\ stdout = <<>>
  /\ code = "none"
  /\ result = "none"
  /\ missed = {}
  /\ faults = 0

Fault == faults < MaxFaults /\ faults' = faults + 1

-----------------------------------------------------------------------------
(* Decoding: _read_remote_text. *)

CharStart(k) == IF k = 1 THEN 1 ELSE CharEnd[k - 1] + 1

\* The characters of the first n bytes.
Begun(n) == {k \in 1..Len(CharEnd) : CharStart(k) <= n}
Decode(n) == [k \in 1..Cardinality(Begun(n)) |-> IF CharEnd[k] <= n THEN k ELSE Cut]

-----------------------------------------------------------------------------
(* The run. *)

\* client.new_job; the gateway may start the job and its answer be lost.
NewJob ==
  /\ pc = "new"
  /\ job' = "QUEUED"
  /\ \/ pc' = "look" /\ UNCHANGED <<result, missed, faults>>
     \/ /\ Fault
        /\ pc' = "failed"
        /\ result' = "error"
        /\ missed' = missed \cup {"new"}
  /\ UNCHANGED <<deleted, exit, written, offset, stdout, code>>

NewJobFails ==
  /\ pc = "new"
  /\ Fault
  /\ pc' = "failed"
  /\ result' = "error"
  /\ UNCHANGED <<job, deleted, exit, written, offset, stdout, code, missed>>

\* The id, the status and the working directory are asked for.
Look ==
  /\ pc = "look"
  /\ pc' = "poll"
  /\ UNCHANGED <<job, deleted, exit, written, offset, stdout, code, result, missed, faults>>

\* A bug for the mutants: a status that ends a job is not among those asked for.
PollIgnoresDone ==
  /\ pc = "poll"
  /\ pc' = IF job \in {"SUCCESSFUL", "FAILED"} THEN "lastdrain" ELSE "drain"
  /\ UNCHANGED <<job, deleted, exit, written, offset, stdout, code, result, missed, faults>>

PollStatus ==
  /\ pc = "poll"
  /\ pc' = IF job \in TerminalStatuses THEN "lastdrain" ELSE "drain"
  /\ UNCHANGED <<job, deleted, exit, written, offset, stdout, code, result, missed, faults>>

AfterDrain == pc' = IF pc = "drain" THEN "poll" ELSE "stderr"

\* A bug for the mutants: the offset is counted in bytes.
DrainBytes ==
  /\ pc \in {"drain", "lastdrain"}
  /\ LET content == Decode(written)
     IN  IF Len(content) > offset
         THEN /\ stdout' = stdout \o SubSeq(content, offset + 1, Len(content))
              /\ offset' = written
         ELSE UNCHANGED <<offset, stdout>>
  /\ missed' = missed \ {"drain"}
  /\ AfterDrain
  /\ UNCHANGED <<job, deleted, exit, written, code, result, faults>>

\* _drain_stdout: what is beyond the offset is new.
Drain ==
  /\ pc \in {"drain", "lastdrain"}
  /\ LET content == Decode(written)
     IN  IF Len(content) > offset
         THEN /\ stdout' = stdout \o SubSeq(content, offset + 1, Len(content))
              /\ offset' = Len(content)
         ELSE UNCHANGED <<offset, stdout>>
  /\ missed' = missed \ {"drain"}
  /\ AfterDrain
  /\ UNCHANGED <<job, deleted, exit, written, code, result, faults>>

\* Its exceptions are suppressed.
DrainFails ==
  /\ pc \in {"drain", "lastdrain"}
  /\ Fault
  /\ missed' = missed \cup {"drain"}
  /\ AfterDrain
  /\ UNCHANGED <<job, deleted, exit, written, offset, stdout, code, result>>

\* stderr is read once, and is empty if that fails.
ReadStderr ==
  /\ pc = "stderr"
  /\ pc' = "code"
  /\ UNCHANGED <<job, deleted, exit, written, offset, stdout, code, result, missed, faults>>

\* A bug for the mutants: no exit code is taken for zero.
ExitCodeOrZero == IF exit = "other" THEN "other" ELSE "zero"

\* _job_exit_code: the reported code, or one that stands for the status.
JobExitCode ==
  IF exit # "absent" THEN exit
  ELSE IF job \in {"SUCCESSFUL", "DONE"} THEN "zero" ELSE "other"

MakeResult ==
  /\ pc = "code"
  /\ code' = JobExitCode
  /\ result' = "ok"
  /\ pc' = "delete"
  /\ UNCHANGED <<job, deleted, exit, written, offset, stdout, missed, faults>>

\* A bug for the mutants: the job is deleted only after a result.
RequestRaises ==
  /\ pc \in {"look", "poll", "drain", "lastdrain", "code"}
  /\ Fault
  /\ result' = "error"
  /\ pc' = "failed"
  /\ UNCHANGED <<job, deleted, exit, written, offset, stdout, code, missed>>

\* A request whose exception is not suppressed fails; it leaves through the
\* finally clause, which deletes the job.
RequestFails ==
  /\ pc \in {"look", "poll", "drain", "lastdrain", "code"}
  /\ Fault
  /\ result' = "error"
  /\ pc' = "delete"
  /\ UNCHANGED <<job, deleted, exit, written, offset, stdout, code, missed>>

\* job.delete(), whose exceptions are suppressed.
Delete ==
  /\ pc = "delete"
  /\ pc' = IF result = "ok" THEN "returned" ELSE "failed"
  /\ \/ deleted' = "yes" /\ UNCHANGED <<missed, faults>>
     \/ Fault /\ missed' = missed \cup {"delete"} /\ UNCHANGED deleted
  /\ UNCHANGED <<job, exit, written, offset, stdout, code, result>>

-----------------------------------------------------------------------------
(* UNICORE and the command. *)

JobRuns ==
  /\ deleted = "no"
  /\ job = "QUEUED"
  /\ job' = "RUNNING"
  /\ UNCHANGED <<pc, deleted, exit, written, offset, stdout, code, result, missed, faults>>

Write ==
  /\ deleted = "no"
  /\ job = "RUNNING"
  /\ written < Bytes
  /\ written' \in written + 1..Bytes
  /\ UNCHANGED <<pc, job, deleted, exit, offset, stdout, code, result, missed, faults>>

JobEnds ==
  /\ deleted = "no"
  /\ job = "RUNNING"
  /\ written = Bytes
  /\ job' \in TerminalStatuses
  /\ exit' \in {"zero", "other", "absent"}
  /\ UNCHANGED <<pc, deleted, written, offset, stdout, code, result, missed, faults>>

\* The requests that carry the token, and those whose failure is not noticed.
Request == NewJob \/ Look \/ PollStatus \/ Drain \/ MakeResult \/ Delete
Failure == NewJobFails \/ DrainFails \/ RequestFails
JobStep == JobRuns \/ Write \/ JobEnds

-----------------------------------------------------------------------------
(* Properties. *)

\* Reading the file from the start at every poll repeats, skips and reorders
\* no character of stdout, though one that a read cut is replaced; and when the
\* last read went through, a result has them all (_jsc.py 262-280).
StdoutIsFaithful ==
  /\ \A k \in 1..Len(stdout) : stdout[k] \in {k, Cut}
  /\ pc = "returned" /\ "drain" \notin missed => Len(stdout) = Len(CharEnd)

\* However the run ends, its job is deleted, unless the deletion failed or the
\* answer to its creation was lost (_jsc.py 293-295).
JobDeleted ==
  pc \in Over /\ job # "none" =>
    deleted = "yes" \/ missed \cap {"new", "delete"} # {}

Outcome(c) == IF c = "zero" THEN "success" ELSE "failure"

Run == INSTANCE CommandRun WITH
  phase <- IF pc \in Over THEN pc ELSE "called",
  effect <- IF job = "none" THEN "none"
            ELSE IF job \in Pending THEN "active"
            ELSE IF exit = "absent"
                 THEN IF job = "FAILED" THEN "failure" ELSE "success"
                 ELSE Outcome(exit),
  reported <- IF pc = "returned" THEN Outcome(code) ELSE "none"

\* The runner keeps the contract of _types.py 63-83.
ImplementsCommandRun == Run!CommandRunSpec

\* _jsc.py 126-128: "returns the captured stdout/stderr/exit code".  It need
\* not be what the command printed: a read that ends within a character puts a
\* replacement there for good, and a failed last read is ignored.
StdoutIsWhole ==
  pc = "returned" => stdout = [k \in 1..Len(CharEnd) |-> k]
=============================================================================
