--------------------------- MODULE EcaccessCommand ---------------------------
(***************************************************************************)
(* One run of EcmwfEcaccessCommandRunner (cmd_runners/_ecmwf_ecaccess.py    *)
(* 87-171) with the calls its client makes (ecmwf_ecaccess_perl.py): a      *)
(* token, a temporary file that is filled through a handle, a job, and two  *)
(* handles to read what the job wrote; or one command of the client's main  *)
(* (768-903), which makes some of these calls by itself and a few more.     *)
(* Any call may fail, before or after the gateway carried it out, or be     *)
(* answered with nothing in it.                                            *)
(***************************************************************************)
EXTENDS Naturals

CONSTANT MaxFaults  \* bound on failed calls

ASSUME EcaccessBoundsAssumption == MaxFaults \in Nat

VARIABLES
  op,      \* "run", or the command given to main ("distant" is submit --distant)
  pc,
  script,  \* the local script file: "no" or "yes"
  token,   \* client._token: "none" or "held"
  alive,   \* does the gateway keep a token for this run? "no" or "yes"
  temp,    \* the temporary file: "none", "empty", "part" or "whole"
  handles, \* the handles that are open
  job,     \* status of the job, "none" before and "gone" after the gateway knows it
  ended,   \* the status the command ended in (history)
  sent,    \* what temp held when the job was submitted (history)
  job_id,  \* "none", "own", or "empty" for an answer without one
  other,   \* status of another job of the same user
  status,  \* the final status that was polled
  which,   \* the file that is read: "output", "error" or "input"
  result,  \* "none", "ok", or "error" once an exception is on its way
  excused, \* what is left because the call that creates or removes it failed
  faults

local == <<op, script, token, which>>
gateway == <<alive, temp, handles>>
jobs == <<job, ended, sent, other>>
vars == <<pc, local, gateway, jobs, job_id, status, result, excused, faults>>

TERMINAL_STATES == {"DONE", "STOP"}
Running == {"INIT", "EXEC"}
Over == {"returned", "failed"}
Files == {"output", "error", "input"}

Submitting == {"run", "submit", "distant"}
OnJob == {"delete", "restart", "get"}            \* of a job the user names
Listing == {"gateway", "ops", "queues", "jobs"}  \* nothing changes

\* Calls whose exceptions are not suppressed.
Requests == {"auth", "temp", "open", "upload", "close", "copy", "submit", "poll",
             "handle", "call"}

TypeOK ==
  /\ op \in Submitting \cup OnJob \cup Listing
  /\ pc \in Requests \cup {"script", "delete", "download", "closeout", "unlink", "release"}
            \cup Over
  /\ script \in {"no", "yes"} /\ token \in {"none", "held"} /\ alive \in {"no", "yes"}
  /\ temp \in {"none", "empty", "part", "whole"}
  /\ handles \in SUBSET ({"upload"} \cup Files)
  /\ job \in {"none", "gone"} \cup Running \cup TERMINAL_STATES
  /\ ended \in {"none"} \cup TERMINAL_STATES
  /\ sent \in {"none", "empty", "part", "whole"}
  /\ job_id \in {"none", "own", "empty"}
  /\ other \in Running \cup TERMINAL_STATES
  /\ status \in {"none"} \cup TERMINAL_STATES
  /\ which \in Files
  /\ result \in {"none", "ok", "error"}
  /\ excused \in SUBSET ({"script", "token", "temp"} \cup Files)
  /\ faults \in 0..MaxFaults

\* The certificate is not needed to ask for the gateway's name.
Init ==
  /\ op \in Submitting \cup OnJob \cup Listing
  /\ pc = CASE op = "run" -> "script" [] op = "gateway" -> "call" [] OTHER -> "auth"
  /\ script = "no" /\ token = "none" /\ alive = "no"
  /\ temp = "none" /\ handles = {}
  /\ ended \in IF op \in OnJob THEN {"none"} \cup TERMINAL_STATES ELSE {"none"}
  /\ job = IF op \notin OnJob THEN "none" ELSE IF ended = "none" THEN "EXEC" ELSE ended
  /\ job_id = IF op \in OnJob THEN "own" ELSE "none"
  /\ sent = "none" /\ other \in {"EXEC", "DONE"} /\ status = "none"
  /\ which \in IF op = "get" THEN Files ELSE {"output"}
  /\ result = "none"
  /\ excused = {} /\ faults = 0

Fault == faults < MaxFaults /\ faults' = faults + 1

\* An exception leaves through the finally clauses of run, or that of main.
Raise ==
  /\ result' = "error"
  /\ pc' = IF op = "run" /\ pc # "script" THEN "unlink" ELSE "release"

Goes(next) == pc' = next /\ UNCHANGED <<result, faults>>

\* The last call: main returns 0 when none raised.
Ends ==
  /\ result' = IF result = "error" THEN "error" ELSE "ok"
  /\ pc' = IF op = "run" THEN "unlink" ELSE "release"

-----------------------------------------------------------------------------
(* The submission. *)

\* The file is created before it is written, and kept if that fails.
WriteScript ==
  /\ pc = "script"
  /\ script' = "yes"
  /\ \/ Goes("auth") /\ UNCHANGED excused
     \/ Fault /\ Raise /\ excused' = excused \cup {"script"}
  /\ UNCHANGED <<op, token, which, gateway, jobs, job_id, status>>

\* authenticate: the answer may be lost, or hold an empty token.
Authenticate ==
  /\ pc = "auth"
  /\ alive' = "yes"
  /\ \/ /\ Goes(CASE op \in Submitting -> "temp" [] op = "get" -> "handle" [] OTHER -> "call")
        /\ token' = "held" /\ UNCHANGED excused
     \/ Fault /\ Raise /\ excused' = excused \cup {"token"} /\ UNCHANGED token
  /\ UNCHANGED <<op, script, which, temp, handles, jobs, job_id, status>>

GetTemporaryFile ==
  /\ pc = "temp"
  /\ temp' = "empty"
  /\ Goes(IF op = "distant" THEN "copy" ELSE "open") \/ (Fault /\ Raise)
  /\ UNCHANGED <<local, alive, handles, jobs, job_id, status, excused>>

GetOutputFileHandle ==
  /\ pc = "open"
  /\ handles' = handles \cup {"upload"}
  /\ Goes("upload") \/ (Fault /\ Raise)
  /\ UNCHANGED <<local, alive, temp, jobs, job_id, status, excused>>

\* A bug for the mutants: the HTTP status of the upload is not looked at.
UploadUnchecked ==
  /\ pc = "upload"
  /\ \/ Goes("close") /\ temp' = "whole"
     \/ Fault /\ pc' = "close" /\ temp' \in {"part", "whole"} /\ UNCHANGED result
  /\ UNCHANGED <<local, alive, handles, jobs, job_id, status, excused>>

UploadData ==
  /\ pc = "upload"
  /\ \/ Goes("close") /\ temp' = "whole"
     \/ Fault /\ Raise /\ temp' \in {"part", "whole"}
  /\ UNCHANGED <<local, alive, handles, jobs, job_id, status, excused>>

CloseHandle ==
  /\ pc = "close"
  /\ handles' = handles \ {"upload"}
  /\ Goes("submit") \/ (Fault /\ Raise)
  /\ UNCHANGED <<local, alive, temp, jobs, job_id, status, excused>>

\* --distant: the gateway copies a script it has.
CopyFile ==
  /\ pc = "copy"
  /\ temp' = "whole"
  /\ Goes("submit") \/ (Fault /\ Raise)
  /\ UNCHANGED <<local, alive, handles, jobs, job_id, status, excused>>

\* Unlike a token or a handle, the job id of the answer is not checked.
SubmitJob ==
  /\ pc = "submit"
  /\ job' = "INIT" /\ sent' = temp
  /\ \/ Goes("delete") /\ job_id' = "own"
     \/ Fault /\ pc' = "delete" /\ job_id' = "empty" /\ UNCHANGED result
     \/ Fault /\ Raise /\ UNCHANGED job_id
  /\ UNCHANGED <<local, gateway, ended, other, status, excused>>

\* Its exceptions are suppressed.
DeleteFile ==
  /\ pc = "delete"
  /\ IF op = "run" THEN pc' = "poll" /\ UNCHANGED result ELSE Ends
  /\ \/ temp' = "none" /\ UNCHANGED <<excused, faults>>
     \/ Fault /\ excused' = excused \cup {"temp"} /\ UNCHANGED temp
  /\ UNCHANGED <<local, alive, handles, jobs, job_id, status>>

-----------------------------------------------------------------------------
(* The job: _wait_for_terminal. *)

\* What list_jobs may show first: without a job id, it lists every job.
Listed == ({job} \cup IF job_id = "empty" THEN {other} ELSE {}) \ {"gone"}

\* A bug for the mutants: a job that was stopped is waited for.
PollDone ==
  /\ pc = "poll"
  /\ "DONE" \in Listed
  /\ status' = "DONE"
  /\ Goes("handle")
  /\ UNCHANGED <<local, gateway, jobs, job_id, excused>>

\* Other states make it sleep and ask again.
Poll ==
  /\ pc = "poll"
  /\ status' \in Listed \cap TERMINAL_STATES
  /\ Goes("handle")
  /\ UNCHANGED <<local, gateway, jobs, job_id, excused>>

PollVanished ==
  /\ pc = "poll"
  /\ Listed = {}
  /\ Raise
  /\ UNCHANGED <<local, gateway, jobs, job_id, status, excused, faults>>

-----------------------------------------------------------------------------
(* The output: get_job_output, for one file and then the other. *)

\* A bug for the mutants: the handle is not checked, like the job id.
AnyHandle ==
  /\ pc = "handle"
  /\ handles' = handles \cup {which}
  /\ Goes("download")
  /\ UNCHANGED <<local, alive, temp, jobs, job_id, status, excused>>

GetJobHandle ==
  /\ pc = "handle"
  /\ job_id = "own" /\ job # "gone"
  /\ handles' = handles \cup {which}
  /\ \/ Goes("download") /\ UNCHANGED excused
     \/ Fault /\ Raise /\ excused' = excused \cup {which}
  /\ UNCHANGED <<local, alive, temp, jobs, job_id, status>>

\* The gateway has no such job, or no such file yet, and gives none.
NoJobHandle ==
  /\ pc = "handle"
  /\ job_id = "empty" \/ job \notin TERMINAL_STATES
  /\ Raise
  /\ UNCHANGED <<local, gateway, jobs, job_id, status, excused, faults>>

\* A bug for the mutants: the handle is closed only after a success.
DownloadThenClose ==
  /\ pc = "download"
  /\ Goes("closeout") \/ (Fault /\ Raise)
  /\ UNCHANGED <<local, gateway, jobs, job_id, status, excused>>

DownloadData ==
  /\ pc = "download"
  /\ pc' = "closeout"
  /\ \/ UNCHANGED <<result, faults>>
     \/ Fault /\ result' = "error"
  /\ UNCHANGED <<local, gateway, jobs, job_id, status, excused>>

\* In a finally clause, and its exceptions are suppressed.
CloseJobHandle ==
  /\ pc = "closeout"
  /\ \/ handles' = handles \ {which} /\ UNCHANGED <<excused, faults>>
     \/ Fault /\ excused' = excused \cup {which} /\ UNCHANGED handles
  /\ IF op = "run" /\ result # "error" /\ which = "output"
     THEN pc' = "handle" /\ which' = "error" /\ UNCHANGED result
     ELSE Ends /\ UNCHANGED which
  /\ UNCHANGED <<op, script, token, alive, temp, jobs, job_id, status>>

-----------------------------------------------------------------------------
(* The other commands of main: one call, after authenticate. *)

List ==
  /\ pc = "call"
  /\ op \in Listing
  /\ Ends
  /\ UNCHANGED <<local, gateway, jobs, job_id, status, excused, faults>>

DeleteJob ==
  /\ pc = "call"
  /\ op = "delete" /\ job # "gone"
  /\ job' = "gone"
  /\ ended' = IF ended = "none" THEN "STOP" ELSE ended
  /\ (Ends /\ UNCHANGED faults) \/ (Fault /\ Raise)
  /\ UNCHANGED <<local, gateway, sent, other, job_id, status, excused>>

RestartJob ==
  /\ pc = "call"
  /\ op = "restart" /\ job \in TERMINAL_STATES
  /\ job' = "INIT" /\ ended' = "none"
  /\ (Ends /\ UNCHANGED faults) \/ (Fault /\ Raise)
  /\ UNCHANGED <<local, gateway, sent, other, job_id, status, excused>>

\* The gateway does not do that to the job.
Refused ==
  /\ pc = "call"
  /\ \/ op = "delete" /\ job = "gone"
     \/ op = "restart" /\ job \notin TERMINAL_STATES
  /\ Raise
  /\ UNCHANGED <<local, gateway, jobs, job_id, status, excused, faults>>

-----------------------------------------------------------------------------
(* The finally clauses of run and main. *)

Unlink ==
  /\ pc = "unlink"
  /\ script' = "no"
  /\ pc' = "release"
  /\ UNCHANGED <<op, token, which, gateway, jobs, job_id, status, result, excused, faults>>

\* Nothing is released when no token was received; exceptions are suppressed.
ReleaseToken ==
  /\ pc = "release"
  /\ pc' = IF result = "ok" THEN "returned" ELSE "failed"
  /\ token' = "none"
  /\ \/ token = "none" /\ UNCHANGED <<alive, excused, faults>>
     \/ token = "held" /\ alive' = "no" /\ UNCHANGED <<excused, faults>>
     \/ token = "held" /\ Fault /\ excused' = excused \cup {"token"} /\ UNCHANGED alive
  /\ UNCHANGED <<op, script, which, temp, handles, jobs, job_id, status, result>>

\* A call fails without an effect.
CallFails ==
  /\ pc \in Requests
  /\ Fault
  /\ Raise
  /\ UNCHANGED <<local, gateway, jobs, job_id, status, excused>>

-----------------------------------------------------------------------------
(* ECaccess and the jobs. *)

JobStarts ==
  /\ job = "INIT"
  /\ job' = "EXEC"
  /\ UNCHANGED <<pc, local, gateway, ended, sent, other, job_id, status, result, excused, faults>>

JobEnds ==
  /\ job \in Running
  /\ ended' \in IF job = "EXEC" THEN TERMINAL_STATES ELSE {"STOP"}
  /\ job' = ended'
  /\ UNCHANGED <<pc, local, gateway, sent, other, job_id, status, result, excused, faults>>

\* A job is deleted by its user, or at the end of its life time.
JobRemoved ==
  /\ job \in Running \cup TERMINAL_STATES
  /\ job' = "gone"
  /\ ended' = IF ended = "none" THEN "STOP" ELSE ended
  /\ UNCHANGED <<pc, local, gateway, sent, other, job_id, status, result, excused, faults>>

OtherEnds ==
  /\ other \in Running
  /\ other' \in TERMINAL_STATES
  /\ UNCHANGED <<pc, local, gateway, job, ended, sent, job_id, status, result, excused, faults>>

Client ==
  \/ WriteScript \/ Authenticate \/ GetTemporaryFile \/ GetOutputFileHandle
  \/ UploadData \/ CloseHandle \/ CopyFile \/ SubmitJob \/ DeleteFile
  \/ Poll \/ PollVanished
  \/ GetJobHandle \/ NoJobHandle \/ DownloadData \/ CloseJobHandle
  \/ List \/ DeleteJob \/ RestartJob \/ Refused
  \/ Unlink \/ ReleaseToken

Next ==
  \/ Client \/ CallFails
  \/ JobStarts \/ JobEnds \/ JobRemoved \/ OtherEnds

EcaccessSpec == Init /\ [][Next]_vars

\* The client makes its next call, and every job ends.
FairEcaccessSpec == EcaccessSpec /\ WF_vars(Client) /\ WF_vars(JobEnds) /\ WF_vars(OtherEnds)

-----------------------------------------------------------------------------
(* Properties. *)

\* No job runs a part of the script, whichever call of the upload failed or
\* lost its answer (ecmwf_ecaccess_perl.py 515-548).
RunsWholeScript == sent \in {"none", "whole"}

\* However a run or a command of main ends, its script, its token and the handles
\* it reads from are gone, and after a result the temporary file and its handle
\* too, except for what a failed call left (_ecmwf_ecaccess.py 118-124,
\* ecmwf_ecaccess_perl.py 611-620, 679-683, 900-901).
NothingIsLeft ==
  pc \in Over =>
    /\ script = "no" \/ "script" \in excused
    /\ alive = "no" \/ "token" \in excused
    /\ handles \cap Files \subseteq excused
    /\ pc = "returned" => /\ temp = "none" \/ "temp" \in excused
                          /\ "upload" \notin handles

\* A run, or a command, does not poll for ever: its job stops, disappears or is done, even if
\* it is not known which job it is (_ecmwf_ecaccess.py 156-171).
EveryRunEnds == <>(pc \in Over)

Outcome(s) == CASE s = "DONE" -> "success" [] s = "STOP" -> "failure"

Run == INSTANCE CommandRun WITH
  phase <- IF op = "run" /\ pc \in Over THEN pc ELSE "called",
  effect <- IF op \in OnJob \/ job = "none" THEN "none" ELSE IF ended = "none" THEN "active" ELSE Outcome(ended),
  reported <- IF op = "run" /\ pc = "returned" THEN Outcome(status) ELSE "none"

\* The runner keeps the contract of _types.py 63-83: above all, it never
\* returns the status of another job (_ecmwf_ecaccess.py 107-117, 133).
ImplementsCommandRun == Run!CommandRunSpec
=============================================================================
