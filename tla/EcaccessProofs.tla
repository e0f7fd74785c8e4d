--------------------------- MODULE EcaccessProofs ---------------------------
(***************************************************************************)
(* The safety of a run of the ECaccess runner, and of a command of its      *)
(* client, for any number of failed calls, and its refinement of CommandRun. *)
(***************************************************************************)
EXTENDS EcaccessCommand, TLAPS

-----------------------------------------------------------------------------
(* The types. *)

LEMMA InitType == Init => TypeOK
<1> SUFFICES ASSUME Init PROVE TypeOK
  OBVIOUS
<1>1. 0 \in 0..MaxFaults
  BY EcaccessBoundsAssumption
<1>2. /\ op \in Submitting \cup OnJob \cup Listing
      /\ pc \in {"script", "call", "auth"}
      /\ ended \in {"none"} \cup TERMINAL_STATES
      /\ job \in {"none", "EXEC"} \cup TERMINAL_STATES
  BY DEF Init
<1> QED
  BY <1>1, <1>2 DEF Init, TypeOK, Requests, Running, TERMINAL_STATES, Files

\* How a step may leave the run.
LEMMA FaultType == TypeOK /\ (Fault \/ UNCHANGED faults) => faults' \in 0..MaxFaults
  BY EcaccessBoundsAssumption DEF Fault, TypeOK

Transfer ==
  WriteScript \/ Authenticate \/ GetTemporaryFile \/ GetOutputFileHandle \/ UploadData
  \/ CloseHandle \/ CopyFile \/ SubmitJob \/ DeleteFile
Fetch ==
  Poll \/ PollVanished \/ GetJobHandle \/ NoJobHandle \/ DownloadData \/ CloseJobHandle
Rest == List \/ DeleteJob \/ RestartJob \/ Refused \/ Unlink \/ ReleaseToken
Outside == JobStarts \/ JobEnds \/ JobRemoved \/ OtherEnds

LEMMA NextCases == Next <=> Transfer \/ Fetch \/ Rest \/ CallFails \/ Outside
  BY DEF Next, Client, Transfer, Fetch, Rest, Outside

Excusable == {"script", "token", "temp"} \cup Files

LEMMA TransferType == TypeOK /\ Transfer => TypeOK'
<1> SUFFICES ASSUME TypeOK, Transfer PROVE TypeOK'
  OBVIOUS
<1>1. faults' \in 0..MaxFaults
  BY FaultType DEF Transfer, WriteScript, Authenticate, GetTemporaryFile,
     GetOutputFileHandle, UploadData, CloseHandle, CopyFile, SubmitJob, DeleteFile,
     Goes, Ends
<1> USE <1>1 DEF TypeOK, Goes, Raise, Ends, Requests, Over, Submitting, Running,
                 TERMINAL_STATES, local, gateway, jobs
<1>2. CASE WriteScript
  <2>1. excused' \in SUBSET Excusable
    BY <1>2 DEF WriteScript, Excusable
  <2> QED
    BY <1>2, <2>1 DEF WriteScript, Excusable
<1>3. CASE Authenticate
  BY <1>3 DEF Authenticate
<1>4. CASE GetTemporaryFile
  BY <1>4 DEF GetTemporaryFile
<1>5. CASE GetOutputFileHandle
  BY <1>5 DEF GetOutputFileHandle
<1>6. CASE UploadData
  BY <1>6 DEF UploadData
<1>7. CASE CloseHandle
  BY <1>7 DEF CloseHandle
<1>8. CASE CopyFile
  BY <1>8 DEF CopyFile
<1>9. CASE SubmitJob
  BY <1>9 DEF SubmitJob
<1>10. CASE DeleteFile
  <2>1. excused' \in SUBSET Excusable
    BY <1>10 DEF DeleteFile, Excusable
  <2> QED
    BY <1>10, <2>1 DEF DeleteFile, Excusable
<1> QED
  BY <1>2, <1>3, <1>4, <1>5, <1>6, <1>7, <1>8, <1>9, <1>10 DEF Transfer

LEMMA FetchType == TypeOK /\ Fetch => TypeOK'
<1> SUFFICES ASSUME TypeOK, Fetch PROVE TypeOK'
  OBVIOUS
<1>1. faults' \in 0..MaxFaults
  BY FaultType DEF Fetch, Poll, PollVanished, GetJobHandle, NoJobHandle, DownloadData,
     CloseJobHandle, Goes, Ends
<1> USE <1>1 DEF TypeOK, Goes, Raise, Ends, Requests, Over, Running, Files,
                 TERMINAL_STATES, local, gateway, jobs
<1>2. CASE Poll
  BY <1>2 DEF Poll
<1>3. CASE PollVanished
  BY <1>3 DEF PollVanished
<1>4. CASE GetJobHandle
  <2>1. excused' \in SUBSET Excusable
    BY <1>4 DEF GetJobHandle, Excusable
  <2> QED
    BY <1>4, <2>1 DEF GetJobHandle, Excusable
<1>5. CASE NoJobHandle
  BY <1>5 DEF NoJobHandle
<1>6. CASE DownloadData
  BY <1>6 DEF DownloadData
<1>7. CASE CloseJobHandle
  <2>1. /\ excused' \in SUBSET Excusable
        /\ handles' \in SUBSET ({"upload"} \cup Files)
    BY <1>7 DEF CloseJobHandle, Excusable
  <2>2. /\ pc' \in {"handle", "unlink", "release"}
        /\ which' \in Files
        /\ result' \in {"none", "ok", "error"}
    BY <1>7 DEF CloseJobHandle
  <2> QED
    BY <1>7, <2>1, <2>2 DEF CloseJobHandle, Excusable
<1> QED
  BY <1>2, <1>3, <1>4, <1>5, <1>6, <1>7 DEF Fetch

LEMMA RestType == TypeOK /\ Rest => TypeOK'
<1> SUFFICES ASSUME TypeOK, Rest PROVE TypeOK'
  OBVIOUS
<1>1. faults' \in 0..MaxFaults
  BY FaultType DEF Rest, List, DeleteJob, RestartJob, Refused, Unlink, ReleaseToken
<1> USE <1>1 DEF TypeOK, Raise, Ends, Requests, Over, Running, TERMINAL_STATES, local,
                 gateway, jobs
<1>2. CASE List
  BY <1>2 DEF List
<1>3. CASE DeleteJob
  BY <1>3 DEF DeleteJob
<1>4. CASE RestartJob
  BY <1>4 DEF RestartJob
<1>5. CASE Refused
  BY <1>5 DEF Refused
<1>6. CASE Unlink
  BY <1>6 DEF Unlink
<1>7. CASE ReleaseToken
  <2>1. excused' \in SUBSET Excusable
    BY <1>7 DEF ReleaseToken, Excusable
  <2> QED
    BY <1>7, <2>1 DEF ReleaseToken, Excusable
<1> QED
  BY <1>2, <1>3, <1>4, <1>5, <1>6, <1>7 DEF Rest

LEMMA CallFailsType == TypeOK /\ CallFails => TypeOK'
<1> SUFFICES ASSUME TypeOK, CallFails PROVE TypeOK'
  OBVIOUS
<1>1. faults' \in 0..MaxFaults
  BY FaultType DEF CallFails
<1> QED
  BY <1>1 DEF CallFails, Raise, TypeOK, local, gateway, jobs

LEMMA OutsideType == TypeOK /\ Outside => TypeOK'
<1> SUFFICES ASSUME TypeOK, Outside PROVE TypeOK'
  OBVIOUS
<1> USE DEF TypeOK, Running, TERMINAL_STATES, local, gateway
<1>1. CASE JobStarts
  BY <1>1 DEF JobStarts
<1>2. CASE JobEnds
  BY <1>2 DEF JobEnds
<1>3. CASE JobRemoved
  BY <1>3 DEF JobRemoved
<1>4. CASE OtherEnds
  BY <1>4 DEF OtherEnds
<1> QED
  BY <1>1, <1>2, <1>3, <1>4 DEF Outside

LEMMA NextType == TypeOK /\ [Next]_vars => TypeOK'
<1> SUFFICES ASSUME TypeOK, [Next]_vars PROVE TypeOK'
  OBVIOUS
<1>1. CASE UNCHANGED vars
  BY <1>1 DEF vars, local, gateway, jobs, TypeOK
<1> QED
  BY <1>1, NextCases, TransferType, FetchType, RestType, CallFailsType, OutsideType

\* The variables keep their types.
THEOREM EcaccessTypeCorrect == EcaccessSpec => []TypeOK
  BY InitType, NextType, PTL DEF EcaccessSpec

-----------------------------------------------------------------------------
(* Where a run, and a command of main, may be. *)

\* Each makes some of the calls.
OpInv ==
  /\ pc \in {"script", "poll", "unlink"} => op = "run"
  /\ pc \in {"temp", "open", "upload", "close", "copy", "submit", "delete"} =>
       op \in Submitting
  /\ pc \in {"handle", "download", "closeout"} => op \in {"run", "get"}
  /\ pc = "call" => op \notin Submitting
  /\ op # "run" => script = "no" /\ status = "none"

\* Nothing is submitted before the script is whole.
ScriptInv ==
  /\ pc \in {"close", "submit"} => temp = "whole"
  /\ RunsWholeScript

\* What is open or kept is closed or removed later, or its removal failed.
LeftInv ==
  /\ pc \in {"release"} \cup Over => script = "no" \/ "script" \in excused
  /\ alive = "no" \/ token = "held" \/ "token" \in excused
  /\ pc \in Over => token = "none"
  /\ handles \cap Files \subseteq
       excused \cup IF pc \in {"download", "closeout"} THEN {which} ELSE {}
  /\ \/ pc \in {"open", "upload", "close", "copy", "submit", "delete"}
     \/ result = "error" \/ temp = "none" \/ "temp" \in excused
  /\ pc \in {"upload", "close"} \/ result = "error" \/ "upload" \notin handles
  /\ pc = "returned" => result = "ok"

\* The history of the job, and what the run knows of it.
JobInv ==
  /\ op \in Listing => job = "none"
  /\ op \in Submitting
       /\ pc \in {"script", "auth", "temp", "open", "upload", "close", "copy", "submit"} =>
         job = "none"
  /\ job \in {"none"} \cup Running => ended = "none"
  /\ job \in TERMINAL_STATES => ended = job
  /\ job = "gone" => ended # "none"
  /\ status # "none" => pc \in {"handle", "download", "closeout", "unlink", "release"} \cup Over
  /\ op = "run" /\ status # "none" /\ job_id = "own" =>
       /\ job \in TERMINAL_STATES \cup {"gone"}
       /\ status = ended
  /\ op = "run" /\ pc \in {"handle", "download", "closeout"} => status # "none"
  /\ op = "run" /\ (pc \in {"download", "closeout"} \/ result = "ok") =>
       status # "none" /\ job_id = "own"

EcaccessInv == TypeOK /\ OpInv /\ ScriptInv /\ LeftInv /\ JobInv

LEMMA InitInv == Init => EcaccessInv
<1> SUFFICES ASSUME Init PROVE EcaccessInv
  OBVIOUS
<1>1. TypeOK
  BY InitType
<1>2. OpInv /\ ScriptInv /\ LeftInv
  BY DEF Init, OpInv, ScriptInv, RunsWholeScript, LeftInv, Over, Submitting, Files
<1>3. JobInv
  BY DEF Init, JobInv, Submitting, OnJob, Listing, Running, TERMINAL_STATES
<1> QED
  BY <1>1, <1>2, <1>3 DEF EcaccessInv

LEMMA TransferInv == EcaccessInv /\ Transfer => OpInv' /\ ScriptInv' /\ LeftInv' /\ JobInv'
<1> SUFFICES ASSUME EcaccessInv, Transfer PROVE OpInv' /\ ScriptInv' /\ LeftInv' /\ JobInv'
  OBVIOUS
<1> USE DEF Goes, Raise, Ends, Over, Submitting, OnJob, Listing, Running,
            TERMINAL_STATES, Files, local, gateway, jobs
<1>o. OpInv'
  BY DEF EcaccessInv, OpInv, Transfer, WriteScript, Authenticate, GetTemporaryFile,
     GetOutputFileHandle, UploadData, CloseHandle, CopyFile, SubmitJob, DeleteFile
<1>s. ScriptInv'
  BY DEF EcaccessInv, ScriptInv, RunsWholeScript, Transfer, WriteScript, Authenticate,
     GetTemporaryFile, GetOutputFileHandle, UploadData, CloseHandle, CopyFile, SubmitJob,
     DeleteFile
<1>j. JobInv'
  BY DEF EcaccessInv, TypeOK, OpInv, JobInv, Transfer, WriteScript, Authenticate,
     GetTemporaryFile, GetOutputFileHandle, UploadData, CloseHandle, CopyFile, SubmitJob,
     DeleteFile
<1>l. LeftInv'
  BY DEF EcaccessInv, TypeOK, OpInv, LeftInv, Transfer, WriteScript, Authenticate,
     GetTemporaryFile, GetOutputFileHandle, UploadData, CloseHandle, CopyFile, SubmitJob,
     DeleteFile
<1> QED
  BY <1>o, <1>s, <1>j, <1>l

LEMMA FetchInv == EcaccessInv /\ Fetch => OpInv' /\ ScriptInv' /\ LeftInv' /\ JobInv'
<1> SUFFICES ASSUME EcaccessInv, Fetch PROVE OpInv' /\ ScriptInv' /\ LeftInv' /\ JobInv'
  OBVIOUS
<1> USE DEF Goes, Raise, Ends, Over, Submitting, OnJob, Listing, Running,
            TERMINAL_STATES, Files, local, gateway, jobs
<1>o. OpInv'
  BY DEF EcaccessInv, OpInv, Fetch, Poll, PollVanished, GetJobHandle, NoJobHandle,
     DownloadData, CloseJobHandle
<1>s. ScriptInv'
  BY DEF EcaccessInv, ScriptInv, RunsWholeScript, Fetch, Poll, PollVanished, GetJobHandle,
     NoJobHandle, DownloadData, CloseJobHandle
<1>j. JobInv'
  BY DEF EcaccessInv, TypeOK, OpInv, JobInv, Fetch, Poll, PollVanished, GetJobHandle,
     NoJobHandle, DownloadData, CloseJobHandle, Listed
<1>l. LeftInv'
  BY DEF EcaccessInv, TypeOK, OpInv, LeftInv, Fetch, Poll, PollVanished, GetJobHandle,
     NoJobHandle, DownloadData, CloseJobHandle
<1> QED
  BY <1>o, <1>s, <1>j, <1>l

LEMMA RestInv ==
  EcaccessInv /\ (Rest \/ CallFails) => OpInv' /\ ScriptInv' /\ LeftInv' /\ JobInv'
<1> SUFFICES ASSUME EcaccessInv, Rest \/ CallFails
             PROVE  OpInv' /\ ScriptInv' /\ LeftInv' /\ JobInv'
  OBVIOUS
<1> USE DEF Raise, Ends, Over, Requests, Submitting, OnJob, Listing, Running,
            TERMINAL_STATES, Files, local, gateway, jobs
<1>o. OpInv'
  BY DEF EcaccessInv, OpInv, Rest, List, DeleteJob, RestartJob, Refused, Unlink,
     ReleaseToken, CallFails
<1>s. ScriptInv'
  BY DEF EcaccessInv, ScriptInv, RunsWholeScript, Rest, List, DeleteJob, RestartJob, Refused,
     Unlink, ReleaseToken, CallFails
<1>j. JobInv'
  BY DEF EcaccessInv, TypeOK, OpInv, JobInv, Rest, List, DeleteJob, RestartJob, Refused,
     Unlink, ReleaseToken, CallFails
<1>l. LeftInv'
  BY DEF EcaccessInv, TypeOK, OpInv, LeftInv, Rest, List, DeleteJob, RestartJob, Refused,
     Unlink, ReleaseToken, CallFails
<1> QED
  BY <1>o, <1>s, <1>j, <1>l

LEMMA OutsideInv == EcaccessInv /\ Outside => OpInv' /\ ScriptInv' /\ LeftInv' /\ JobInv'
  BY DEF EcaccessInv, TypeOK, OpInv, ScriptInv, RunsWholeScript, LeftInv, JobInv, Outside,
     JobStarts, JobEnds, JobRemoved, OtherEnds, Listing, Submitting, Running,
     TERMINAL_STATES, local, gateway

LEMMA NextInv == EcaccessInv /\ [Next]_vars => EcaccessInv'
<1> SUFFICES ASSUME EcaccessInv, [Next]_vars PROVE EcaccessInv'
  OBVIOUS
<1>1. TypeOK'
  BY NextType DEF EcaccessInv
<1>2. CASE UNCHANGED vars
  BY <1>2, <1>1
     DEF vars, local, gateway, jobs, EcaccessInv, OpInv, ScriptInv, RunsWholeScript,
         LeftInv, JobInv
<1> QED
  BY <1>1, <1>2, NextCases, TransferInv, FetchInv, RestInv, OutsideInv DEF EcaccessInv

LEMMA EcaccessInvariant == EcaccessSpec => []EcaccessInv
  BY InitInv, NextInv, PTL DEF EcaccessSpec

\* Whatever fails on the way, no job is submitted before its script is whole.
THEOREM WholeScript == EcaccessSpec => []RunsWholeScript
<1>1. EcaccessInv => RunsWholeScript
  BY DEF EcaccessInv, ScriptInv
<1> QED
  BY <1>1, EcaccessInvariant, PTL

\* Every way out goes through the clauses that clean up.
THEOREM LeavesNothing == EcaccessSpec => []NothingIsLeft
<1>1. EcaccessInv => NothingIsLeft
  BY DEF EcaccessInv, LeftInv, NothingIsLeft, Over
<1> QED
  BY <1>1, EcaccessInvariant, PTL

-----------------------------------------------------------------------------
(* The refinement. *)

LEMMA InitRefines == Init => Run!Init
  BY DEF Init, Run!Init, Over, OnJob, Submitting, Listing, TERMINAL_STATES

\* The steps CommandRun does not see.
LEMMA StutterRefines ==
  ASSUME UNCHANGED <<op, job, ended, status>>, op = "run" => pc \notin Over /\ pc' \notin Over
  PROVE  UNCHANGED Run!vars
  BY DEF Run!vars, Over

LEMMA NextRefines == EcaccessInv /\ [Next]_vars => [Run!Next]_(Run!vars)
<1> SUFFICES ASSUME EcaccessInv, [Next]_vars
             PROVE  Run!Next \/ UNCHANGED Run!vars
  OBVIOUS
<1>1. CASE SubmitJob
  <2>1. op' = op /\ op \in Submitting /\ job = "none" /\ job' = "INIT" /\ ended = "none"
        /\ ended' = ended /\ pc \notin Over /\ pc' \notin Over
    BY <1>1 DEF SubmitJob, Goes, Raise, local, EcaccessInv, OpInv, JobInv, Over, Submitting
  <2>2. Run!Start
    BY <2>1 DEF Run!Start, Submitting, OnJob, Over
  <2> QED
    BY <2>2 DEF Run!Next
<1>2. CASE Transfer /\ ~SubmitJob
  <2>1. UNCHANGED <<op, job, ended, status>> /\ pc \notin Over /\ pc' \notin Over
    BY <1>2 DEF Transfer, WriteScript, Authenticate, GetTemporaryFile, GetOutputFileHandle,
       UploadData, CloseHandle, CopyFile, DeleteFile, Goes, Raise, Ends, Over, Submitting,
       local, gateway, jobs
  <2> QED
    BY <2>1, StutterRefines
<1>3. CASE Poll
  <2>1. op' = op /\ job' = job /\ ended' = ended /\ pc \notin Over /\ pc' \notin Over
    BY <1>3 DEF Poll, Goes, Over, local, jobs
  <2> QED
    BY <2>1 DEF Run!vars, Over
<1>4. CASE Fetch /\ ~Poll
  <2>1. UNCHANGED <<op, job, ended, status>> /\ pc \notin Over /\ pc' \notin Over
    BY <1>4 DEF Fetch, PollVanished, GetJobHandle, NoJobHandle, DownloadData,
       CloseJobHandle, Goes, Raise, Ends, Over, local, gateway, jobs
  <2> QED
    BY <2>1, StutterRefines
<1>5. CASE List \/ Refused \/ Unlink \/ CallFails
  <2>1. UNCHANGED <<op, job, ended, status>> /\ pc \notin Over /\ pc' \notin Over
    BY <1>5 DEF List, Refused, Unlink, CallFails, Requests, Raise, Ends, Over, local,
       gateway, jobs
  <2> QED
    BY <2>1, StutterRefines
<1>6. CASE DeleteJob \/ RestartJob
  <2>1. op' = op /\ op \in OnJob
    BY <1>6 DEF DeleteJob, RestartJob, OnJob, local
  <2> QED
    BY <2>1 DEF Run!vars, OnJob
<1>7. CASE ReleaseToken
  <2>1. /\ UNCHANGED <<op, job, ended, status, result, job_id>>
        /\ pc = "release"
        /\ pc' = IF result = "ok" THEN "returned" ELSE "failed"
    BY <1>7 DEF ReleaseToken, jobs
  <2>2. CASE op # "run"
    BY <2>1, <2>2 DEF Run!vars
  <2>3. CASE op = "run" /\ result = "ok"
    <3>1. /\ status = ended /\ ended \in TERMINAL_STATES /\ job # "none"
          /\ pc' = "returned"
      BY <2>1, <2>3 DEF EcaccessInv, TypeOK, JobInv, TERMINAL_STATES
    <3>2. Outcome(ended) \in {"success", "failure"} /\ ended # "none"
      BY <3>1 DEF Outcome, TERMINAL_STATES
    <3>3. Run!Return
      BY <2>1, <2>3, <3>1, <3>2 DEF Run!Return, Over, OnJob
    <3> QED
      BY <3>3 DEF Run!Next
  <2>4. CASE op = "run" /\ result # "ok"
    <3>1. Run!Fail
      BY <2>1, <2>4 DEF Run!Fail, Over
    <3> QED
      BY <3>1 DEF Run!Next
  <2> QED
    BY <2>2, <2>3, <2>4
<1>8. CASE JobStarts \/ OtherEnds
  <2>1. UNCHANGED <<op, pc, ended, status>> /\ (job' = "none" <=> job = "none")
    BY <1>8 DEF JobStarts, OtherEnds, local
  <2> QED
    BY <2>1 DEF Run!vars
<1>9. CASE JobEnds \/ JobRemoved
  <2>1. /\ UNCHANGED <<op, pc, status>> /\ job # "none" /\ job' # "none"
        /\ ended' \in TERMINAL_STATES
        /\ ended # "none" => ended' = ended
    BY <1>9 DEF JobEnds, JobRemoved, local, EcaccessInv, TypeOK, JobInv, Running,
       TERMINAL_STATES
  <2>2. CASE ended # "none" \/ op \in OnJob
    BY <2>1, <2>2 DEF Run!vars
  <2>3. CASE ended = "none" /\ op \notin OnJob
    <3>1. Outcome(ended') \in {"success", "failure"} /\ ended' # "none"
      BY <2>1 DEF Outcome, TERMINAL_STATES
    <3>2. Run!Finish
      BY <2>1, <2>3, <3>1 DEF Run!Finish
    <3> QED
      BY <3>2 DEF Run!Next
  <2> QED
    BY <2>2, <2>3
<1>10. CASE UNCHANGED vars
  BY <1>10 DEF vars, local, jobs, Run!vars
<1> QED
  BY <1>1, <1>2, <1>3, <1>4, <1>5, <1>6, <1>7, <1>8, <1>9, <1>10, NextCases
     DEF Rest, Outside

\* A run is as the contract has it; above all, what it returns is the state of
\* its own job, also when it was not told which that is.
THEOREM EcaccessImplementsCommandRun == EcaccessSpec => ImplementsCommandRun
<1>1. Init => Run!Init
  BY InitRefines
<1>2. EcaccessInv /\ [Next]_vars => [Run!Next]_(Run!vars)
  BY NextRefines
<1> QED
  BY <1>1, <1>2, EcaccessInvariant, PTL
     DEF EcaccessSpec, ImplementsCommandRun, Run!CommandRunSpec
=============================================================================
