---------------------------- MODULE SlurmCommands ----------------------------
(***************************************************************************)
(* submit_slurm and await_completion (slurm.py 185-466).  A caller submits   *)
(* jobs one after the other, gives up at the first error, and awaits those  *)
(* it submitted, perhaps naming one twice.                                  *)
(***************************************************************************)
EXTENDS Naturals, Sequences, FiniteSets, SequencesExt, SlurmStates

CONSTANTS
  Ids,       \* Slurm job ids
  NumJobs,   \* jobs the caller submits
  MaxFaults  \* bound on failed commands and unknown states

ASSUME SubmissionsAssumption == NumJobs \in Nat \ {0}
ASSUME SlurmBoundsAssumption == MaxFaults \in Nat
ASSUME NoiseAssumption == "noise" \notin Ids

VARIABLES
  pc,
  ids,      \* what submit_slurm returned so far
  job_ids,  \* what await_completion is called with
  done,     \* id -> its final state, for the jobs seen over
  result,   \* the states await_completion returned
  slurm,    \* id -> what sacct prints, "none" before it is submitted
  ended,    \* id -> its final state, "none" before (history)
  faults

caller == <<pc, ids, job_ids, done, result>>
cluster == <<slurm, ended>>
vars == <<caller, cluster, faults>>

Active == "COMPLETING"
Final == {"COMPLETED", "TIMEOUT"}
NoRecord == {"NEW", "PURGED"}
Garbage == "UNKNOWN"  \* a word that is no state of SlurmJobState
Noise == "noise"      \* a word, or the id of a row, that is not of these jobs

TypeOK ==
  /\ pc \in {"submit", "poll", "sacct", "returned", "failed"}
  /\ ids \in Seq(Ids) /\ Len(ids) <= NumJobs
  /\ job_ids \in Seq(Ids) /\ Len(job_ids) <= NumJobs + 1
  /\ DOMAIN done \subseteq Ids
  /\ \A i \in DOMAIN done : done[i] \in Final
  /\ result \in Seq(SlurmJobState)
  /\ slurm \in [Ids -> {"none", Active} \cup NoRecord \cup Final]
  /\ ended \in [Ids -> {"none"} \cup Final]
  /\ faults \in 0..MaxFaults

Init ==
  /\ pc = "submit"
  /\ ids = <<>> /\ job_ids = <<>>
  /\ done = [i \in {} |-> "none"]
  /\ result = <<>>
  /\ slurm = [i \in Ids |-> "none"]
  /\ ended = [i \in Ids |-> "none"]
  /\ faults = 0

Fault == faults < MaxFaults /\ faults' = faults + 1

-----------------------------------------------------------------------------
(* submit_slurm. *)

\* The words of stdout; some runners print more than sbatch does.
Submitted(i) == {<<Noise, i>>, <<Noise, i, Noise>>}

\* A bug for the mutants: an answer without an id is a reason to try again.
TriedAgain(stdout) ==
  IF Last(stdout) \in Ids THEN ids' = Append(ids, Last(stdout)) /\ UNCHANGED pc
                          ELSE UNCHANGED <<ids, pc>>

\* _parse_job_id: the last word, if it is an id.  Else the caller is told that
\* the submission failed.
Answered(stdout) ==
  IF Last(stdout) \in Ids THEN ids' = Append(ids, Last(stdout)) /\ UNCHANGED pc
                          ELSE pc' = "failed" /\ UNCHANGED ids

\* The job a caller describes is accepted.
Submit ==
  /\ pc = "submit"
  /\ Len(ids) < NumJobs
  /\ \E i \in {k \in Ids : slurm[k] = "none"} :
       /\ slurm' = [slurm EXCEPT ![i] = "NEW"]
       /\ \E stdout \in Submitted(i) : Answered(stdout)
  /\ UNCHANGED <<job_ids, done, result, ended, faults>>

\* Its paths are not absolute where they must be, or it has no script, or
\* nothing says where its output goes: refused before any command is run.
SubmitRefused ==
  /\ pc = "submit"
  /\ Len(ids) < NumJobs
  /\ pc' = "failed"
  /\ UNCHANGED <<ids, job_ids, done, result, cluster, faults>>

\* The command fails, before or after Slurm accepted the job.
SubmitFails ==
  /\ pc = "submit"
  /\ Len(ids) < NumJobs
  /\ Fault
  /\ pc' = "failed"
  /\ \/ UNCHANGED slurm
     \/ \E i \in {k \in Ids : slurm[k] = "none"} : slurm' = [slurm EXCEPT ![i] = "NEW"]
  /\ UNCHANGED <<ids, job_ids, done, result, ended>>

-----------------------------------------------------------------------------
(* await_completion. *)

Await ==
  /\ pc = "submit"
  /\ Len(ids) = NumJobs
  /\ job_ids' \in {ids, Append(ids, Head(ids))}
  /\ pc' = "poll"
  /\ UNCHANGED <<ids, done, result, cluster, faults>>

\* A bug for the mutants: the jobs that are over are asked for again.
Everyone == ToSet(job_ids)

Pending == {i \in ToSet(job_ids) : i \notin DOMAIN done}

\* A bug for the mutants: as many are done as were named.
CountDone == Cardinality(DOMAIN done) = Len(job_ids)

AllDone == \A n \in 1..Len(job_ids) : job_ids[n] \in DOMAIN done

Poll ==
  /\ pc = "poll"
  /\ IF AllDone
     THEN pc' = "returned" /\ result' = [n \in 1..Len(job_ids) |-> done[job_ids[n]]]
     ELSE pc' = "sacct" /\ UNCHANGED result
  /\ UNCHANGED <<ids, job_ids, done, cluster, faults>>

\* The rows sacct prints, in any order, among others.
Printed ==
  LET recorded == {i \in Pending : slurm[i] \notin NoRecord}
      rows == {[id |-> i, state |-> slurm[i]] : i \in recorded}
  IN  SetToSeqs(rows \cup {[id |-> Noise, state |-> Garbage]})

\* A bug for the mutants: the rows are taken in the order they are printed.
StatesInOrder(rows) ==
  LET asked == SelectSeq(job_ids, LAMBDA i : i \in Pending)
      expected == SelectSeq(rows, LAMBDA row : row.id \in Pending)
  IN  [i \in {asked[n] : n \in 1..Len(expected)} |->
         expected[CHOOSE n \in 1..Len(expected) : asked[n] = i].state]

States(rows) ==
  [i \in {row.id : row \in ToSet(rows)} \cap Pending |->
     (CHOOSE row \in ToSet(rows) : row.id = i).state]

\* get_slurm_job_states, and what await_completion does with its answer.
Sacct ==
  /\ pc = "sacct"
  /\ \E rows \in Printed :
       LET states == States(rows)
           over == {i \in DOMAIN states : is_terminal_state(states[i])}
       IN  IF Pending \subseteq DOMAIN states
           THEN /\ done' = [i \in DOMAIN done \cup over |->
                              IF i \in over THEN states[i] ELSE done[i]]
                /\ pc' = "poll"
           ELSE pc' = "failed" /\ UNCHANGED done
  /\ UNCHANGED <<ids, job_ids, result, cluster, faults>>

\* The command fails, or prints a word that is no state for one of the jobs.
SacctFails ==
  /\ pc = "sacct"
  /\ Fault
  /\ pc' = "failed"
  /\ UNCHANGED <<ids, job_ids, done, result, cluster>>

-----------------------------------------------------------------------------
(* Slurm. *)

Recorded(i) ==
  /\ slurm[i] = "NEW"
  /\ slurm' = [slurm EXCEPT ![i] = Active]
  /\ UNCHANGED <<caller, ended, faults>>

Ends(i) ==
  /\ slurm[i] \in {"NEW", Active}
  /\ \E s \in Final : slurm' = [slurm EXCEPT ![i] = s] /\ ended' = [ended EXCEPT ![i] = s]
  /\ UNCHANGED <<caller, faults>>

\* The job is removed from accounting.
Purged(i) ==
  /\ slurm[i] \in Final
  /\ slurm' = [slurm EXCEPT ![i] = "PURGED"]
  /\ UNCHANGED <<caller, ended, faults>>

Call == Submit \/ SubmitRefused \/ SubmitFails \/ Await \/ Poll \/ Sacct \/ SacctFails

Next == Call \/ \E i \in Ids : Recorded(i) \/ Ends(i) \/ Purged(i)

SlurmCommandsSpec == Init /\ [][Next]_vars

\* The event loop runs the caller, and Slurm ends every job.
FairSlurmCommandsSpec ==
  SlurmCommandsSpec /\ WF_vars(Call) /\ \A i \in Ids : WF_vars(Ends(i))

-----------------------------------------------------------------------------
(* Properties. *)

\* await_completion returns, in the order it was asked, the state each job
\* ended in, however sacct orders its rows and whenever the jobs end, also for
\* a job that was purged meanwhile (slurm.py 222-243, 262-279).
ReturnedAreFinal ==
  pc = "returned" =>
    /\ Len(result) = Len(job_ids)
    /\ \A n \in 1..Len(job_ids) : result[n] = ended[job_ids[n]]

\* A caller that got an answer knows of every job Slurm accepted from it
\* (slurm.py 410-422).
NoJobIsForgotten ==
  pc = "returned" => {i \in Ids : slurm[i] # "none"} = ToSet(ids)

\* Without a failed command the wait fails only for a job that has no record
\* and was not seen over: what was seen is not asked for again, or a purge
\* would end a long wait (slurm.py 262-267).
FailsOnlyForUnseen ==
  [][pc = "sacct" /\ pc' = "failed" /\ faults' = faults =>
       \E n \in 1..Len(job_ids) :
         job_ids[n] \notin DOMAIN done /\ slurm[job_ids[n]] \in NoRecord]_vars

\* Every await_completion ends, also when a job is named twice
\* (slurm.py 266-271).
EveryAwaitEnds == (pc = "poll") ~> (pc \in {"returned", "failed"})
=============================================================================
