----------------------------- MODULE RerunCache -----------------------------
(***************************************************************************)
(* Submitting, recording and replaying (prefect.py, run.py, _sbatch.py     *)
(* 137-425, extra/launch_slurm.py).  A flow run makes the calls of a flow   *)
(* in order.  Each is a Prefect task whose result is stored under a key     *)
(* made of the rerun token (or of the run's own short id), the task and its *)
(* parameters; a task whose key is stored is answered from the store.       *)
(*                                                                         *)
(* sbatch nests a second task, _sbatch_submit_async, whose result is        *)
(* committed as soon as it returns, so the wait that follows may fail, or   *)
(* the process die, without the job being submitted again.  When the user   *)
(* cancels the flow run, a wait is told CANCELLED by the guard              *)
(* (SbatchMonitor), however the job ends, and so the call returns.          *)
(***************************************************************************)
EXTENDS Naturals, FiniteSets

CONSTANTS
  Runs,        \* flow runs
  Tokens,      \* rerun tokens: the short ids of runs and those users choose
  ShortId,     \* _short_run_id of a flow run
  RerunToken,  \* the rerun_token a run is given; "None" or "" if it has none
  Specs,       \* what a task may be called with
  NumCalls,    \* the flow makes this many calls, one after the other:
  Op,          \*   call -> the function called
  Spec,        \*   call -> its parameters
  Ids,         \* what is done on the hpc: Slurm jobs and executed commands
  Endings,     \* the states jobs may end in (a bound of the model)
  Cancellable, \* the flow runs the user may cancel (a bound of the model)
  MayOverlap,  \* may a run start while another is under way?
  MaxFaults,   \* bound on failures and crashes
  MaxExpiries  \* bound on records dropped after cache_expiration

SlurmOps == {"sbatch", "sbatch_try", "sbatch_submit"}
CommandOps == {"run", "run_try", "launch_slurm"}
SubmitTask == "_sbatch_submit_async"

\* "FAILED" stands for every other way to fail.
EndStates == {"COMPLETED", "FAILED", "CANCELLED"}

Falsy == {"None", ""}
Fresh(r) == RerunToken[r] \in Falsy

ASSUME ProgramAssumption ==
  /\ NumCalls \in Nat \ {0}
  /\ Op \in [1..NumCalls -> SlurmOps \cup CommandOps]
  /\ Spec \in [1..NumCalls -> Specs]
ASSUME TokenAssumption ==
  /\ ShortId \in [Runs -> Tokens]
  /\ \A q, r \in Runs : ShortId[q] = ShortId[r] => q = r
  /\ RerunToken \in [Runs -> Tokens \cup Falsy]
  /\ Tokens \cap Falsy = {}
ASSUME IdAssumption == "NoId" \notin Ids
ASSUME RerunBoundsAssumption ==
  /\ Endings \subseteq EndStates
  /\ Cancellable \subseteq Runs
  /\ MaxFaults \in Nat
  /\ MaxExpiries \in Nat
  /\ MayOverlap \in BOOLEAN

VARIABLES
  pc,        \* run -> what it does next
  at,        \* run -> the call it makes
  job,       \* run -> the id its current call holds
  told,      \* run -> the state its last wait returned, "NONE" before
  store,     \* key -> the persisted result, or Absent
  doneFor,   \* id -> the key it was done for, NoKey while unused
  doneBy,    \* id -> the run that did it
  slurm,     \* id -> state of that Slurm job
  cancelled, \* flow runs the user cancelled
  returned,  \* what the calls returned or raised (history)
  lost,      \* ids whose doer failed or died before they were stored (history)
  expired,   \* <<key, id>> of the records dropped (history)
  faults

hpc  == <<doneFor, doneBy>>
user == <<slurm, cancelled>>
past == <<returned, lost, expired>>
vars == <<pc, at, job, told, store, hpc, user, past, faults>>

Keys == Tokens \X (SlurmOps \cup CommandOps \cup {SubmitTask}) \X Specs
NoId == "NoId"
NoKey == <<"NoKey", "NoKey", "NoKey">>
Value(i, s) == [id |-> i, state |-> s]
Absent == Value(NoId, "ABSENT")
States == {"ABSENT", "SUBMITTED", "OK", "OPERROR"} \cup EndStates
Values == [id : Ids \cup {NoId}, state : States]

Stopped == {"done", "failed", "crashed"}
\* The calls that hold something done on the hpc and not stored yet.
Holding == {"accepted", "executed"}
InCall == {"call", "submission", "sbatch", "wait", "over", "exec"} \cup Holding
Active(r) == pc[r] \in InCall

TypeOK ==
  /\ pc \in [Runs -> {"idle"} \cup InCall \cup Stopped]
  /\ at \in [Runs -> 1..NumCalls]
  /\ job \in [Runs -> Ids \cup {NoId}]
  /\ told \in [Runs -> EndStates \cup {"NONE"}]
  /\ store \in [Keys -> Values]
  /\ doneFor \in [Ids -> Keys \cup {NoKey}]
  /\ doneBy \in [Ids -> Runs \cup {"nobody"}]
  /\ slurm \in [Ids -> {"ACTIVE"} \cup EndStates]
  /\ cancelled \in SUBSET Cancellable
  /\ returned \in SUBSET [run : Runs, call : 1..NumCalls, value : Values,
                          via : {"body", "cache", "raised"}]
  /\ lost \in SUBSET Ids
  /\ expired \in SUBSET (Keys \X (Ids \cup {NoId}))
  /\ faults \in 0..MaxFaults

Init ==
  /\ pc = [r \in Runs |-> "idle"]
  /\ at = [r \in Runs |-> 1]
  /\ job = [r \in Runs |-> NoId]
  /\ told = [r \in Runs |-> "NONE"]
  /\ store = [k \in Keys |-> Absent]
  /\ doneFor = [i \in Ids |-> NoKey]
  /\ doneBy = [i \in Ids |-> "nobody"]
  /\ slurm = [i \in Ids |-> "ACTIVE"]
  /\ cancelled = {}
  /\ returned = {}
  /\ lost = {}
  /\ expired = {}
  /\ faults = 0

-----------------------------------------------------------------------------
(* Keys: rerun_aware_cache_key. *)

\* A bug for the mutants: the fallback is the same for every run.
FallbackShared(r) ==
  IF Fresh(r) THEN CHOOSE t \in Tokens : TRUE ELSE RerunToken[r]

KeyToken(r) == IF Fresh(r) THEN ShortId[r] ELSE RerunToken[r]

\* sbatch_try calls the task sbatch with _accept_failure, a parameter of its
\* own, so the two never share a key; their submissions do.
CallKey(r) == <<KeyToken(r), Op[at[r]], Spec[at[r]]>>
SubmitKey(r) == <<KeyToken(r), SubmitTask, Spec[at[r]]>>

-----------------------------------------------------------------------------
(* The end of a call. *)

Persist(k, v) == store' = [store EXCEPT ![k] = v]

Report(r, v, via) ==
  returned' = returned \cup
                {[run |-> r, call |-> at[r], value |-> v, via |-> via]}

\* The flow makes its next call, or is over.
Proceed(r) ==
  /\ pc' = [pc EXCEPT ![r] = IF at[r] = NumCalls THEN "done" ELSE "call"]
  /\ at' = [at EXCEPT ![r] = IF @ = NumCalls THEN @ ELSE @ + 1]

\* The exception is not caught by the flow, which fails.
Raise(r, v) ==
  /\ Report(r, v, "raised")
  /\ pc' = [pc EXCEPT ![r] = "failed"]
  /\ UNCHANGED <<at, store>>

\* A bug for the mutants: sbatch_try a task that returns the error.
FailStored(r) ==
  LET e == Value(NoId, "OPERROR")
  IN  IF Op[at[r]] \in {"sbatch", "run"} THEN Raise(r, e)
      ELSE Report(r, e, "body") /\ Proceed(r) /\ Persist(CallKey(r), e)

\* The call failed: sbatch and run raise, the others return an OpError.  That
\* of run_try and of launch_slurm is the result of a task, which is stored;
\* sbatch_try and sbatch_submit make it of the exception of one that failed.
\* The artifact of a launch is not guarded: launch_slurm raises if that fails.
Fail(r) ==
  LET e == Value(NoId, "OPERROR")
  IN  \/ /\ \/ Op[at[r]] \in {"sbatch", "run"}
            \/ Op[at[r]] = "launch_slurm" /\ pc[r] = "executed"
         /\ Raise(r, e)
      \/ /\ Op[at[r]] \notin {"sbatch", "run"}
         /\ Report(r, e, "body")
         /\ Proceed(r)
         /\ IF Op[at[r]] \in {"run_try", "launch_slurm"}
            THEN Persist(CallKey(r), e)
            ELSE UNCHANGED store

Fault == faults < MaxFaults /\ faults' = faults + 1

-----------------------------------------------------------------------------
(* A flow run. *)

\* Users learn a run's short id from what it logs when it starts.
Begin(r) ==
  /\ pc[r] = "idle"
  /\ \A q \in Runs \ {r} : ShortId[q] = RerunToken[r] => pc[q] # "idle"
  /\ MayOverlap \/ \A q \in Runs : ~Active(q)
  /\ pc' = [pc EXCEPT ![r] = "call"]
  /\ UNCHANGED <<at, job, told, store, hpc, user, past, faults>>

\* The task is answered from the store.
ReplayCall(r) ==
  /\ pc[r] = "call"
  /\ Op[at[r]] # "sbatch_submit"
  /\ store[CallKey(r)] # Absent
  /\ Report(r, store[CallKey(r)], "cache")
  /\ Proceed(r)
  /\ UNCHANGED <<job, told, store, hpc, user, lost, expired, faults>>

\* It is not, and runs; sbatch_submit is no task itself.
EnterBody(r) ==
  /\ pc[r] = "call"
  /\ Op[at[r]] = "sbatch_submit" \/ store[CallKey(r)] = Absent
  /\ pc' = [pc EXCEPT ![r] = IF Op[at[r]] \in SlurmOps THEN "submission" ELSE "exec"]
  /\ UNCHANGED <<at, job, told, store, hpc, user, past, faults>>

\* The submission of an earlier call or run: sbatch awaits that job.
ReplaySubmission(r) ==
  /\ pc[r] = "submission"
  /\ store[SubmitKey(r)] # Absent
  /\ IF Op[at[r]] = "sbatch_submit"
     THEN Report(r, store[SubmitKey(r)], "cache") /\ Proceed(r) /\ UNCHANGED job
     ELSE /\ pc' = [pc EXCEPT ![r] = "wait"]
          /\ job' = [job EXCEPT ![r] = store[SubmitKey(r)].id]
          /\ UNCHANGED <<at, returned>>
  /\ UNCHANGED <<told, store, hpc, user, lost, expired, faults>>

Submit(r) ==
  /\ pc[r] = "submission"
  /\ store[SubmitKey(r)] = Absent
  /\ pc' = [pc EXCEPT ![r] = "sbatch"]
  /\ UNCHANGED <<at, job, told, store, hpc, user, past, faults>>

\* Something new is done on the hpc for the key k.
DoneOnHpc(r, k) ==
  \E i \in Ids :
    /\ doneFor[i] = NoKey
    /\ doneFor' = [doneFor EXCEPT ![i] = k]
    /\ doneBy' = [doneBy EXCEPT ![i] = r]
    /\ job' = [job EXCEPT ![r] = i]

\* Slurm accepts the job.
Accept(r) ==
  /\ pc[r] = "sbatch"
  /\ DoneOnHpc(r, SubmitKey(r))
  /\ pc' = [pc EXCEPT ![r] = "accepted"]
  /\ UNCHANGED <<at, told, store, user, past, faults>>

\* A bug for the mutants: the record waits for the parent task to succeed.
RecordLazily(r) ==
  /\ pc[r] = "accepted"
  /\ IF Op[at[r]] = "sbatch_submit"
     THEN Report(r, Value(job[r], "SUBMITTED"), "body") /\ Proceed(r)
     ELSE pc' = [pc EXCEPT ![r] = "wait"] /\ UNCHANGED <<at, returned>>
  /\ UNCHANGED <<store, job, told, hpc, user, lost, expired, faults>>

\* The submission's task returns and its result is committed at once.
RecordSubmission(r) ==
  /\ pc[r] = "accepted"
  /\ Persist(SubmitKey(r), Value(job[r], "SUBMITTED"))
  /\ IF Op[at[r]] = "sbatch_submit"
     THEN Report(r, Value(job[r], "SUBMITTED"), "body") /\ Proceed(r)
     ELSE pc' = [pc EXCEPT ![r] = "wait"] /\ UNCHANGED <<at, returned>>
  /\ UNCHANGED <<job, told, hpc, user, lost, expired, faults>>

\* A bug for the mutants: the wait does not ask whether the state is terminal.
WaitEndsEarly(r) ==
  /\ pc[r] = "wait"
  /\ told' = [told EXCEPT ![r] = slurm[job[r]]]
  /\ pc' = [pc EXCEPT ![r] = "over"]
  /\ UNCHANGED <<at, job, store, hpc, user, past, faults>>

\* The status variable is inserted and wait_completion_single returns the
\* state the job ended in (SbatchMonitor) ...
WaitEnds(r) ==
  /\ pc[r] = "wait"
  /\ slurm[job[r]] # "ACTIVE"
  /\ told' = [told EXCEPT ![r] = slurm[job[r]]]
  /\ pc' = [pc EXCEPT ![r] = "over"]
  /\ UNCHANGED <<at, job, store, hpc, user, past, faults>>

\* ... or folds: the guard cancelled jobs of this flow run, and the wait does
\* not ask what became of its own.
WaitFolds(r) ==
  /\ pc[r] = "wait"
  /\ r \in cancelled
  /\ told' = [told EXCEPT ![r] = "CANCELLED"]
  /\ pc' = [pc EXCEPT ![r] = "over"]
  /\ UNCHANGED <<at, job, store, hpc, user, past, faults>>

\* A bug for the mutants: sbatch returns whatever state the job ended in.
ConcludeAny(r) ==
  /\ pc[r] = "over"
  /\ Report(r, Value(job[r], told[r]), "body")
  /\ Proceed(r)
  /\ Persist(CallKey(r), Value(job[r], told[r]))
  /\ UNCHANGED <<job, told, hpc, user, lost, expired, faults>>

\* sbatch raises unless the job completed, sbatch_try returns any state.
Conclude(r) ==
  /\ pc[r] = "over"
  /\ LET v == Value(job[r], told[r])
     IN  IF Op[at[r]] = "sbatch" /\ v.state # "COMPLETED"
         THEN Raise(r, v)
         ELSE Report(r, v, "body") /\ Proceed(r) /\ Persist(CallKey(r), v)
  /\ UNCHANGED <<job, told, hpc, user, lost, expired, faults>>

\* run, run_try and launch_slurm: the command is executed ...
Execute(r) ==
  /\ pc[r] = "exec"
  /\ DoneOnHpc(r, CallKey(r))
  /\ pc' = [pc EXCEPT ![r] = "executed"]
  /\ UNCHANGED <<at, told, store, user, past, faults>>

\* ... and its output becomes the stored result of the task.
RecordCommand(r) ==
  /\ pc[r] = "executed"
  /\ Persist(CallKey(r), Value(job[r], "OK"))
  /\ Report(r, Value(job[r], "OK"), "body")
  /\ Proceed(r)
  /\ UNCHANGED <<job, told, hpc, user, lost, expired, faults>>

\* What was done and not stored is forgotten.
Forget(r) == lost' = IF pc[r] \in Holding THEN lost \cup {job[r]} ELSE lost

\* A call fails where its body calls the hpc or the server: the hpc refuses or
\* cannot be reached, its answer is lost or makes no sense, the wait gives up,
\* an insertion, an artifact or the reading of the logs raises.
CallFails(r) ==
  /\ pc[r] \in {"sbatch", "wait", "over", "exec"} \cup Holding
  /\ Fault
  /\ Fail(r)
  /\ Forget(r)
  /\ UNCHANGED <<job, told, hpc, user, expired>>

-----------------------------------------------------------------------------
(* The environment. *)

Crash(r) ==
  /\ Active(r)
  /\ Fault
  /\ pc' = [pc EXCEPT ![r] = "crashed"]
  /\ Forget(r)
  /\ UNCHANGED <<at, job, told, store, hpc, user, returned, expired>>

JobEnds(i) ==
  /\ doneFor[i][2] = SubmitTask
  /\ slurm[i] = "ACTIVE"
  /\ \E s \in Endings : slurm' = [slurm EXCEPT ![i] = s]
  /\ UNCHANGED <<pc, at, job, told, store, hpc, cancelled, past, faults>>

UserCancels(r) ==
  /\ r \in Cancellable \ cancelled
  /\ Active(r)
  /\ cancelled' = cancelled \cup {r}
  /\ UNCHANGED <<pc, at, job, told, store, hpc, slurm, past, faults>>

\* A record is older than cache_expiration.
Expire(k) ==
  /\ store[k] # Absent
  /\ Cardinality(expired) < MaxExpiries
  /\ Persist(k, Absent)
  /\ expired' = expired \cup {<<k, store[k].id>>}
  /\ UNCHANGED <<pc, at, job, told, hpc, user, returned, lost, faults>>

RunStep(r) ==
  \/ Begin(r)
  \/ ReplayCall(r)
  \/ EnterBody(r)
  \/ ReplaySubmission(r)
  \/ Submit(r)
  \/ Accept(r)
  \/ RecordSubmission(r)
  \/ WaitEnds(r)
  \/ WaitFolds(r)
  \/ Conclude(r)
  \/ Execute(r)
  \/ RecordCommand(r)
  \/ CallFails(r)
  \/ Crash(r)

Next ==
  \/ \E r \in Runs : RunStep(r) \/ UserCancels(r)
  \/ \E i \in Ids : JobEnds(i)
  \/ \E k \in Keys : Expire(k)

CacheSpec == Init /\ [][Next]_vars
-----------------------------------------------------------------------------
(* Properties. *)

Live(i) ==
  /\ doneFor[i] # NoKey
  /\ i \notin lost
  /\ <<doneFor[i], i>> \notin expired

\* Nothing is done twice under one token: whatever fails after a submission
\* was recorded, later runs await that job.  Only what was lost between the
\* hpc and the record (the docstring of sbatch_submit warns of it) or whose
\* record expired may be done again (_sbatch.py 259-263, 355-359).
NothingDoneTwice ==
  \A i, j \in Ids : Live(i) /\ Live(j) /\ doneFor[i] = doneFor[j] => i = j

\* Even when runs with one token overlap, none of them does a thing twice.
NoRunRepeatsItself ==
  \A i, j \in Ids :
    Live(i) /\ Live(j) /\ doneFor[i] = doneFor[j] /\ doneBy[i] = doneBy[j] => i = j

\* A state told of a job is the one it ended in, or that of the guard of a
\* cancelled run of this token, which says nothing of the job.
ToldOf(i, s, token) ==
  \/ s = slurm[i] /\ s # "ACTIVE"
  \/ s = "CANCELLED" /\ \E q \in cancelled : KeyToken(q) = token

\* What sbatch or sbatch_try returns, now or from the store, is the state its
\* own job ended in, or CANCELLED if the user cancelled this run or the one that
\* stored it; and for sbatch it is COMPLETED, and the job is (_sbatch.py
\* 164-167, 191-193, 646-655).
Succeeded(rec) == rec.via # "raised" /\ rec.value.state # "OPERROR"

ReturnedIsTrue ==
  \A rec \in returned :
    Succeeded(rec) /\ Op[rec.call] \in {"sbatch", "sbatch_try"} =>
      LET i == rec.value.id
      IN  /\ i \in Ids
          /\ doneFor[i] = <<KeyToken(rec.run), SubmitTask, Spec[rec.call]>>
          /\ ToldOf(i, rec.value.state, KeyToken(rec.run))
          /\ Op[rec.call] = "sbatch" =>
               rec.value.state = "COMPLETED" /\ slurm[i] = "COMPLETED"

\* A run without a token uses nothing that another run did (README 236).
FreshRunIsItsOwn ==
  \A rec \in returned :
    Fresh(rec.run) /\ rec.value.id # NoId => doneBy[rec.value.id] = rec.run

\* A call that returned in one run returns the same in the next run with its
\* token, unless a record expired (README 158, 159).
RecordExpired(rec) ==
  \E e \in expired : /\ e[1][1] = KeyToken(rec.run)
                     /\ e[1][2] \in {Op[rec.call], SubmitTask}
                     /\ e[1][3] = Spec[rec.call]

RerunReplays ==
  \A a, b \in returned :
    /\ a.call = b.call
    /\ KeyToken(a.run) = KeyToken(b.run)
    /\ Succeeded(a) /\ Succeeded(b)
    /\ ~RecordExpired(a)
    => a.value = b.value

\* No failure is replayed: an error is met again only if it happens again
\* (_sbatch.py 224-226, 265-268).
NoErrorReplayed ==
  \A rec \in returned : rec.via = "cache" => rec.value.state # "OPERROR"

\* prefect.py 97-99: without a token nothing in the cache matches, and the
\* task runs.
FreshRunRuns ==
  \A rec \in returned : Fresh(rec.run) => rec.via # "cache"

\* The docstring of sbatch, for which sbatch_try is the same: "await its
\* completion, returning the final state" (_sbatch.py 159).
FinalStateReturned ==
  \A rec \in returned :
    Succeeded(rec) /\ Op[rec.call] \in {"sbatch", "sbatch_try"} =>
      rec.value.state = slurm[rec.value.id] /\ rec.value.state # "ACTIVE"

\* README 160: a task that raised is retried fresh by the next run, so two
\* runs of one token do not raise for the same job.
FailedIsRetriedFresh ==
  \A a, b \in returned :
    /\ a.via = "raised" /\ b.via = "raised"
    /\ a.value.state = "FAILED"
    /\ a.value.id = b.value.id
    => a.run = b.run

-----------------------------------------------------------------------------
(* The inductive invariant. *)

Done(i) == doneFor[i] # NoKey
SubmissionOf(k) == <<k[1], SubmitTask, k[3]>>

\* A run holds what it did for the call it is in, or awaits the job that was
\* submitted under its token for that call.
HeldForCall ==
  \A r \in Runs :
    /\ pc[r] \in {"accepted", "wait", "over"} =>
         job[r] \in Ids /\ doneFor[job[r]] = SubmitKey(r)
    /\ pc[r] = "executed" => job[r] \in Ids /\ doneFor[job[r]] = CallKey(r)
    /\ pc[r] = "over" => ToldOf(job[r], told[r], KeyToken(r))
    /\ pc[r] \in {"submission", "sbatch", "accepted", "wait", "over"} => Op[at[r]] \in SlurmOps
    /\ pc[r] \in {"exec", "executed"} => Op[at[r]] \in CommandOps

\* A stored submission is the job it was made for; a stored sbatch is what was
\* told of the job submitted under the same token.
StoreIsTrue ==
  \A k \in Keys : store[k] # Absent =>
    /\ k[2] = SubmitTask => store[k].id \in Ids /\ doneFor[store[k].id] = k
    /\ k[2] \in {"sbatch", "sbatch_try"} =>
         /\ store[k].id \in Ids
         /\ doneFor[store[k].id] = SubmissionOf(k)
         /\ ToldOf(store[k].id, store[k].state, k[1])
         /\ k[2] = "sbatch" => store[k].state = "COMPLETED"

NothingDoneForSbatch ==
  \A i \in Ids : Done(i) => doneFor[i] \in Keys /\ doneFor[i][2] \in CommandOps \cup {SubmitTask}

OneActive == \A q, r \in Runs : Active(q) /\ Active(r) => q = r

\* While a thing is being done no result of it is stored.
MissWhileDoing ==
  \A r \in Runs :
    /\ pc[r] \in {"sbatch", "accepted"} => store[SubmitKey(r)] = Absent
    /\ pc[r] \in {"exec", "executed"} => store[CallKey(r)] = Absent

\* What was done is stored, or about to be.
Tracked ==
  \A i \in Ids : Live(i) =>
    \/ store[doneFor[i]].id = i
    \/ \E r \in Runs : pc[r] \in Holding /\ job[r] = i

\* A token names a run only once that run has begun.
Announced ==
  \A q, r \in Runs :
    q # r /\ RerunToken[q] = ShortId[r] /\ pc[q] # "idle" => pc[r] # "idle"

\* Ids that are stored or were returned are used.
UsedAreDone ==
  /\ \A k \in Keys : store[k].id # NoId => Done(store[k].id)
  /\ \A rec \in returned : rec.value.id # NoId => Done(rec.value.id)

\* Under a fresh run's short id there is nothing before it, and only its own
\* while it lasts.
FreshUntouched ==
  \A r \in Runs : Fresh(r) =>
    /\ \A k \in Keys : k[1] = ShortId[r] /\ store[k].id # NoId =>
         /\ pc[r] # "idle"
         /\ Active(r) => doneBy[store[k].id] = r
    /\ pc[r] \in {"accepted", "wait", "over", "executed"} => doneBy[job[r]] = r

\* Of the runs that do not overlap.
SequentialInv ==
  /\ OneActive
  /\ MissWhileDoing
  /\ Tracked
  /\ Announced
  /\ UsedAreDone
  /\ FreshUntouched
  /\ FreshRunIsItsOwn

CacheInv ==
  /\ HeldForCall
  /\ StoreIsTrue
  /\ NothingDoneForSbatch
  /\ MayOverlap \/ SequentialInv
=============================================================================
