-------------------------- MODULE RerunCacheProofs --------------------------
(* Proofs about RerunCache for every set of flow runs, every flow, every   *)
(* assignment of tokens and any number of failures, crashes and expiries.  *)
EXTENDS RerunCache, TLAPS

\* The groups of variables and of states stand for their members throughout.
USE DEF hpc, user, past, EndStates, States

-----------------------------------------------------------------------------
(* Types. *)

\* The keys of a call are keys of the store.
LEMMA KeysOfCall ==
  ASSUME TypeOK, NEW r \in Runs
  PROVE  /\ KeyToken(r) \in Tokens
         /\ Op[at[r]] \in SlurmOps \cup CommandOps
         /\ Spec[at[r]] \in Specs
         /\ CallKey(r) \in Keys
         /\ SubmitKey(r) \in Keys
<1>1. KeyToken(r) \in Tokens
  BY TokenAssumption DEF KeyToken, Fresh
<1>2. Op[at[r]] \in SlurmOps \cup CommandOps /\ Spec[at[r]] \in Specs
  BY ProgramAssumption DEF TypeOK
<1> QED
  BY <1>1, <1>2 DEF CallKey, SubmitKey, Keys

\* The flow goes on to its next call, or is over.
LEMMA ProceedType ==
  ASSUME TypeOK, NEW r \in Runs, Proceed(r)
  PROVE  /\ pc' \in [Runs -> {"idle"} \cup InCall \cup Stopped]
         /\ at' \in [Runs -> 1..NumCalls]
         /\ pc' = [pc EXCEPT ![r] = pc'[r]]
         /\ pc'[r] \in {"call", "done"}
         /\ \A q \in Runs \ {r} : pc'[q] = pc[q] /\ at'[q] = at[q]
BY ProgramAssumption DEF Proceed, TypeOK, InCall, Stopped

\* A value made of an id and a state is one.
LEMMA ValueType ==
  ASSUME NEW i \in Ids \cup {NoId},
         NEW s \in States
  PROVE  Value(i, s) \in Values
BY DEF Value, Values

\* What Fail does to the run, and to the store.
LEMMA FailType ==
  ASSUME TypeOK, NEW r \in Runs, Fail(r)
  PROVE  /\ pc' \in [Runs -> {"idle"} \cup InCall \cup Stopped]
         /\ at' \in [Runs -> 1..NumCalls]
         /\ store' \in [Keys -> Values]
         /\ returned' \in SUBSET [run : Runs, call : 1..NumCalls, value : Values,
                                  via : {"body", "cache", "raised"}]
         /\ pc'[r] \in {"call", "done", "failed"}
         /\ \A q \in Runs \ {r} : pc'[q] = pc[q] /\ at'[q] = at[q]
         /\ \A k \in Keys : \/ store'[k] = store[k]
                            \/ /\ k = CallKey(r)
                               /\ Op[at[r]] \in {"run_try", "launch_slurm"}
                               /\ store'[k] = Value(NoId, "OPERROR")
         /\ \E via \in {"body", "raised"} : Report(r, Value(NoId, "OPERROR"), via)
<1> DEFINE e == Value(NoId, "OPERROR")
<1>1. e \in Values
  BY ValueType
<1>2. CallKey(r) \in Keys
  BY KeysOfCall
<1>3. CASE Raise(r, e)
  BY <1>3, <1>1, <1>2 DEF Raise, Report, TypeOK, Stopped
<1>4. CASE /\ Report(r, e, "body")
           /\ Proceed(r)
           /\ IF Op[at[r]] \in {"run_try", "launch_slurm"}
              THEN Persist(CallKey(r), e)
              ELSE UNCHANGED store
  <2>2. /\ store' \in [Keys -> Values]
        /\ \A k \in Keys : \/ store'[k] = store[k]
                           \/ /\ k = CallKey(r)
                              /\ Op[at[r]] \in {"run_try", "launch_slurm"}
                              /\ store'[k] = e
    BY <1>4, <1>1, <1>2 DEF Persist, TypeOK
  <2>3. returned' \in SUBSET [run : Runs, call : 1..NumCalls, value : Values,
                              via : {"body", "cache", "raised"}]
    BY <1>4, <1>1 DEF Report, TypeOK
  <2> QED
    BY <1>4, <2>2, <2>3, ProceedType
<1> QED
  BY <1>3, <1>4 DEF Fail

\* The types hold initially.
LEMMA InitType == Init => TypeOK
<1> SUFFICES ASSUME Init PROVE TypeOK
  OBVIOUS
<1>1. Absent \in Values
  BY ValueType DEF Absent
<1>2. 0 \in 0..MaxFaults /\ 1 \in 1..NumCalls
  BY RerunBoundsAssumption, ProgramAssumption
<1> QED
  BY <1>1, <1>2 DEF Init, TypeOK

\* Every step keeps them.
LEMMA NextType == TypeOK /\ HeldForCall /\ [Next]_vars => TypeOK'
<1> SUFFICES ASSUME TypeOK, HeldForCall, [Next]_vars PROVE TypeOK'
  OBVIOUS
<1> USE RerunBoundsAssumption DEF InCall, Stopped, Holding
<1>1. ASSUME NEW r \in Runs, Begin(r) PROVE TypeOK'
  BY <1>1 DEF Begin, TypeOK
<1>2. ASSUME NEW r \in Runs, ReplayCall(r) PROVE TypeOK'
  <2>1. store[CallKey(r)] \in Values
    BY KeysOfCall DEF TypeOK
  <2>2. returned' \in SUBSET [run : Runs, call : 1..NumCalls, value : Values,
                              via : {"body", "cache", "raised"}]
    BY <1>2, <2>1 DEF ReplayCall, Report, TypeOK
  <2> QED
    BY <1>2, <2>2, ProceedType DEF ReplayCall, TypeOK
<1>3. ASSUME NEW r \in Runs, EnterBody(r) PROVE TypeOK'
  BY <1>3 DEF EnterBody, TypeOK
<1>4. ASSUME NEW r \in Runs, ReplaySubmission(r) PROVE TypeOK'
  <2>1. store[SubmitKey(r)] \in Values
    BY KeysOfCall DEF TypeOK
  <2>2. store[SubmitKey(r)].id \in Ids \cup {NoId}
    BY <2>1 DEF Values
  <2>3. CASE Op[at[r]] = "sbatch_submit"
    <3>1. returned' \in SUBSET [run : Runs, call : 1..NumCalls, value : Values,
                                via : {"body", "cache", "raised"}]
      BY <1>4, <2>1, <2>3 DEF ReplaySubmission, Report, TypeOK
    <3> QED
      BY <1>4, <2>3, <3>1, ProceedType DEF ReplaySubmission, TypeOK
  <2>4. CASE Op[at[r]] # "sbatch_submit"
    BY <1>4, <2>2, <2>4 DEF ReplaySubmission, TypeOK
  <2> QED
    BY <2>3, <2>4
<1>5. ASSUME NEW r \in Runs, Submit(r) PROVE TypeOK'
  BY <1>5 DEF Submit, TypeOK
<1>6. ASSUME NEW r \in Runs, Accept(r) PROVE TypeOK'
  BY <1>6, KeysOfCall DEF Accept, DoneOnHpc, TypeOK
<1>7. ASSUME NEW r \in Runs, RecordSubmission(r) PROVE TypeOK'
  <2> DEFINE v == Value(job[r], "SUBMITTED")
  <2>1. v \in Values
    BY ValueType DEF TypeOK
  <2>2. store' \in [Keys -> Values]
    BY <1>7, <2>1, KeysOfCall DEF RecordSubmission, Persist, TypeOK
  <2>3. CASE Op[at[r]] = "sbatch_submit"
    <3>1. returned' \in SUBSET [run : Runs, call : 1..NumCalls, value : Values,
                                via : {"body", "cache", "raised"}]
      BY <1>7, <2>1, <2>3 DEF RecordSubmission, Report, TypeOK
    <3> QED
      BY <1>7, <2>2, <2>3, <3>1, ProceedType DEF RecordSubmission, TypeOK
  <2>4. CASE Op[at[r]] # "sbatch_submit"
    BY <1>7, <2>2, <2>4 DEF RecordSubmission, TypeOK
  <2> QED
    BY <2>3, <2>4
<1>8. ASSUME NEW r \in Runs, WaitEnds(r) \/ WaitFolds(r) PROVE TypeOK'
  <2>1. job[r] \in Ids
    BY <1>8 DEF WaitEnds, WaitFolds, HeldForCall
  <2> QED
    BY <1>8, <2>1 DEF WaitEnds, WaitFolds, TypeOK
<1>9. ASSUME NEW r \in Runs, Conclude(r) PROVE TypeOK'
  <2> DEFINE v == Value(job[r], told[r])
  <2>1. job[r] \in Ids /\ told[r] \in EndStates
    BY <1>9 DEF Conclude, HeldForCall, ToldOf, TypeOK
  <2>2. v \in Values
    BY <2>1, ValueType
  <2>3. CASE Raise(r, v)
    BY <1>9, <2>2, <2>3 DEF Conclude, Raise, Report, TypeOK
  <2>4. CASE Report(r, v, "body") /\ Proceed(r) /\ Persist(CallKey(r), v)
    <3>1. returned' \in SUBSET [run : Runs, call : 1..NumCalls, value : Values,
                                via : {"body", "cache", "raised"}]
      BY <2>2, <2>4 DEF Report, TypeOK
    <3>2. store' \in [Keys -> Values]
      BY <2>2, <2>4, KeysOfCall DEF Persist, TypeOK
    <3> QED
      BY <1>9, <2>4, <3>1, <3>2, ProceedType DEF Conclude, TypeOK
  <2> QED
    BY <1>9, <2>3, <2>4 DEF Conclude
<1>10. ASSUME NEW r \in Runs, Execute(r) PROVE TypeOK'
  BY <1>10, KeysOfCall DEF Execute, DoneOnHpc, TypeOK
<1>11. ASSUME NEW r \in Runs, RecordCommand(r) PROVE TypeOK'
  <2> DEFINE v == Value(job[r], "OK")
  <2>1. v \in Values
    BY ValueType DEF TypeOK
  <2>2. store' \in [Keys -> Values]
    BY <1>11, <2>1, KeysOfCall DEF RecordCommand, Persist, TypeOK
  <2>3. returned' \in SUBSET [run : Runs, call : 1..NumCalls, value : Values,
                              via : {"body", "cache", "raised"}]
    BY <1>11, <2>1 DEF RecordCommand, Report, TypeOK
  <2> QED
    BY <1>11, <2>2, <2>3, ProceedType DEF RecordCommand, TypeOK
<1>12. ASSUME NEW r \in Runs, CallFails(r) PROVE TypeOK'
  <2>1. lost' \in SUBSET Ids
    BY <1>12 DEF CallFails, Forget, HeldForCall, TypeOK
  <2>2. faults' \in 0..MaxFaults
    BY <1>12 DEF CallFails, Fault, TypeOK
  <2> QED
    BY <1>12, <2>1, <2>2, FailType DEF CallFails, TypeOK
<1>13. ASSUME NEW r \in Runs, Crash(r) PROVE TypeOK'
  <2>1. lost' \in SUBSET Ids
    BY <1>13 DEF Crash, Forget, HeldForCall, TypeOK
  <2> QED
    BY <1>13, <2>1 DEF Crash, Fault, TypeOK
<1>14. ASSUME NEW i \in Ids, JobEnds(i) PROVE TypeOK'
  BY <1>14 DEF JobEnds, TypeOK
<1>15. ASSUME NEW k \in Keys, Expire(k) PROVE TypeOK'
  <2>1. Absent \in Values
    BY ValueType DEF Absent
  <2>2. store' \in [Keys -> Values]
    BY <1>15, <2>1 DEF Expire, Persist, TypeOK
  <2>3. store[k] \in Values
    BY DEF TypeOK
  <2>4. store[k].id \in Ids \cup {NoId}
    BY <2>3 DEF Values
  <2>5. expired' \in SUBSET (Keys \X (Ids \cup {NoId}))
    BY <1>15, <2>4 DEF Expire, TypeOK
  <2> QED
    BY <1>15, <2>2, <2>5 DEF Expire, TypeOK
<1>17. ASSUME NEW r \in Runs, UserCancels(r) PROVE TypeOK'
  BY <1>17 DEF UserCancels, TypeOK
<1>16. ASSUME UNCHANGED vars PROVE TypeOK'
  BY <1>16 DEF vars, TypeOK
<1> QED
  BY <1>1, <1>2, <1>3, <1>4, <1>5, <1>6, <1>7, <1>8, <1>9, <1>10, <1>11, <1>12,
     <1>13, <1>14, <1>15, <1>16, <1>17 DEF Next, RunStep

-----------------------------------------------------------------------------
(* What is stored and awaited is what was done for it. *)

\* NoKey is not a key.
LEMMA NoKeyIsNone == NoKey \notin Keys
BY DEF NoKey, Keys, SlurmOps, CommandOps, SubmitTask

\* What is stored is not absent.
LEMMA AbsentHasNoId ==
  /\ Absent.id = NoId
  /\ NoId \notin Ids
  /\ \A i, s : Value(i, s).id = i /\ Value(i, s).state = s
BY IdAssumption DEF Absent, Value, NoId

\* Something done for the key k leaves everything done before as it was.
LEMMA DoneEffect ==
  ASSUME TypeOK, NEW r \in Runs, NEW k \in Keys, DoneOnHpc(r, k)
  PROVE  /\ job'[r] \in Ids
         /\ doneFor[job'[r]] = NoKey
         /\ doneFor'[job'[r]] = k
         /\ doneBy'[job'[r]] = r
         /\ \A i \in Ids \ {job'[r]} : doneFor'[i] = doneFor[i] /\ doneBy'[i] = doneBy[i]
         /\ \A i \in Ids : doneFor[i] # NoKey => doneFor'[i] = doneFor[i] /\ doneBy'[i] = doneBy[i]
         /\ \A q \in Runs \ {r} : job'[q] = job[q]
BY DEF DoneOnHpc, TypeOK

\* What HeldForCall says of one run.
HeldBy(q) ==
  /\ pc[q] \in {"accepted", "wait", "over"} =>
       job[q] \in Ids /\ doneFor[job[q]] = SubmitKey(q)
  /\ pc[q] = "executed" => job[q] \in Ids /\ doneFor[job[q]] = CallKey(q)
  /\ pc[q] = "over" => ToldOf(job[q], told[q], KeyToken(q))
  /\ pc[q] \in {"submission", "sbatch", "accepted", "wait", "over"} => Op[at[q]] \in SlurmOps
  /\ pc[q] \in {"exec", "executed"} => Op[at[q]] \in CommandOps

\* ToldOf in the next state, of an id and a state given in any.
ToldNext(i, s, token) ==
  \/ s = slurm'[i] /\ s # "ACTIVE"
  \/ s = "CANCELLED" /\ \E q \in cancelled' : KeyToken(q) = token

\* What was told of a job stays true of it.
LEMMA ToldKept ==
  ASSUME TypeOK, NEW i \in Ids, NEW s, NEW token, ToldOf(i, s, token),
         \A j \in Ids : slurm[j] # "ACTIVE" => slurm'[j] = slurm[j],
         cancelled \subseteq cancelled'
  PROVE  ToldNext(i, s, token)
BY DEF ToldOf, ToldNext

\* A run whose own variables stay as they are still holds what it held.
LEMMA HeldKept ==
  ASSUME TypeOK, NEW q \in Runs, HeldBy(q),
         pc'[q] = pc[q], at'[q] = at[q], job'[q] = job[q], told'[q] = told[q],
         \A i \in Ids : doneFor[i] # NoKey => doneFor'[i] = doneFor[i],
         \A i \in Ids : slurm[i] # "ACTIVE" => slurm'[i] = slurm[i],
         cancelled \subseteq cancelled'
  PROVE  HeldBy(q)'
<1>1. SubmitKey(q) # NoKey /\ CallKey(q) # NoKey
  BY KeysOfCall, NoKeyIsNone
<1>2. SubmitKey(q)' = SubmitKey(q) /\ CallKey(q)' = CallKey(q)
  BY DEF SubmitKey, CallKey, KeyToken
<1>3. ASSUME pc[q] = "over" PROVE ToldNext(job'[q], told'[q], KeyToken(q))
  <2>1. job[q] \in Ids /\ ToldOf(job[q], told[q], KeyToken(q))
    BY <1>3 DEF HeldBy
  <2>2. ToldNext(job[q], told[q], KeyToken(q))
    BY <2>1, ToldKept
  <2> QED
    BY <2>2
<1> QED
  BY <1>1, <1>2, <1>3 DEF HeldBy, ToldOf, ToldNext, KeyToken, Fresh

\* What a step of a run leaves alone of the others, and how slurm and doneFor
\* may change at all.
LEMMA OthersKept ==
  ASSUME TypeOK, HeldForCall, [Next]_vars
  PROVE  /\ \A i \in Ids : doneFor[i] # NoKey => doneFor'[i] = doneFor[i] /\ doneBy'[i] = doneBy[i]
         /\ \A i \in Ids : slurm[i] # "ACTIVE" => slurm'[i] = slurm[i]
         /\ \A r \in Runs : RunStep(r) =>
              \A q \in Runs \ {r} : /\ pc'[q] = pc[q] /\ at'[q] = at[q]
                                    /\ job'[q] = job[q] /\ told'[q] = told[q]
         /\ cancelled \subseteq cancelled'
<1>1. \A i \in Ids : doneFor[i] # NoKey => doneFor'[i] = doneFor[i] /\ doneBy'[i] = doneBy[i]
  <2>1. ASSUME NEW r \in Runs, Accept(r) PROVE <1>1!:
    BY <2>1, KeysOfCall, DoneEffect DEF Accept
  <2>2. ASSUME NEW r \in Runs, Execute(r) PROVE <1>1!:
    BY <2>2, KeysOfCall, DoneEffect DEF Execute
  <2> QED
    BY <2>1, <2>2 DEF Next, RunStep, vars, Begin, ReplayCall, EnterBody, ReplaySubmission,
       Submit, RecordSubmission, WaitEnds, WaitFolds, Conclude, RecordCommand, CallFails, Crash,
       JobEnds, UserCancels, Expire
<1>2. \A i \in Ids : slurm[i] # "ACTIVE" => slurm'[i] = slurm[i]
  <2>1. ASSUME NEW j \in Ids, JobEnds(j) PROVE <1>2!:
    BY <2>1 DEF JobEnds, TypeOK
  <2> QED
    BY <2>1 DEF Next, RunStep, vars, Begin, ReplayCall, EnterBody, ReplaySubmission,
       Submit, Accept, RecordSubmission, WaitEnds, WaitFolds, Conclude, Execute, RecordCommand,
       CallFails, Crash, UserCancels, Expire
<1>3. ASSUME NEW r \in Runs, RunStep(r), NEW q \in Runs \ {r}
      PROVE  pc'[q] = pc[q] /\ at'[q] = at[q] /\ job'[q] = job[q] /\ told'[q] = told[q]
  <2>1. CASE Accept(r) \/ Execute(r)
    BY <2>1, KeysOfCall, DoneEffect DEF Accept, Execute, TypeOK
  <2>2. CASE CallFails(r)
    BY <2>2, FailType DEF CallFails
  <2>3. CASE ReplayCall(r) \/ RecordCommand(r)
    BY <2>3, ProceedType DEF ReplayCall, RecordCommand
  <2>4. CASE Begin(r) \/ EnterBody(r) \/ Submit(r) \/ WaitEnds(r) \/ WaitFolds(r) \/ Crash(r)
    BY <2>4 DEF Begin, EnterBody, Submit, WaitEnds, WaitFolds, Crash, TypeOK
  <2>5. CASE ReplaySubmission(r)
    BY <2>5, ProceedType DEF ReplaySubmission, TypeOK
  <2>6. CASE RecordSubmission(r)
    BY <2>6, ProceedType DEF RecordSubmission, TypeOK
  <2>7. CASE Conclude(r)
    BY <2>7, ProceedType DEF Conclude, Raise, TypeOK
  <2> QED
    BY <1>3, <2>1, <2>2, <2>3, <2>4, <2>5, <2>6, <2>7 DEF RunStep
<1>4. cancelled \subseteq cancelled'
  BY DEF Next, RunStep, vars, Begin, ReplayCall, EnterBody, ReplaySubmission, Submit,
     Accept, RecordSubmission, WaitEnds, WaitFolds, Conclude, Execute, RecordCommand,
     CallFails, Crash, JobEnds, UserCancels, Expire
<1> QED
  BY <1>1, <1>2, <1>3, <1>4

\* HeldForCall is kept.
LEMMA NextHeld == TypeOK /\ HeldForCall /\ StoreIsTrue /\ [Next]_vars => HeldForCall'
<1> SUFFICES ASSUME TypeOK, HeldForCall, StoreIsTrue, [Next]_vars, NEW q \in Runs
             PROVE  HeldBy(q)'
  BY DEF HeldForCall, HeldBy
<1>0. HeldBy(q)
  BY DEF HeldForCall, HeldBy
<1>a. CASE pc'[q] = pc[q] /\ at'[q] = at[q] /\ job'[q] = job[q] /\ told'[q] = told[q]
  BY <1>0, <1>a, HeldKept, OthersKept
<1>b. CASE RunStep(q)
  <2>1. CASE pc'[q] \in {"call", "done", "failed", "crashed"}
    BY <2>1 DEF HeldBy
  <2>2. CASE EnterBody(q)
    <3>1. Op[at[q]] \in SlurmOps \cup CommandOps
      BY KeysOfCall
    <3> QED
      BY <2>2, <3>1 DEF EnterBody, HeldBy, TypeOK
  <2>3. CASE ReplaySubmission(q) /\ Op[at[q]] # "sbatch_submit"
    <3>1. /\ store[SubmitKey(q)] # Absent
          /\ job'[q] = store[SubmitKey(q)].id
          /\ pc'[q] = "wait" /\ pc[q] = "submission"
          /\ at' = at /\ doneFor' = doneFor
      BY <2>3 DEF ReplaySubmission, TypeOK
    <3>2. job'[q] \in Ids /\ doneFor[job'[q]] = SubmitKey(q)
      BY <3>1, KeysOfCall DEF StoreIsTrue, SubmitKey
    <3>3. SubmitKey(q)' = SubmitKey(q)
      BY <3>1 DEF SubmitKey, KeyToken
    <3> QED
      BY <1>0, <3>1, <3>2, <3>3 DEF HeldBy
  <2>4. CASE Submit(q)
    BY <1>0, <2>4 DEF Submit, HeldBy, TypeOK
  <2>5. CASE Accept(q)
    <3>1. /\ job'[q] \in Ids /\ doneFor'[job'[q]] = SubmitKey(q)
          /\ pc'[q] = "accepted" /\ pc[q] = "sbatch" /\ at' = at
      BY <2>5, KeysOfCall, DoneEffect DEF Accept, TypeOK
    <3>2. SubmitKey(q)' = SubmitKey(q)
      BY <3>1 DEF SubmitKey, KeyToken
    <3> QED
      BY <1>0, <3>1, <3>2 DEF HeldBy
  <2>6. CASE RecordSubmission(q) /\ Op[at[q]] # "sbatch_submit"
    <3>1. /\ pc[q] = "accepted" /\ pc'[q] = "wait"
          /\ at' = at /\ job' = job /\ doneFor' = doneFor
      BY <2>6 DEF RecordSubmission, TypeOK
    <3>2. SubmitKey(q)' = SubmitKey(q)
      BY <3>1 DEF SubmitKey, KeyToken
    <3> QED
      BY <1>0, <3>1, <3>2 DEF HeldBy
  <2>7. CASE WaitEnds(q) \/ WaitFolds(q)
    <3>1. /\ pc[q] = "wait" /\ pc'[q] = "over"
          /\ at' = at /\ job' = job /\ doneFor' = doneFor /\ user' = user
          /\ \/ told'[q] = slurm[job[q]] /\ slurm[job[q]] # "ACTIVE"
             \/ told'[q] = "CANCELLED" /\ q \in cancelled
      BY <2>7 DEF WaitEnds, WaitFolds, TypeOK
    <3>2. SubmitKey(q)' = SubmitKey(q)
      BY <3>1 DEF SubmitKey, KeyToken
    <3>3. ToldNext(job'[q], told'[q], KeyToken(q))
      BY <3>1 DEF ToldNext
    <3> QED
      BY <1>0, <3>1, <3>2, <3>3 DEF HeldBy, ToldOf, ToldNext, KeyToken, Fresh
  <2>8. CASE Execute(q)
    <3>1. /\ job'[q] \in Ids /\ doneFor'[job'[q]] = CallKey(q)
          /\ pc'[q] = "executed" /\ pc[q] = "exec" /\ at' = at
      BY <2>8, KeysOfCall, DoneEffect DEF Execute, TypeOK
    <3>2. CallKey(q)' = CallKey(q)
      BY <3>1 DEF CallKey, KeyToken
    <3> QED
      BY <1>0, <3>1, <3>2 DEF HeldBy
  <2>9. CASE \/ Begin(q) \/ ReplayCall(q) \/ RecordCommand(q) \/ CallFails(q)
             \/ Crash(q) \/ Conclude(q)
             \/ RecordSubmission(q) /\ Op[at[q]] = "sbatch_submit"
             \/ ReplaySubmission(q) /\ Op[at[q]] = "sbatch_submit"
    <3>1. pc'[q] \in {"call", "done", "failed", "crashed"}
      BY <2>9, ProceedType, FailType
         DEF Begin, ReplayCall, RecordCommand, CallFails, Crash, Conclude, Raise,
             RecordSubmission, ReplaySubmission, TypeOK
    <3> QED
      BY <2>1, <3>1
  <2> QED
    BY <1>b, <2>2, <2>3, <2>4, <2>5, <2>6, <2>7, <2>8, <2>9 DEF RunStep
<1>c. ASSUME NEW r \in Runs, RunStep(r), r # q PROVE HeldBy(q)'
  BY <1>c, <1>a, OthersKept
<1>d. ASSUME \/ \E i \in Ids : JobEnds(i)
             \/ \E p \in Runs : UserCancels(p)
             \/ \E k \in Keys : Expire(k)
             \/ UNCHANGED vars
      PROVE  HeldBy(q)'
  BY <1>a, <1>d DEF JobEnds, UserCancels, Expire, vars
<1> QED
  BY <1>b, <1>c, <1>d DEF Next

\* What StoreIsTrue says of one key.
TrueAt(k) ==
  store[k] # Absent =>
    /\ k[2] = SubmitTask => store[k].id \in Ids /\ doneFor[store[k].id] = k
    /\ k[2] \in {"sbatch", "sbatch_try"} =>
         /\ store[k].id \in Ids
         /\ doneFor[store[k].id] = SubmissionOf(k)
         /\ ToldOf(store[k].id, store[k].state, k[1])
         /\ k[2] = "sbatch" => store[k].state = "COMPLETED"

\* A record that a step leaves alone stays true.
LEMMA TrueKept ==
  ASSUME TypeOK, HeldForCall, [Next]_vars, NEW k \in Keys, TrueAt(k), store'[k] = store[k]
  PROVE  TrueAt(k)'
<1>1. k # NoKey
  BY NoKeyIsNone
<1>2. k[2] \in {"sbatch", "sbatch_try"} => SubmissionOf(k) # NoKey
  BY NoKeyIsNone DEF SubmissionOf, NoKey, SubmitTask
<1>3. ASSUME store[k].id \in Ids, ToldOf(store[k].id, store[k].state, k[1])
      PROVE  ToldNext(store'[k].id, store'[k].state, k[1])
  <2>1. ToldNext(store[k].id, store[k].state, k[1])
    BY <1>3, OthersKept DEF ToldOf, ToldNext
  <2> QED
    BY <2>1
<1> QED
  BY <1>1, <1>2, <1>3, OthersKept DEF TrueAt, ToldOf, ToldNext, KeyToken, Fresh

\* StoreIsTrue is kept.
LEMMA NextTrue == TypeOK /\ HeldForCall /\ StoreIsTrue /\ [Next]_vars => StoreIsTrue'
<1> SUFFICES ASSUME TypeOK, HeldForCall, StoreIsTrue, [Next]_vars, NEW k \in Keys
             PROVE  TrueAt(k)'
  BY DEF StoreIsTrue, TrueAt
<1>0. TrueAt(k)
  BY DEF StoreIsTrue, TrueAt
<1>1. CASE store'[k] = store[k]
  BY <1>0, <1>1, TrueKept
<1>2. ASSUME NEW r \in Runs, RecordSubmission(r) PROVE TrueAt(k)'
  <2>1. CASE k = SubmitKey(r)
    <3>1. store'[k] = Value(job[r], "SUBMITTED") /\ doneFor' = doneFor
      BY <1>2, <2>1 DEF RecordSubmission, Persist, TypeOK
    <3>2. job[r] \in Ids /\ doneFor[job[r]] = k
      BY <1>2, <2>1 DEF RecordSubmission, HeldForCall
    <3>3. k[2] = SubmitTask /\ k[2] \notin {"sbatch", "sbatch_try"}
      BY <2>1 DEF SubmitKey, SubmitTask
    <3> QED
      BY <3>1, <3>2, <3>3, AbsentHasNoId DEF TrueAt
  <2>2. CASE k # SubmitKey(r)
    BY <1>1, <1>2, <2>2, KeysOfCall DEF RecordSubmission, Persist, TypeOK
  <2> QED
    BY <2>1, <2>2
<1>3. ASSUME NEW r \in Runs, Conclude(r) PROVE TrueAt(k)'
  <2> DEFINE v == Value(job[r], told[r])
  <2>1. CASE k = CallKey(r) /\ store'[k] # store[k]
    <3>1. /\ store'[k] = v /\ doneFor' = doneFor /\ user' = user
          /\ Op[at[r]] = "sbatch" => told[r] = "COMPLETED"
      BY <1>3, <2>1, AbsentHasNoId DEF Conclude, Raise, Persist, TypeOK
    <3>2. /\ job[r] \in Ids /\ doneFor[job[r]] = SubmitKey(r)
          /\ ToldOf(job[r], told[r], KeyToken(r))
      BY <1>3 DEF Conclude, HeldForCall
    <3>3. SubmissionOf(k) = SubmitKey(r) /\ k[2] = Op[at[r]] /\ k[1] = KeyToken(r)
      BY <2>1 DEF SubmissionOf, SubmitKey, CallKey
    <3>5. ToldNext(job[r], told[r], k[1])
      BY <3>1, <3>2, <3>3 DEF ToldOf, ToldNext
    <3>4. k[2] # SubmitTask
      BY <3>3, KeysOfCall DEF SlurmOps, CommandOps, SubmitTask
    <3> QED
      BY <3>1, <3>2, <3>3, <3>4, <3>5, AbsentHasNoId
         DEF TrueAt, SubmissionOf, ToldOf, ToldNext, KeyToken, Fresh
  <2>2. CASE k # CallKey(r)
    <3>1. store'[k] = store[k]
      BY <1>3, <2>2, KeysOfCall DEF Conclude, Raise, Persist, TypeOK
    <3> QED
      BY <1>1, <3>1
  <2> QED
    BY <1>1, <2>1, <2>2
<1>4. ASSUME NEW r \in Runs, RecordCommand(r) PROVE TrueAt(k)'
  <2>1. CASE k = CallKey(r)
    <3>1. Op[at[r]] \in CommandOps
      BY <1>4 DEF RecordCommand, HeldForCall
    <3>2. k[2] \notin {SubmitTask, "sbatch", "sbatch_try"}
      BY <2>1, <3>1 DEF CallKey, CommandOps, SubmitTask
    <3> QED
      BY <3>2 DEF TrueAt
  <2>2. CASE k # CallKey(r)
    BY <1>1, <1>4, <2>2, KeysOfCall DEF RecordCommand, Persist, TypeOK
  <2> QED
    BY <2>1, <2>2
<1>5. ASSUME NEW r \in Runs, CallFails(r) PROVE TrueAt(k)'
  <2>1. store'[k] = store[k] \/ (k = CallKey(r) /\ Op[at[r]] \in {"run_try", "launch_slurm"})
    BY <1>5, FailType DEF CallFails
  <2>2. CASE k = CallKey(r) /\ Op[at[r]] \in {"run_try", "launch_slurm"}
    <3>1. k[2] \notin {SubmitTask, "sbatch", "sbatch_try"}
      BY <2>2 DEF CallKey, SubmitTask
    <3> QED
      BY <3>1 DEF TrueAt
  <2> QED
    BY <1>1, <2>1, <2>2
<1>6. ASSUME NEW e \in Keys, Expire(e) PROVE TrueAt(k)'
  <2>1. store'[k] = store[k] \/ store'[k] = Absent
    BY <1>6 DEF Expire, Persist, TypeOK
  <2>2. CASE store'[k] = Absent
    BY <2>2 DEF TrueAt, Absent, Value
  <2> QED
    BY <1>1, <2>1, <2>2
<1>7. ASSUME NEW r \in Runs,
             \/ Begin(r) \/ ReplayCall(r) \/ EnterBody(r) \/ ReplaySubmission(r) \/ Submit(r)
             \/ Accept(r) \/ WaitEnds(r) \/ WaitFolds(r) \/ Execute(r) \/ Crash(r)
      PROVE  store' = store
  BY <1>7 DEF Begin, ReplayCall, EnterBody, ReplaySubmission, Submit, Accept, WaitEnds, WaitFolds,
     Execute, Crash
<1>8. ASSUME (\E i \in Ids : JobEnds(i)) \/ (\E p \in Runs : UserCancels(p)) \/ UNCHANGED vars PROVE store' = store
  BY <1>8 DEF JobEnds, UserCancels, vars
<1> QED
  BY <1>1, <1>2, <1>3, <1>4, <1>5, <1>6, <1>7, <1>8 DEF Next, RunStep

\* Only submissions and commands are done on the hpc.
LEMMA NextNothing ==
  TypeOK /\ HeldForCall /\ NothingDoneForSbatch /\ [Next]_vars => NothingDoneForSbatch'
<1> SUFFICES ASSUME TypeOK, HeldForCall, NothingDoneForSbatch, [Next]_vars, NEW i \in Ids,
                    doneFor'[i] # NoKey
             PROVE  doneFor'[i] \in Keys /\ doneFor'[i][2] \in CommandOps \cup {SubmitTask}
  BY DEF NothingDoneForSbatch, Done
<1>1. CASE doneFor'[i] = doneFor[i]
  BY <1>1 DEF NothingDoneForSbatch, Done
<1>2. ASSUME NEW r \in Runs, Accept(r), doneFor'[i] # doneFor[i]
      PROVE  doneFor'[i] \in Keys /\ doneFor'[i][2] \in CommandOps \cup {SubmitTask}
  <2>1. doneFor'[i] = SubmitKey(r) /\ SubmitKey(r) \in Keys
    BY <1>2, KeysOfCall, DoneEffect DEF Accept
  <2> QED
    BY <2>1 DEF SubmitKey
<1>3. ASSUME NEW r \in Runs, Execute(r), doneFor'[i] # doneFor[i]
      PROVE  doneFor'[i] \in Keys /\ doneFor'[i][2] \in CommandOps \cup {SubmitTask}
  <2>1. doneFor'[i] = CallKey(r) /\ CallKey(r) \in Keys
    BY <1>3, KeysOfCall, DoneEffect DEF Execute
  <2>2. Op[at[r]] \in CommandOps
    BY <1>3 DEF Execute, HeldForCall
  <2> QED
    BY <2>1, <2>2 DEF CallKey
<1> QED
  BY <1>1, <1>2, <1>3 DEF Next, RunStep, vars, Begin, ReplayCall, EnterBody, ReplaySubmission,
     Submit, RecordSubmission, WaitEnds, WaitFolds, Conclude, RecordCommand, CallFails, Crash,
     JobEnds, UserCancels, Expire

-----------------------------------------------------------------------------
(* Runs that do not overlap. *)

\* At most one run is in a call.
LEMMA NextOne ==
  ASSUME TypeOK, HeldForCall, ~MayOverlap, OneActive, [Next]_vars
  PROVE  OneActive'
<1> SUFFICES ASSUME NEW q \in Runs, NEW r \in Runs, Active(q)', Active(r)' PROVE q = r
  BY DEF OneActive
<1>1. ASSUME NEW p \in Runs, Begin(p) PROVE q = r
  <2>1. \A x \in Runs : ~Active(x)
    BY <1>1 DEF Begin
  <2>2. \A x \in Runs \ {p} : pc'[x] = pc[x]
    BY <1>1 DEF Begin, TypeOK
  <2> QED
    BY <2>1, <2>2 DEF Active
<1>2. ASSUME NEW p \in Runs, RunStep(p), ~Begin(p) PROVE q = r
  <2>1. Active(p)
    BY <1>2 DEF RunStep, ReplayCall, EnterBody, ReplaySubmission, Submit, Accept,
       RecordSubmission, WaitEnds, WaitFolds, Conclude, Execute, RecordCommand, CallFails, Crash,
       Active, InCall, Holding
  <2>2. \A x \in Runs \ {p} : pc'[x] = pc[x]
    BY <1>2, OthersKept
  <2>3. Active(q) /\ Active(r)
    BY <2>1, <2>2 DEF Active
  <2> QED
    BY <2>3 DEF OneActive
<1>3. ASSUME \/ \E i \in Ids : JobEnds(i)
             \/ \E p \in Runs : UserCancels(p)
             \/ \E k \in Keys : Expire(k)
             \/ UNCHANGED vars
      PROVE  q = r
  <2>1. pc' = pc
    BY <1>3 DEF JobEnds, UserCancels, Expire, vars
  <2> QED
    BY <2>1 DEF OneActive, Active
<1> QED
  BY <1>1, <1>2, <1>3 DEF Next

\* While a run is in a call no other takes a step.
LEMMA Alone ==
  ASSUME TypeOK, ~MayOverlap, OneActive, NEW q \in Runs, Active(q), NEW r \in Runs, RunStep(r)
  PROVE  r = q
<1>1. CASE Begin(r)
  BY <1>1 DEF Begin
<1>2. CASE ~Begin(r)
  <2>1. Active(r)
    BY <1>2 DEF RunStep, ReplayCall, EnterBody, ReplaySubmission, Submit, Accept,
       RecordSubmission, WaitEnds, WaitFolds, Conclude, Execute, RecordCommand, CallFails, Crash,
       Active, InCall, Holding
  <2> QED
    BY <2>1 DEF OneActive
<1> QED
  BY <1>1, <1>2

\* What MissWhileDoing says of one run.
MissOf(q) ==
  /\ pc[q] \in {"sbatch", "accepted"} => store[SubmitKey(q)] = Absent
  /\ pc[q] \in {"exec", "executed"} => store[CallKey(q)] = Absent

\* MissWhileDoing is kept.
LEMMA NextMiss ==
  ASSUME TypeOK, HeldForCall, ~MayOverlap, OneActive, MissWhileDoing, [Next]_vars
  PROVE  MissWhileDoing'
<1> SUFFICES ASSUME NEW q \in Runs PROVE MissOf(q)'
  BY DEF MissWhileDoing, MissOf
<1>0. MissOf(q)
  BY DEF MissWhileDoing, MissOf
<1>k. at' = at => SubmitKey(q)' = SubmitKey(q) /\ CallKey(q)' = CallKey(q)
  BY DEF SubmitKey, CallKey, KeyToken
<1>1. CASE RunStep(q)
  <2>1. CASE Submit(q)
    <3>1. pc'[q] = "sbatch" /\ at' = at /\ store' = store /\ store[SubmitKey(q)] = Absent
      BY <2>1 DEF Submit, TypeOK
    <3> QED
      BY <3>1, <1>k DEF MissOf
  <2>2. CASE Accept(q)
    <3>1. pc[q] = "sbatch" /\ pc'[q] = "accepted" /\ at' = at /\ store' = store
      BY <2>2 DEF Accept, TypeOK
    <3> QED
      BY <1>0, <3>1, <1>k DEF MissOf
  <2>3. CASE EnterBody(q)
    <3>1. /\ pc'[q] \in {"submission", "exec"} /\ at' = at /\ store' = store
          /\ pc'[q] = "exec" => store[CallKey(q)] = Absent
      BY <2>3 DEF EnterBody, SlurmOps, TypeOK
    <3> QED
      BY <3>1, <1>k DEF MissOf
  <2>4. CASE Execute(q)
    <3>1. pc[q] = "exec" /\ pc'[q] = "executed" /\ at' = at /\ store' = store
      BY <2>4 DEF Execute, TypeOK
    <3> QED
      BY <1>0, <3>1, <1>k DEF MissOf
  <2>5. CASE \/ Begin(q) \/ ReplayCall(q) \/ ReplaySubmission(q) \/ RecordSubmission(q)
             \/ WaitEnds(q) \/ WaitFolds(q) \/ Conclude(q) \/ RecordCommand(q) \/ CallFails(q) \/ Crash(q)
    <3>1. pc'[q] \in {"call", "wait", "over", "done", "failed", "crashed"}
      BY <2>5, ProceedType, FailType
         DEF Begin, ReplayCall, ReplaySubmission, RecordSubmission, WaitEnds, WaitFolds, Conclude,
             Raise, RecordCommand, CallFails, Crash, TypeOK
    <3> QED
      BY <3>1 DEF MissOf
  <2> QED
    BY <1>1, <2>1, <2>2, <2>3, <2>4, <2>5 DEF RunStep
<1>2. ASSUME NEW r \in Runs, RunStep(r), r # q PROVE MissOf(q)'
  <2>1. ~Active(q)
    BY <1>2, Alone
  <2>2. pc'[q] = pc[q]
    BY <1>2, OthersKept
  <2> QED
    BY <2>1, <2>2 DEF MissOf, Active, InCall, Holding
<1>3. ASSUME NEW k \in Keys, Expire(k) PROVE MissOf(q)'
  <2>1. pc' = pc /\ at' = at /\ \A e \in Keys : store'[e] \in {store[e], Absent}
    BY <1>3 DEF Expire, Persist, TypeOK
  <2> QED
    BY <1>0, <1>k, <2>1, KeysOfCall DEF MissOf
<1>4. ASSUME (\E i \in Ids : JobEnds(i)) \/ (\E p \in Runs : UserCancels(p)) \/ UNCHANGED vars PROVE MissOf(q)'
  <2>1. pc' = pc /\ at' = at /\ store' = store
    BY <1>4 DEF JobEnds, UserCancels, vars
  <2> QED
    BY <1>0, <1>k, <2>1 DEF MissOf
<1> QED
  BY <1>1, <1>2, <1>3, <1>4 DEF Next

\* What Tracked says of one id.
TrackedId(i) ==
  Live(i) => \/ store[doneFor[i]].id = i
             \/ \E r \in Runs : pc[r] \in Holding /\ job[r] = i

\* A record written under the key of the run's own call, where there was none,
\* loses no other id.
LEMMA WriteKeeps ==
  ASSUME TypeOK, HeldForCall, OneActive, MissWhileDoing, NothingDoneForSbatch,
         NEW r \in Runs, NEW i \in Ids, NEW k \in Keys, TrackedId(i), Live(i), doneFor[i] = k,
         \/ pc[r] \in {"exec", "executed"} /\ k = CallKey(r)
         \/ pc[r] \in {"sbatch", "accepted"} /\ k = SubmitKey(r)
  PROVE  pc[r] \in Holding /\ job[r] = i
<1>1. store[k] = Absent
  BY DEF MissWhileDoing
<1>2. store[k].id # i
  BY <1>1, AbsentHasNoId
<1>3. PICK q \in Runs : pc[q] \in Holding /\ job[q] = i
  BY <1>2 DEF TrackedId
<1>4. Active(q) /\ Active(r)
  BY <1>3 DEF Active, InCall, Holding
<1> QED
  BY <1>3, <1>4 DEF OneActive

\* Tracked is kept.
LEMMA NextTracked ==
  ASSUME TypeOK, HeldForCall, NothingDoneForSbatch, ~MayOverlap, OneActive, MissWhileDoing,
         Tracked, [Next]_vars
  PROVE  Tracked'
<1> SUFFICES ASSUME NEW i \in Ids, Live(i)'
             PROVE  \/ store'[doneFor'[i]].id = i
                    \/ \E r \in Runs : pc'[r] \in Holding /\ job'[r] = i
  BY DEF Tracked
<1> DEFINE Goal == \/ store'[doneFor'[i]].id = i
                   \/ \E r \in Runs : pc'[r] \in Holding /\ job'[r] = i
<1>0. TrackedId(i)
  BY DEF Tracked, TrackedId
<1>n. NoKey \notin Keys /\ doneFor[i] \in Keys \cup {NoKey}
  BY NoKeyIsNone DEF TypeOK
\* Steps that touch neither what is done, nor the store, nor what is held.
<1>1. ASSUME /\ doneFor' = doneFor /\ store' = store /\ lost' = lost /\ expired' = expired
             /\ \A q \in Runs : pc[q] \in Holding => pc'[q] \in Holding /\ job'[q] = job[q]
      PROVE  Goal
  BY <1>0, <1>1 DEF TrackedId, Live
<1>2. ASSUME NEW r \in Runs, Accept(r) \/ Execute(r) PROVE Goal
  <2>1. /\ pc'[r] \in Holding /\ store' = store /\ lost' = lost /\ expired' = expired
        /\ pc[r] \notin Holding
        /\ \A q \in Runs \ {r} : pc'[q] = pc[q] /\ job'[q] = job[q]
    BY <1>2, KeysOfCall, DoneEffect DEF Accept, Execute, Holding, TypeOK
  <2>2. i = job'[r] \/ doneFor'[i] = doneFor[i]
    BY <1>2, KeysOfCall, DoneEffect DEF Accept, Execute
  <2>3. CASE doneFor'[i] = doneFor[i]
    BY <1>0, <2>1, <2>3 DEF TrackedId, Live
  <2> QED
    BY <2>1, <2>2, <2>3
<1>3. ASSUME NEW r \in Runs, RecordSubmission(r) PROVE Goal
  <2>1. /\ doneFor' = doneFor /\ lost' = lost /\ expired' = expired /\ job' = job
        /\ pc[r] = "accepted"
        /\ store' = [store EXCEPT ![SubmitKey(r)] = Value(job[r], "SUBMITTED")]
    BY <1>3 DEF RecordSubmission, Persist
  <2>2. Live(i) /\ doneFor[i] \in Keys
    BY <1>n, <2>1 DEF Live
  <2>3. SubmitKey(r) \in Keys
    BY KeysOfCall
  <2>4. CASE doneFor[i] = SubmitKey(r)
    <3>1. job[r] = i
      BY <1>0, <2>1, <2>2, <2>4, WriteKeeps
    <3> QED
      BY <2>1, <2>3, <2>4, <3>1, AbsentHasNoId DEF TypeOK
  <2>5. CASE doneFor[i] # SubmitKey(r)
    <3>1. store'[doneFor[i]] = store[doneFor[i]]
      BY <2>1, <2>2, <2>5 DEF TypeOK
    <3>2. CASE store[doneFor[i]].id = i
      BY <2>1, <3>1, <3>2
    <3>3. CASE store[doneFor[i]].id # i
      <4>1. PICK q \in Runs : pc[q] \in Holding /\ job[q] = i
        BY <1>0, <2>2, <3>3 DEF TrackedId
      <4>2. q = r
        BY <2>1, <4>1 DEF OneActive, Active, InCall, Holding
      <4>3. doneFor[i] = SubmitKey(r)
        BY <2>1, <4>1, <4>2 DEF HeldForCall
      <4> QED
        BY <2>5, <4>3
    <3> QED
      BY <3>2, <3>3
  <2> QED
    BY <2>4, <2>5
<1>4. ASSUME NEW r \in Runs, RecordCommand(r) PROVE Goal
  <2>1. /\ doneFor' = doneFor /\ lost' = lost /\ expired' = expired /\ job' = job
        /\ pc[r] = "executed"
        /\ store' = [store EXCEPT ![CallKey(r)] = Value(job[r], "OK")]
    BY <1>4 DEF RecordCommand, Persist
  <2>2. Live(i) /\ doneFor[i] \in Keys
    BY <1>n, <2>1 DEF Live
  <2>3. CallKey(r) \in Keys
    BY KeysOfCall
  <2>4. CASE doneFor[i] = CallKey(r)
    <3>1. job[r] = i
      BY <1>0, <2>1, <2>2, <2>4, WriteKeeps
    <3> QED
      BY <2>1, <2>3, <2>4, <3>1, AbsentHasNoId DEF TypeOK
  <2>5. CASE doneFor[i] # CallKey(r)
    <3>1. store'[doneFor[i]] = store[doneFor[i]]
      BY <2>1, <2>2, <2>5 DEF TypeOK
    <3>2. CASE store[doneFor[i]].id = i
      BY <2>1, <3>1, <3>2
    <3>3. CASE store[doneFor[i]].id # i
      <4>1. PICK q \in Runs : pc[q] \in Holding /\ job[q] = i
        BY <1>0, <2>2, <3>3 DEF TrackedId
      <4>2. q = r
        BY <2>1, <4>1 DEF OneActive, Active, InCall, Holding
      <4>3. doneFor[i] = CallKey(r)
        BY <2>1, <4>1, <4>2 DEF HeldForCall
      <4> QED
        BY <2>5, <4>3
    <3> QED
      BY <3>2, <3>3
  <2> QED
    BY <2>4, <2>5
<1>5. ASSUME NEW r \in Runs, Conclude(r) PROVE Goal
  <2>1. /\ doneFor' = doneFor /\ lost' = lost /\ expired' = expired /\ job' = job
        /\ pc[r] = "over" /\ Op[at[r]] \in SlurmOps
        /\ \A k \in Keys : k # CallKey(r) => store'[k] = store[k]
    BY <1>5, KeysOfCall DEF Conclude, Raise, Persist, HeldForCall, TypeOK
  <2>2. Live(i) /\ doneFor[i] \in Keys
    BY <1>n, <2>1 DEF Live
  <2>3. doneFor[i] # CallKey(r)
    BY <2>1, <2>2 DEF NothingDoneForSbatch, Done, Live, CallKey, SlurmOps, CommandOps, SubmitTask
  <2>4. \A q \in Runs : pc[q] \notin Holding
    BY <2>1 DEF OneActive, Active, InCall, Holding
  <2> QED
    BY <1>0, <2>1, <2>2, <2>3, <2>4 DEF TrackedId
<1>6. ASSUME NEW r \in Runs, CallFails(r) PROVE Goal
  <2>1. /\ doneFor' = doneFor /\ expired' = expired /\ job' = job
        /\ lost' = IF pc[r] \in Holding THEN lost \cup {job[r]} ELSE lost
        /\ pc[r] \in {"sbatch", "wait", "over", "exec"} \cup Holding
        /\ Fail(r)
    BY <1>6 DEF CallFails, Forget
  <2>2. Live(i) /\ doneFor[i] \in Keys /\ (pc[r] \in Holding => job[r] # i)
    BY <1>n, <2>1 DEF Live
  <2>3. ~\E q \in Runs : pc[q] \in Holding /\ job[q] = i
    BY <2>1, <2>2 DEF OneActive, Active, InCall, Holding
  <2>4. store[doneFor[i]].id = i
    BY <1>0, <2>2, <2>3 DEF TrackedId
  <2>5. store'[doneFor[i]] = store[doneFor[i]]
    <3>1. CASE doneFor[i] = CallKey(r) /\ Op[at[r]] \in {"run_try", "launch_slurm"}
      <4>1. pc[r] \in {"exec", "executed"}
        BY <2>1, <3>1 DEF HeldForCall, SlurmOps, Holding
      <4> QED
        BY <1>0, <2>2, <2>3, <3>1, <4>1, WriteKeeps
    <3> QED
      BY <2>1, <2>2, <3>1, FailType
  <2> QED
    BY <2>1, <2>4, <2>5
<1>7. ASSUME NEW r \in Runs, Crash(r) PROVE Goal
  <2>1. /\ doneFor' = doneFor /\ expired' = expired /\ job' = job /\ store' = store
        /\ lost' = IF pc[r] \in Holding THEN lost \cup {job[r]} ELSE lost
        /\ \A q \in Runs \ {r} : pc'[q] = pc[q]
    BY <1>7 DEF Crash, Forget, TypeOK
  <2>2. Live(i) /\ (pc[r] \in Holding => job[r] # i)
    BY <2>1 DEF Live
  <2> QED
    BY <1>0, <2>1, <2>2 DEF TrackedId
<1>8. ASSUME NEW k \in Keys, Expire(k) PROVE Goal
  <2>1. /\ doneFor' = doneFor /\ job' = job /\ pc' = pc /\ lost' = lost
        /\ expired' = expired \cup {<<k, store[k].id>>}
        /\ \A e \in Keys : e # k => store'[e] = store[e]
    BY <1>8 DEF Expire, Persist, TypeOK
  <2>2. Live(i) /\ doneFor[i] \in Keys
    BY <1>n, <2>1 DEF Live
  <2>3. CASE doneFor[i] = k
    <3>1. store[k].id # i
      BY <2>1, <2>3 DEF Live
    <3> QED
      BY <1>0, <2>1, <2>2, <2>3, <3>1 DEF TrackedId
  <2>4. CASE doneFor[i] # k
    BY <1>0, <2>1, <2>2, <2>4 DEF TrackedId
  <2> QED
    BY <2>3, <2>4
<1>9. ASSUME NEW r \in Runs,
             \/ Begin(r) \/ ReplayCall(r) \/ EnterBody(r) \/ ReplaySubmission(r) \/ Submit(r)
             \/ WaitEnds(r) \/ WaitFolds(r)
      PROVE  Goal
  <2>1. /\ doneFor' = doneFor /\ store' = store /\ lost' = lost /\ expired' = expired
        /\ pc[r] \notin Holding
    BY <1>9 DEF Begin, ReplayCall, EnterBody, ReplaySubmission, Submit, WaitEnds, WaitFolds, Holding
  <2>2. \A q \in Runs \ {r} : pc'[q] = pc[q] /\ job'[q] = job[q]
    BY <1>9, OthersKept DEF RunStep
  <2> QED
    BY <1>1, <2>1, <2>2
<1>10. ASSUME (\E j \in Ids : JobEnds(j)) \/ (\E p \in Runs : UserCancels(p)) \/ UNCHANGED vars PROVE Goal
  BY <1>1, <1>10 DEF JobEnds, UserCancels, vars
<1> QED
  BY <1>2, <1>3, <1>4, <1>5, <1>6, <1>7, <1>8, <1>9, <1>10 DEF Next, RunStep

-----------------------------------------------------------------------------
(* Fresh runs. *)

\* A run that begins was announced if its token is a short id.
LEMMA NextAnnounced ==
  ASSUME TypeOK, HeldForCall, Announced, [Next]_vars
  PROVE  Announced'
<1> SUFFICES ASSUME NEW q \in Runs, NEW r \in Runs, q # r, RerunToken[q] = ShortId[r],
                    pc'[q] # "idle"
             PROVE  pc'[r] # "idle"
  BY DEF Announced
<1>1. ASSUME NEW p \in Runs, RunStep(p) PROVE pc'[p] # "idle"
  <2>1. CASE CallFails(p)
    BY <2>1, FailType DEF CallFails
  <2> QED
    BY <1>1, <2>1, ProceedType DEF RunStep, Begin, ReplayCall, EnterBody, ReplaySubmission,
       Submit, Accept, RecordSubmission, WaitEnds, WaitFolds, Conclude, Raise, Execute, RecordCommand,
       Crash, TypeOK
<1>2. ASSUME NEW p \in Runs, RunStep(p) PROVE pc'[r] # "idle"
  <2>1. CASE p = r
    BY <1>1, <1>2, <2>1
  <2>2. CASE p # r
    <3>1. pc'[r] = pc[r]
      BY <1>2, <2>2, OthersKept
    <3>2. CASE pc[q] # "idle"
      BY <3>1, <3>2 DEF Announced
    <3>3. CASE pc[q] = "idle"
      <4>1. p = q
        BY <1>2, <3>3, OthersKept
      <4>2. Begin(q)
        BY <1>2, <3>3, <4>1 DEF RunStep, ReplayCall, EnterBody, ReplaySubmission, Submit,
           Accept, RecordSubmission, WaitEnds, WaitFolds, Conclude, Execute, RecordCommand, CallFails,
           Crash, Active, InCall, Holding
      <4> QED
        BY <3>1, <4>2 DEF Begin
    <3> QED
      BY <3>2, <3>3
  <2> QED
    BY <2>1, <2>2
<1>3. ASSUME \/ \E i \in Ids : JobEnds(i)
             \/ \E p \in Runs : UserCancels(p)
             \/ \E k \in Keys : Expire(k)
             \/ UNCHANGED vars
      PROVE  pc'[r] # "idle"
  <2>1. pc' = pc
    BY <1>3 DEF JobEnds, UserCancels, Expire, vars
  <2> QED
    BY <2>1 DEF Announced
<1> QED
  BY <1>2, <1>3 DEF Next

\* What a step of a run may store under a key: nothing, what was there, an
\* error, or the id the run holds, and that only under its own token.
LEMMA StoreStep ==
  ASSUME TypeOK, HeldForCall, NEW r \in Runs, RunStep(r), NEW k \in Keys
  PROVE  \/ store'[k] = store[k]
         \/ store'[k].id = NoId
         \/ /\ store'[k].id = job[r]
            /\ k[1] = KeyToken(r)
            /\ pc[r] \in {"accepted", "over", "executed"}
<1>1. CASE RecordSubmission(r)
  BY <1>1, KeysOfCall, AbsentHasNoId DEF RecordSubmission, Persist, SubmitKey, TypeOK
<1>2. CASE RecordCommand(r)
  BY <1>2, KeysOfCall, AbsentHasNoId DEF RecordCommand, Persist, CallKey, TypeOK
<1>3. CASE Conclude(r)
  BY <1>3, KeysOfCall, AbsentHasNoId DEF Conclude, Raise, Persist, CallKey, TypeOK
<1>4. CASE CallFails(r)
  BY <1>4, FailType, AbsentHasNoId DEF CallFails
<1> QED
  BY <1>1, <1>2, <1>3, <1>4 DEF RunStep, Begin, ReplayCall, EnterBody, ReplaySubmission,
     Submit, Accept, WaitEnds, WaitFolds, Execute, Crash

\* What a step of a run reports: what is stored under its token, an error, or
\* the id it holds.
LEMMA ReportStep ==
  ASSUME TypeOK, HeldForCall, NEW r \in Runs, RunStep(r), NEW rec \in returned'
  PROVE  \/ rec \in returned
         \/ /\ rec.run = r /\ Active(r)
            /\ \/ rec.value.id = NoId
               \/ rec.value.id = job[r] /\ pc[r] \in {"accepted", "over", "executed"}
               \/ \E k \in Keys : k[1] = KeyToken(r) /\ rec.value = store[k]
<1> USE DEF Active, InCall, Holding
<1>1. CASE ReplayCall(r)
  BY <1>1, KeysOfCall DEF ReplayCall, Report, CallKey
<1>2. CASE ReplaySubmission(r)
  BY <1>2, KeysOfCall DEF ReplaySubmission, Report, SubmitKey
<1>3. CASE RecordSubmission(r)
  BY <1>3, AbsentHasNoId DEF RecordSubmission, Report
<1>4. CASE Conclude(r)
  BY <1>4, AbsentHasNoId DEF Conclude, Raise, Report
<1>5. CASE RecordCommand(r)
  BY <1>5, AbsentHasNoId DEF RecordCommand, Report
<1>6. CASE CallFails(r)
  BY <1>6, FailType, AbsentHasNoId DEF CallFails, Report
<1> QED
  BY <1>1, <1>2, <1>3, <1>4, <1>5, <1>6 DEF RunStep, Begin, EnterBody,
     Submit, Accept, WaitEnds, WaitFolds, Execute, Crash

\* What a run holds was done.
LEMMA HeldIsDone ==
  ASSUME TypeOK, HeldForCall, NEW r \in Runs, pc[r] \in {"accepted", "wait", "over", "executed"}
  PROVE  job[r] \in Ids /\ Done(job[r])
BY KeysOfCall, NoKeyIsNone DEF HeldForCall, Done

\* Steps that are not of a run store and return nothing.
LEMMA EnvironmentStep ==
  ASSUME TypeOK,
         \/ \E i \in Ids : JobEnds(i)
         \/ \E p \in Runs : UserCancels(p)
         \/ \E k \in Keys : Expire(k)
         \/ UNCHANGED vars
  PROVE  /\ \A k \in Keys : store'[k] = store[k] \/ store'[k] = Absent
         /\ pc' = pc /\ at' = at /\ job' = job /\ returned' = returned
         /\ doneFor' = doneFor /\ doneBy' = doneBy
BY DEF JobEnds, UserCancels, Expire, Persist, vars, TypeOK

\* UsedAreDone is kept.
LEMMA NextUsed ==
  ASSUME TypeOK, HeldForCall, UsedAreDone, [Next]_vars
  PROVE  UsedAreDone'
<1>t. /\ \A k \in Keys : store[k].id \in Ids \cup {NoId}
      /\ \A rec \in returned : rec.value.id \in Ids \cup {NoId}
  BY DEF TypeOK, Values
<1>d. \A i \in Ids : Done(i) => doneFor'[i] # NoKey
  BY OthersKept DEF Done
<1>1. ASSUME NEW k \in Keys, store'[k].id # NoId PROVE doneFor'[store'[k].id] # NoKey
  <2>1. CASE store'[k] = store[k]
    BY <1>1, <1>t, <1>d, <2>1 DEF UsedAreDone
  <2>2. ASSUME NEW r \in Runs, RunStep(r) PROVE doneFor'[store'[k].id] # NoKey
    BY <1>1, <1>d, <2>1, <2>2, StoreStep, HeldIsDone
  <2> QED
    BY <1>1, <2>1, <2>2, EnvironmentStep, AbsentHasNoId DEF Next
<1>2. ASSUME NEW rec \in returned', rec.value.id # NoId PROVE doneFor'[rec.value.id] # NoKey
  <2>1. CASE rec \in returned
    BY <1>2, <1>t, <1>d, <2>1 DEF UsedAreDone
  <2>2. ASSUME NEW r \in Runs, RunStep(r), rec \notin returned PROVE doneFor'[rec.value.id] # NoKey
    <3>1. CASE rec.value.id = job[r] /\ pc[r] \in {"accepted", "over", "executed"}
      BY <1>d, <3>1, HeldIsDone
    <3>2. CASE \E k \in Keys : rec.value = store[k]
      BY <1>2, <1>t, <1>d, <3>2 DEF UsedAreDone
    <3> QED
      BY <1>2, <2>2, <3>1, <3>2, ReportStep
  <2> QED
    BY <2>1, <2>2, EnvironmentStep DEF Next
<1> QED
  BY <1>1, <1>2 DEF UsedAreDone, Done

\* A run whose token is the short id of a fresh run is that run, or began
\* after it.
LEMMA WhoHasToken ==
  ASSUME TypeOK, Announced, NEW q \in Runs, NEW r \in Runs, Fresh(r),
         pc[r] = "idle", pc[q] # "idle"
  PROVE  KeyToken(q) # ShortId[r]
BY TokenAssumption DEF KeyToken, Fresh, Announced

\* FreshUntouched is kept.
LEMMA NextUntouched ==
  ASSUME TypeOK, HeldForCall, StoreIsTrue, ~MayOverlap, OneActive, Announced, UsedAreDone,
         FreshUntouched, [Next]_vars
  PROVE  FreshUntouched'
<1>t. \A k \in Keys : store[k].id \in Ids \cup {NoId}
  BY DEF TypeOK, Values
<1>s. \A i \in Ids : Done(i) => doneBy'[i] = doneBy[i]
  BY OthersKept DEF Done
<1>1. ASSUME NEW r \in Runs, Fresh(r), NEW k \in Keys, k[1] = ShortId[r], store'[k].id # NoId
      PROVE  pc'[r] # "idle" /\ (Active(r)' => doneBy'[store'[k].id] = r)
  <2>1. ASSUME NEW q \in Runs, RunStep(q), q # r
        PROVE  pc'[r] # "idle" /\ (Active(r)' => doneBy'[store'[k].id] = r)
    <3>1. pc'[r] = pc[r] /\ ~Active(r)
      BY <2>1, Alone, OthersKept
    <3>2. ~Active(r)'
      BY <3>1 DEF Active
    <3>3. CASE store'[k] = store[k]
      BY <1>1, <3>1, <3>2, <3>3 DEF FreshUntouched
    <3>4. CASE k[1] = KeyToken(q) /\ pc[q] \in {"accepted", "over", "executed"}
      BY <1>1, <3>1, <3>2, <3>4, WhoHasToken
    <3> QED
      BY <1>1, <2>1, <3>3, <3>4, StoreStep
  <2>2. CASE RunStep(r)
    <3>1. CASE store'[k] = store[k]
      <4>1. pc[r] # "idle"
        BY <1>1, <3>1 DEF FreshUntouched
      <4>2. ~Begin(r)
        BY <4>1 DEF Begin
      <4>3. Active(r) /\ pc'[r] # "idle"
        <5>1. CASE CallFails(r)
          BY <5>1, FailType DEF CallFails, Active, InCall, Holding
        <5> QED
          BY <2>2, <4>2, <5>1, ProceedType DEF RunStep, ReplayCall, EnterBody, ReplaySubmission,
             Submit, Accept, RecordSubmission, WaitEnds, WaitFolds, Conclude, Raise, Execute,
             RecordCommand, Crash, Active, InCall, Holding, TypeOK
      <4>4. doneBy[store[k].id] = r
        BY <1>1, <3>1, <4>3 DEF FreshUntouched
      <4>5. doneBy'[store[k].id] = r
        BY <1>1, <1>t, <1>s, <3>1, <4>4 DEF UsedAreDone
      <4> QED
        BY <3>1, <4>3, <4>5
    <3>2. CASE store'[k].id = job[r] /\ pc[r] \in {"accepted", "over", "executed"}
      <4>1. doneBy[job[r]] = r
        BY <1>1, <3>2 DEF FreshUntouched
      <4>2. doneBy'[job[r]] = r
        BY <1>s, <3>2, <4>1, HeldIsDone
      <4>3. pc'[r] # "idle"
        BY <2>2, <3>2, ProceedType, FailType DEF RunStep, Begin, ReplayCall, EnterBody,
           ReplaySubmission, Submit, Accept, RecordSubmission, WaitEnds, WaitFolds, Conclude, Raise,
           Execute, RecordCommand, CallFails, Crash, TypeOK
      <4> QED
        BY <3>2, <4>2, <4>3
    <3> QED
      BY <1>1, <2>2, <3>1, <3>2, StoreStep
  <2>3. ASSUME \/ \E i \in Ids : JobEnds(i)
               \/ \E p \in Runs : UserCancels(p)
               \/ \E e \in Keys : Expire(e)
               \/ UNCHANGED vars
        PROVE  pc'[r] # "idle" /\ (Active(r)' => doneBy'[store'[k].id] = r)
    <3>1. store'[k] = store[k] /\ pc' = pc /\ doneBy' = doneBy
      BY <1>1, <2>3, EnvironmentStep, AbsentHasNoId
    <3> QED
      BY <1>1, <3>1 DEF FreshUntouched, Active
  <2> QED
    BY <2>1, <2>2, <2>3 DEF Next
<1>2. ASSUME NEW r \in Runs, Fresh(r), pc'[r] \in {"accepted", "wait", "over", "executed"}
      PROVE  doneBy'[job'[r]] = r
  <2>1. CASE pc[r] \in {"accepted", "wait", "over", "executed"} /\ job'[r] = job[r]
    <3>1. doneBy[job[r]] = r
      BY <1>2, <2>1 DEF FreshUntouched
    <3> QED
      BY <1>s, <2>1, <3>1, HeldIsDone
  <2>2. CASE Accept(r) \/ Execute(r)
    BY <2>2, KeysOfCall, DoneEffect DEF Accept, Execute
  <2>3. CASE ReplaySubmission(r)
    <3>1. /\ store[SubmitKey(r)] # Absent /\ job'[r] = store[SubmitKey(r)].id
          /\ pc[r] = "submission"
      BY <1>2, <2>3, ProceedType DEF ReplaySubmission, TypeOK
    <3>2. SubmitKey(r) \in Keys /\ SubmitKey(r)[1] = ShortId[r]
      BY <1>2, KeysOfCall DEF SubmitKey, KeyToken
    <3>3. job'[r] \in Ids
      BY <3>1, <3>2 DEF StoreIsTrue, SubmitKey
    <3>4. doneBy[job'[r]] = r /\ Done(job'[r])
      BY <1>2, <3>1, <3>2, <3>3, AbsentHasNoId
         DEF FreshUntouched, UsedAreDone, Active, InCall
    <3> QED
      BY <1>s, <3>3, <3>4
  <2>4. ASSUME NEW q \in Runs, RunStep(q), q # r PROVE doneBy'[job'[r]] = r
    <3>1. pc'[r] = pc[r] /\ job'[r] = job[r]
      BY <2>4, OthersKept
    <3> QED
      BY <1>2, <2>1, <3>1
  <2>5. ASSUME \/ \E i \in Ids : JobEnds(i)
               \/ \E p \in Runs : UserCancels(p)
               \/ \E e \in Keys : Expire(e)
               \/ UNCHANGED vars
        PROVE  doneBy'[job'[r]] = r
    BY <1>2, <2>1, <2>5, EnvironmentStep
  <2>6. CASE \/ Begin(r) \/ ReplayCall(r) \/ EnterBody(r) \/ Submit(r) \/ RecordSubmission(r)
             \/ WaitEnds(r) \/ WaitFolds(r) \/ Conclude(r) \/ RecordCommand(r) \/ CallFails(r) \/ Crash(r)
    <3>1. pc[r] \in {"accepted", "wait", "over", "executed"} /\ job'[r] = job[r]
      BY <1>2, <2>6, ProceedType, FailType DEF Begin, ReplayCall, EnterBody, Submit,
         RecordSubmission, WaitEnds, WaitFolds, Conclude, Raise, RecordCommand, CallFails, Crash, TypeOK
    <3> QED
      BY <2>1, <3>1
  <2> QED
    BY <2>2, <2>3, <2>4, <2>5, <2>6 DEF Next, RunStep
<1> QED
  BY <1>1, <1>2 DEF FreshUntouched

\* FreshRunIsItsOwn is kept.
LEMMA NextOwn ==
  ASSUME TypeOK, HeldForCall, UsedAreDone, FreshUntouched, FreshRunIsItsOwn, [Next]_vars
  PROVE  FreshRunIsItsOwn'
<1> SUFFICES ASSUME NEW rec \in returned', Fresh(rec.run), rec.value.id # NoId
             PROVE  doneBy'[rec.value.id] = rec.run
  BY DEF FreshRunIsItsOwn, Fresh
<1>t. /\ \A k \in Keys : store[k].id \in Ids \cup {NoId}
      /\ \A x \in returned : x.value.id \in Ids \cup {NoId}
  BY DEF TypeOK, Values
<1>s. \A i \in Ids : Done(i) => doneBy'[i] = doneBy[i]
  BY OthersKept DEF Done
<1>1. CASE rec \in returned
  BY <1>1, <1>s, <1>t DEF FreshRunIsItsOwn, UsedAreDone
<1>2. ASSUME NEW r \in Runs, RunStep(r), rec \notin returned
      PROVE  doneBy'[rec.value.id] = rec.run
  <2>1. rec.run = r /\ Active(r)
    BY <1>2, ReportStep
  <2>2. CASE rec.value.id = job[r] /\ pc[r] \in {"accepted", "over", "executed"}
    <3>1. doneBy[job[r]] = r
      BY <2>1, <2>2 DEF FreshUntouched
    <3> QED
      BY <1>s, <2>1, <2>2, <3>1, HeldIsDone
  <2>3. ASSUME NEW k \in Keys, k[1] = KeyToken(r), rec.value = store[k]
        PROVE  doneBy'[rec.value.id] = rec.run
    <3>1. k[1] = ShortId[r]
      BY <2>1, <2>3 DEF KeyToken
    <3>2. doneBy[rec.value.id] = r /\ rec.value.id \in Ids /\ Done(rec.value.id)
      BY <1>t, <2>1, <2>3, <3>1 DEF FreshUntouched, UsedAreDone
    <3> QED
      BY <1>s, <2>1, <3>2
  <2> QED
    BY <1>2, <2>2, <2>3, ReportStep
<1> QED
  BY <1>1, <1>2, EnvironmentStep DEF Next

\* The invariant holds initially.
LEMMA InitInv == Init => CacheInv
<1> SUFFICES ASSUME Init PROVE CacheInv
  OBVIOUS
<1>1. HeldForCall
  BY DEF Init, HeldForCall
<1>2. StoreIsTrue
  BY DEF Init, StoreIsTrue
<1>3. NothingDoneForSbatch
  BY DEF Init, NothingDoneForSbatch, Done
<1>4. OneActive /\ MissWhileDoing
  BY DEF Init, OneActive, MissWhileDoing, Active, InCall, Holding
<1>5. Tracked
  BY DEF Init, Tracked, Live
<1>6. Announced
  BY DEF Init, Announced
<1>7. UsedAreDone
  BY AbsentHasNoId DEF Init, UsedAreDone
<1>8. FreshUntouched
  BY AbsentHasNoId DEF Init, FreshUntouched
<1>9. FreshRunIsItsOwn
  BY DEF Init, FreshRunIsItsOwn
<1> QED
  BY <1>1, <1>2, <1>3, <1>4, <1>5, <1>6, <1>7, <1>8, <1>9 DEF CacheInv, SequentialInv

\* Every step keeps it.
LEMMA NextInv == TypeOK /\ CacheInv /\ [Next]_vars => CacheInv'
<1> SUFFICES ASSUME TypeOK, CacheInv, [Next]_vars PROVE CacheInv'
  OBVIOUS
<1>1. HeldForCall' /\ StoreIsTrue' /\ NothingDoneForSbatch'
  BY NextHeld, NextTrue, NextNothing DEF CacheInv
<1>2. ASSUME ~MayOverlap PROVE SequentialInv'
  <2>1. SequentialInv
    BY <1>2 DEF CacheInv
  <2>2. OneActive' /\ MissWhileDoing' /\ Tracked'
    BY <1>2, <2>1, NextOne, NextMiss, NextTracked DEF CacheInv, SequentialInv
  <2>3. Announced' /\ UsedAreDone' /\ FreshUntouched' /\ FreshRunIsItsOwn'
    BY <1>2, <2>1, NextAnnounced, NextUsed, NextUntouched, NextOwn DEF CacheInv, SequentialInv
  <2> QED
    BY <2>2, <2>3 DEF SequentialInv
<1> QED
  BY <1>1, <1>2 DEF CacheInv

-----------------------------------------------------------------------------
(* Theorems. *)

\* The types hold, and with them the inductive invariant: a run holds and the
\* store has what was done for their key; if runs do not overlap, whatever was
\* done is stored or about to be.
THEOREM CacheSafety == CacheSpec => [](TypeOK /\ CacheInv)
<1>1. Init => TypeOK /\ CacheInv
  BY InitType, InitInv
<1>2. TypeOK /\ CacheInv /\ [Next]_vars => (TypeOK /\ CacheInv)'
  BY NextType, NextInv DEF CacheInv
<1> QED
  BY <1>1, <1>2, PTL DEF CacheSpec

\* Runs that follow each other never do a thing twice under one token, but for
\* what was lost before it was recorded and for expired records.
THEOREM SubmittedOnce == ~MayOverlap => (CacheSpec => []NothingDoneTwice)
<1> SUFFICES ASSUME ~MayOverlap PROVE CacheSpec => []NothingDoneTwice
  OBVIOUS
<1>1. TypeOK /\ CacheInv => NothingDoneTwice
  <2> SUFFICES ASSUME TypeOK, CacheInv, NEW i \in Ids, NEW j \in Ids,
                      Live(i), Live(j), doneFor[i] = doneFor[j]
               PROVE  i = j
    BY DEF NothingDoneTwice
  <2>1. SequentialInv /\ HeldForCall
    BY DEF CacheInv
  <2>2. ASSUME NEW x \in Ids, NEW y \in Ids, Live(x), Live(y), doneFor[x] = doneFor[y],
               NEW r \in Runs, pc[r] \in Holding, job[r] = x
        PROVE  x = y
    <3>1. store[doneFor[y]] = Absent
      BY <2>1, <2>2 DEF SequentialInv, MissWhileDoing, HeldForCall, Holding
    <3>2. store[doneFor[y]].id # y
      BY <3>1, AbsentHasNoId
    <3>3. PICK q \in Runs : pc[q] \in Holding /\ job[q] = y
      BY <2>1, <2>2, <3>2 DEF SequentialInv, Tracked
    <3> QED
      BY <2>1, <2>2, <3>3 DEF SequentialInv, OneActive, Active, InCall
  <2>3. CASE \E r \in Runs : pc[r] \in Holding /\ job[r] = i
    BY <2>2, <2>3
  <2>4. CASE \E r \in Runs : pc[r] \in Holding /\ job[r] = j
    BY <2>2, <2>4
  <2> QED
    BY <2>1, <2>3, <2>4 DEF SequentialInv, Tracked
<1> QED
  BY <1>1, CacheSafety, PTL

\* A run without a token uses nothing another run did.
THEOREM FreshRunsAreApart == ~MayOverlap => (CacheSpec => []FreshRunIsItsOwn)
<1> SUFFICES ASSUME ~MayOverlap PROVE CacheSpec => []FreshRunIsItsOwn
  OBVIOUS
<1>1. TypeOK /\ CacheInv => FreshRunIsItsOwn
  BY DEF CacheInv, SequentialInv
<1> QED
  BY <1>1, CacheSafety, PTL

\* What sbatch and sbatch_try return is true of their own job, whether runs
\* overlap or not.
THEOREM ReturnsAreTrue == CacheSpec => []ReturnedIsTrue
<1>1. Init => ReturnedIsTrue
  BY DEF Init, ReturnedIsTrue
<1>2. ASSUME TypeOK, CacheInv, ReturnedIsTrue, [Next]_vars PROVE ReturnedIsTrue'
  <2>0. HeldForCall /\ StoreIsTrue /\ NothingDoneForSbatch
    BY <1>2 DEF CacheInv
  <2> DEFINE True(rec) ==
        LET i == rec.value.id
        IN  /\ i \in Ids
            /\ doneFor'[i] = <<KeyToken(rec.run), SubmitTask, Spec[rec.call]>>
            /\ ToldNext(i, rec.value.state, KeyToken(rec.run))
            /\ Op[rec.call] = "sbatch" => rec.value.state = "COMPLETED" /\ slurm'[i] = "COMPLETED"
  <2> SUFFICES ASSUME NEW rec \in returned', Succeeded(rec),
                      Op[rec.call] \in {"sbatch", "sbatch_try"}
               PROVE  True(rec)
    BY DEF ReturnedIsTrue, Succeeded, ToldOf, ToldNext, KeyToken, Fresh
  <2> HIDE DEF True
  <2>1. CASE rec \in returned
    <3>1. rec.value.state # "ACTIVE" /\ rec.run \in Runs /\ rec.call \in 1..NumCalls
      BY <1>2, <2>1 DEF TypeOK, Values
    <3>2. <<KeyToken(rec.run), SubmitTask, Spec[rec.call]>> # NoKey
      BY DEF NoKey, SubmitTask
    <3>3. LET i == rec.value.id
          IN  /\ i \in Ids
              /\ doneFor[i] = <<KeyToken(rec.run), SubmitTask, Spec[rec.call]>>
              /\ ToldOf(i, rec.value.state, KeyToken(rec.run))
              /\ Op[rec.call] = "sbatch" => rec.value.state = "COMPLETED" /\ slurm[i] = "COMPLETED"
      BY <1>2, <2>1 DEF ReturnedIsTrue
    <3>4. ToldNext(rec.value.id, rec.value.state, KeyToken(rec.run))
      BY <1>2, <2>0, <3>3, OthersKept DEF ToldOf, ToldNext
    <3> QED
      BY <1>2, <2>0, <3>1, <3>2, <3>3, <3>4, OthersKept DEF True
  <2>2. ASSUME NEW r \in Runs, ReplayCall(r), rec \notin returned PROVE True(rec)
    <3>1. /\ rec.run = r /\ rec.call = at[r] /\ rec.value = store[CallKey(r)]
          /\ store[CallKey(r)] # Absent /\ doneFor' = doneFor /\ user' = user
      BY <2>2 DEF ReplayCall, Report
    <3>2. CallKey(r) \in Keys /\ CallKey(r)[2] = Op[at[r]]
          /\ SubmissionOf(CallKey(r)) = <<KeyToken(r), SubmitTask, Spec[at[r]]>>
      BY <1>2, KeysOfCall DEF CallKey, SubmissionOf
    <3>3. ToldOf(rec.value.id, rec.value.state, KeyToken(r))
      BY <2>0, <3>1, <3>2 DEF StoreIsTrue, CallKey
    <3>4. ToldNext(rec.value.id, rec.value.state, KeyToken(r))
      BY <3>1, <3>3 DEF ToldOf, ToldNext
    <3> QED
      BY <2>0, <3>1, <3>2, <3>3, <3>4 DEF True, StoreIsTrue, ToldOf
  <2>3. ASSUME NEW r \in Runs, Conclude(r), rec \notin returned PROVE True(rec)
    <3>1. /\ rec.run = r /\ rec.call = at[r] /\ rec.value.id = job[r]
          /\ rec.value.state = told[r]
          /\ Op[at[r]] = "sbatch" => told[r] = "COMPLETED"
          /\ doneFor' = doneFor /\ user' = user /\ pc[r] = "over"
      BY <2>3, AbsentHasNoId DEF Conclude, Raise, Report, Succeeded
    <3>2. ToldOf(job[r], told[r], KeyToken(r))
      BY <2>0, <3>1 DEF HeldForCall
    <3>3. ToldNext(job[r], told[r], KeyToken(r))
      BY <3>1, <3>2 DEF ToldOf, ToldNext
    <3> QED
      BY <2>0, <3>1, <3>2, <3>3 DEF True, HeldForCall, SubmitKey, ToldOf
  <2>4. ASSUME NEW r \in Runs, CallFails(r), rec \notin returned PROVE FALSE
    BY <1>2, <2>4, FailType, AbsentHasNoId DEF CallFails, Report, Succeeded
  <2>5. ASSUME NEW r \in Runs, ReplaySubmission(r) \/ RecordSubmission(r), rec \notin returned
        PROVE  FALSE
    BY <2>5 DEF ReplaySubmission, RecordSubmission, Report
  <2>6. ASSUME NEW r \in Runs, RecordCommand(r), rec \notin returned PROVE FALSE
    BY <2>0, <2>6 DEF RecordCommand, Report, HeldForCall, CommandOps
  <2> QED
    BY <1>2, <2>1, <2>2, <2>3, <2>4, <2>5, <2>6 DEF Next, RunStep, vars, Begin, EnterBody,
       Submit, Accept, WaitEnds, WaitFolds, Execute, Crash, JobEnds, UserCancels, Expire
<1> QED
  BY <1>1, <1>2, CacheSafety, PTL DEF CacheSpec

\* The types of the flow runs, the store and the hpc.
THEOREM CacheTypeCorrect == CacheSpec => []TypeOK
BY CacheSafety, PTL

-----------------------------------------------------------------------------
(* What is written, and what is reported. *)

\* A step stores nothing, the end of something done, or the error of a command
\* that is a task's result.
LEMMA StoredValue ==
  ASSUME TypeOK, HeldForCall, NEW r \in Runs, RunStep(r), NEW k \in Keys
  PROVE  \/ store'[k] = store[k]
         \/ store'[k].state \in {"SUBMITTED", "OK"} \cup EndStates
         \/ Op[at[r]] \in {"run_try", "launch_slurm"} /\ k = CallKey(r)
<1>1. CASE RecordSubmission(r)
  BY <1>1 DEF RecordSubmission, Persist, TypeOK, Value
<1>2. CASE RecordCommand(r)
  BY <1>2 DEF RecordCommand, Persist, TypeOK, Value
<1>3. CASE Conclude(r)
  <2>1. told[r] \in EndStates
    BY <1>3 DEF Conclude, HeldForCall, ToldOf, TypeOK
  <2>2. \/ store' = store
        \/ store' = [store EXCEPT ![CallKey(r)] = Value(job[r], told[r])]
    BY <1>3 DEF Conclude, Raise, Persist
  <2> QED
    BY <2>1, <2>2 DEF TypeOK, Value
<1>4. CASE CallFails(r)
  BY <1>4, FailType DEF CallFails
<1> QED
  BY <1>1, <1>2, <1>3, <1>4 DEF RunStep, Begin, ReplayCall, EnterBody, ReplaySubmission,
     Submit, Accept, WaitEnds, WaitFolds, Execute, Crash

\* In the body of a task nothing is stored for it, and only sbatch and
\* sbatch_try await a job.
MissInCall ==
  \A r \in Runs :
    /\ pc[r] \in {"submission", "sbatch", "accepted", "wait", "over"}
       /\ Op[at[r]] # "sbatch_submit" => store[CallKey(r)] = Absent
    /\ pc[r] \in {"wait", "over"} => Op[at[r]] # "sbatch_submit"

MissInCallOf(q) ==
  /\ pc[q] \in {"submission", "sbatch", "accepted", "wait", "over"}
     /\ Op[at[q]] # "sbatch_submit" => store[CallKey(q)] = Absent
  /\ pc[q] \in {"wait", "over"} => Op[at[q]] # "sbatch_submit"

\* MissInCall is kept by runs that do not overlap.
LEMMA NextMissInCall ==
  ASSUME TypeOK, HeldForCall, ~MayOverlap, OneActive, MissInCall, [Next]_vars
  PROVE  MissInCall'
<1> SUFFICES ASSUME NEW q \in Runs PROVE MissInCallOf(q)'
  BY DEF MissInCall, MissInCallOf
<1>0. MissInCallOf(q)
  BY DEF MissInCall, MissInCallOf
<1>k. at' = at => CallKey(q)' = CallKey(q)
  BY DEF CallKey, KeyToken
<1>1. CASE RunStep(q)
  <2>1. CASE EnterBody(q)
    <3>1. /\ pc'[q] \in {"submission", "exec"} /\ at' = at /\ store' = store
          /\ Op[at[q]] = "sbatch_submit" \/ store[CallKey(q)] = Absent
      BY <2>1 DEF EnterBody, TypeOK
    <3> QED
      BY <3>1, <1>k DEF MissInCallOf
  <2>2. CASE Submit(q) \/ Accept(q) \/ WaitEnds(q) \/ WaitFolds(q)
    <3>1. /\ pc[q] \in {"submission", "sbatch", "wait"} /\ at' = at /\ store' = store
          /\ pc'[q] \in {"sbatch", "accepted", "over"}
          /\ pc'[q] = "over" => pc[q] = "wait"
      BY <2>2 DEF Submit, Accept, WaitEnds, WaitFolds, TypeOK
    <3> QED
      BY <1>0, <3>1, <1>k DEF MissInCallOf
  <2>3. CASE ReplaySubmission(q)
    <3>1. CASE Op[at[q]] = "sbatch_submit"
      <4>1. pc'[q] \in {"call", "done"}
        BY <2>3, <3>1, ProceedType DEF ReplaySubmission
      <4> QED
        BY <4>1 DEF MissInCallOf
    <3>2. CASE Op[at[q]] # "sbatch_submit"
      <4>1. pc[q] = "submission" /\ at' = at /\ store' = store
        BY <2>3, <3>2 DEF ReplaySubmission
      <4> QED
        BY <1>0, <3>2, <4>1, <1>k DEF MissInCallOf
    <3> QED
      BY <3>1, <3>2
  <2>4. CASE RecordSubmission(q)
    <3>1. CASE Op[at[q]] = "sbatch_submit"
      <4>1. pc'[q] \in {"call", "done"}
        BY <2>4, <3>1, ProceedType DEF RecordSubmission
      <4> QED
        BY <4>1 DEF MissInCallOf
    <3>2. CASE Op[at[q]] # "sbatch_submit"
      <4>1. pc[q] = "accepted" /\ at' = at
        BY <2>4, <3>2 DEF RecordSubmission
      <4>2. CallKey(q) # SubmitKey(q) /\ CallKey(q) \in Keys
        BY KeysOfCall DEF CallKey, SubmitKey, SlurmOps, CommandOps, SubmitTask
      <4>3. store'[CallKey(q)] = store[CallKey(q)]
        BY <2>4, <4>2 DEF RecordSubmission, Persist, TypeOK
      <4> QED
        BY <1>0, <3>2, <4>1, <4>3, <1>k DEF MissInCallOf
    <3> QED
      BY <3>1, <3>2
  <2>5. CASE \/ Begin(q) \/ ReplayCall(q) \/ Conclude(q) \/ Execute(q) \/ RecordCommand(q)
             \/ CallFails(q) \/ Crash(q)
    <3>1. pc'[q] \in {"call", "executed", "done", "failed", "crashed"}
      BY <2>5, ProceedType, FailType
         DEF Begin, ReplayCall, Conclude, Raise, Execute, RecordCommand, CallFails, Crash,
             TypeOK
    <3> QED
      BY <3>1 DEF MissInCallOf
  <2> QED
    BY <1>1, <2>1, <2>2, <2>3, <2>4, <2>5 DEF RunStep
<1>2. ASSUME NEW r \in Runs, RunStep(r), r # q PROVE MissInCallOf(q)'
  <2>1. ~Active(q)
    BY <1>2, Alone
  <2>2. pc'[q] = pc[q]
    BY <1>2, OthersKept
  <2> QED
    BY <2>1, <2>2 DEF MissInCallOf, Active, InCall, Holding
<1>3. ASSUME \/ \E i \in Ids : JobEnds(i)
             \/ \E p \in Runs : UserCancels(p)
             \/ \E k \in Keys : Expire(k)
             \/ UNCHANGED vars
      PROVE  MissInCallOf(q)'
  <2>1. pc' = pc /\ at' = at /\ \A k \in Keys : store'[k] = store[k] \/ store'[k] = Absent
    BY <1>3, EnvironmentStep
  <2> QED
    BY <1>0, <1>k, <2>1, KeysOfCall DEF MissInCallOf
<1> QED
  BY <1>1, <1>2, <1>3 DEF Next

\* A run writes only where nothing is stored.
LEMMA WrittenOnce ==
  ASSUME TypeOK, HeldForCall, MissWhileDoing, MissInCall,
         NEW r \in Runs, RunStep(r), NEW k \in Keys
  PROVE  store'[k] = store[k] \/ store[k] = Absent
<1>1. CASE RecordSubmission(r)
  BY <1>1 DEF RecordSubmission, Persist, MissWhileDoing, TypeOK
<1>2. CASE RecordCommand(r)
  BY <1>2 DEF RecordCommand, Persist, MissWhileDoing, TypeOK
<1>3. CASE Conclude(r)
  <2>1. store[CallKey(r)] = Absent
    BY <1>3 DEF Conclude, MissInCall
  <2>2. \/ store' = store
        \/ store' = [store EXCEPT ![CallKey(r)] = Value(job[r], told[r])]
    BY <1>3 DEF Conclude, Raise, Persist
  <2> QED
    BY <2>1, <2>2 DEF TypeOK
<1>4. CASE CallFails(r)
  <2>1. CASE Op[at[r]] \in {"run_try", "launch_slurm"}
    <3>1. pc[r] \in {"exec", "executed"}
      BY <1>4, <2>1 DEF CallFails, HeldForCall, Holding, SlurmOps
    <3> QED
      BY <1>4, <3>1, FailType DEF CallFails, MissWhileDoing
  <2>2. CASE Op[at[r]] \notin {"run_try", "launch_slurm"}
    BY <1>4, <2>2, FailType DEF CallFails
  <2> QED
    BY <2>1, <2>2
<1> QED
  BY <1>1, <1>2, <1>3, <1>4 DEF RunStep, Begin, ReplayCall, EnterBody, ReplaySubmission,
     Submit, Accept, WaitEnds, WaitFolds, Execute, Crash

\* The key under which the result of a call is stored.
KeyOf(rec) ==
  <<KeyToken(rec.run),
    IF Op[rec.call] = "sbatch_submit" THEN SubmitTask ELSE Op[rec.call],
    Spec[rec.call]>>

LEMMA KeyOfType ==
  ASSUME TypeOK, NEW rec \in returned
  PROVE  KeyOf(rec) \in Keys /\ rec.call \in 1..NumCalls /\ rec.run \in Runs
<1>1. rec.run \in Runs /\ rec.call \in 1..NumCalls
  BY DEF TypeOK
<1>2. KeyToken(rec.run) \in Tokens
  BY <1>1, TokenAssumption DEF KeyToken, Fresh
<1>3. Op[rec.call] \in SlurmOps \cup CommandOps /\ Spec[rec.call] \in Specs
  BY <1>1, ProgramAssumption
<1> QED
  BY <1>1, <1>2, <1>3 DEF KeyOf, Keys

\* What a step reports and is no failure is stored once it took it.
LEMMA ReportedIsStored ==
  ASSUME TypeOK, HeldForCall, MissInCall, NEW r \in Runs, RunStep(r),
         NEW rec \in returned', rec \notin returned, Succeeded(rec)
  PROVE  store'[KeyOf(rec)] = rec.value /\ rec.value # Absent
<1>1. CASE ReplayCall(r)
  <2>1. /\ rec.run = r /\ rec.call = at[r] /\ rec.value = store[CallKey(r)]
        /\ store[CallKey(r)] # Absent /\ store' = store /\ Op[at[r]] # "sbatch_submit"
    BY <1>1 DEF ReplayCall, Report
  <2> QED
    BY <2>1 DEF KeyOf, CallKey
<1>2. CASE ReplaySubmission(r)
  <2>1. /\ rec.run = r /\ rec.call = at[r] /\ rec.value = store[SubmitKey(r)]
        /\ store[SubmitKey(r)] # Absent /\ store' = store /\ Op[at[r]] = "sbatch_submit"
    BY <1>2 DEF ReplaySubmission, Report
  <2> QED
    BY <2>1 DEF KeyOf, SubmitKey
<1>3. CASE RecordSubmission(r)
  <2>1. /\ rec.run = r /\ rec.call = at[r] /\ rec.value = Value(job[r], "SUBMITTED")
        /\ store' = [store EXCEPT ![SubmitKey(r)] = Value(job[r], "SUBMITTED")]
        /\ Op[at[r]] = "sbatch_submit"
    BY <1>3 DEF RecordSubmission, Report, Persist
  <2>2. Value(job[r], "SUBMITTED") # Absent
    BY DEF Value, Absent
  <2>3. KeyOf(rec) = SubmitKey(r) /\ SubmitKey(r) \in Keys
    BY <2>1, KeysOfCall DEF KeyOf, SubmitKey
  <2> QED
    BY <2>1, <2>2, <2>3 DEF TypeOK
<1>4. CASE Conclude(r)
  <2>1. told[r] # "ABSENT" /\ Op[at[r]] # "sbatch_submit"
    BY <1>4 DEF Conclude, HeldForCall, MissInCall, TypeOK
  <2>2. /\ rec.run = r /\ rec.call = at[r] /\ rec.value = Value(job[r], told[r])
        /\ store' = [store EXCEPT ![CallKey(r)] = Value(job[r], told[r])]
    BY <1>4 DEF Conclude, Raise, Report, Persist, Succeeded
  <2>3. Value(job[r], told[r]) # Absent
    BY <2>1 DEF Value, Absent
  <2>4. KeyOf(rec) = CallKey(r) /\ CallKey(r) \in Keys
    BY <2>1, <2>2, KeysOfCall DEF KeyOf, CallKey
  <2> QED
    BY <2>2, <2>3, <2>4 DEF TypeOK
<1>5. CASE RecordCommand(r)
  <2>1. Op[at[r]] # "sbatch_submit"
    BY <1>5 DEF RecordCommand, HeldForCall, CommandOps
  <2>2. /\ rec.run = r /\ rec.call = at[r] /\ rec.value = Value(job[r], "OK")
        /\ store' = [store EXCEPT ![CallKey(r)] = Value(job[r], "OK")]
    BY <1>5 DEF RecordCommand, Report, Persist
  <2>3. Value(job[r], "OK") # Absent
    BY DEF Value, Absent
  <2>4. KeyOf(rec) = CallKey(r) /\ CallKey(r) \in Keys
    BY <2>1, <2>2, KeysOfCall DEF KeyOf, CallKey
  <2> QED
    BY <2>2, <2>3, <2>4 DEF TypeOK
<1>6. CASE CallFails(r)
  <2>1. rec.value = Value(NoId, "OPERROR")
    BY <1>6, FailType DEF CallFails, Report
  <2> QED
    BY <2>1 DEF Succeeded, Value
<1> QED
  BY <1>1, <1>2, <1>3, <1>4, <1>5, <1>6 DEF RunStep, Begin, EnterBody,
     Submit, Accept, WaitEnds, WaitFolds, Execute, Crash

-----------------------------------------------------------------------------
(* Replay. *)

\* What a call returned is stored until its record expires.
ReturnedIsStored ==
  \A rec \in returned :
    Succeeded(rec) /\ ~RecordExpired(rec) =>
      store[KeyOf(rec)] = rec.value /\ rec.value # Absent

\* ReturnedIsStored is kept.
LEMMA NextStored ==
  ASSUME TypeOK, HeldForCall, MissWhileDoing, MissInCall, ReturnedIsStored, [Next]_vars
  PROVE  ReturnedIsStored'
<1> SUFFICES ASSUME NEW rec \in returned', Succeeded(rec), ~RecordExpired(rec)'
             PROVE  store'[KeyOf(rec)] = rec.value /\ rec.value # Absent
  BY DEF ReturnedIsStored, Succeeded, KeyOf, KeyToken, Fresh
<1>1. rec \in returned => ~RecordExpired(rec)
  BY DEF RecordExpired, KeyToken, Fresh, Next, RunStep, vars, Begin, ReplayCall, EnterBody,
     ReplaySubmission, Submit, Accept, RecordSubmission, WaitEnds, WaitFolds, Conclude, Execute,
     RecordCommand, CallFails, Crash, JobEnds, UserCancels, Expire
<1>2. rec \in returned => /\ KeyOf(rec) \in Keys
                          /\ store[KeyOf(rec)] = rec.value /\ rec.value # Absent
  BY <1>1, KeyOfType DEF ReturnedIsStored
<1>3. ASSUME NEW r \in Runs, RunStep(r)
      PROVE  store'[KeyOf(rec)] = rec.value /\ rec.value # Absent
  BY <1>2, <1>3, WrittenOnce, ReportedIsStored
<1>4. ASSUME NEW k \in Keys, Expire(k)
      PROVE  store'[KeyOf(rec)] = rec.value /\ rec.value # Absent
  <2>1. rec \in returned
    BY <1>4 DEF Expire
  <2>2. KeyOf(rec) # k
    <3>1. <<k, store[k].id>> \in expired'
      BY <1>4 DEF Expire
    <3>2. KeyOf(rec) = k => RecordExpired(rec)'
      BY <3>1 DEF RecordExpired, KeyOf, KeyToken, Fresh
    <3> QED
      BY <3>2
  <2> QED
    BY <1>2, <1>4, <2>1, <2>2 DEF Expire, Persist, TypeOK
<1>5. ASSUME (\E i \in Ids : JobEnds(i)) \/ (\E p \in Runs : UserCancels(p)) \/ UNCHANGED vars
      PROVE  store'[KeyOf(rec)] = rec.value /\ rec.value # Absent
  <2>1. returned' = returned /\ store' = store
    BY <1>5 DEF JobEnds, UserCancels, vars
  <2> QED
    BY <1>2, <2>1
<1> QED
  BY <1>3, <1>4, <1>5 DEF Next

\* A call that returned in one run returns the same in every later run with
\* its token, unless a record expired (README 158, 159).
THEOREM RerunsReplay == ~MayOverlap => (CacheSpec => []RerunReplays)
<1> SUFFICES ASSUME ~MayOverlap PROVE CacheSpec => []RerunReplays
  OBVIOUS
<1>1. Init => MissInCall /\ ReturnedIsStored
  BY DEF Init, MissInCall, ReturnedIsStored
<1>2. TypeOK /\ CacheInv => HeldForCall /\ OneActive /\ MissWhileDoing
  BY DEF CacheInv, SequentialInv
<1>3. /\ TypeOK /\ CacheInv /\ MissInCall /\ ReturnedIsStored /\ [Next]_vars
      => MissInCall' /\ ReturnedIsStored'
  BY <1>2, NextMissInCall, NextStored
<1>4. TypeOK /\ ReturnedIsStored => RerunReplays
  <2> SUFFICES ASSUME TypeOK, ReturnedIsStored, NEW a \in returned, NEW b \in returned,
                      a.call = b.call, KeyToken(a.run) = KeyToken(b.run),
                      Succeeded(a), Succeeded(b), ~RecordExpired(a)
               PROVE  a.value = b.value
    BY DEF RerunReplays
  <2>1. KeyOf(a) = KeyOf(b)
    BY DEF KeyOf
  <2>2. ~RecordExpired(b)
    BY DEF RecordExpired
  <2> QED
    BY <2>1, <2>2 DEF ReturnedIsStored
<1> QED
  BY <1>1, <1>3, <1>4, CacheSafety, PTL DEF CacheSpec

-----------------------------------------------------------------------------
(* Errors. *)

\* The flow makes none of the calls whose task returns its error.
ErrorsRaise == \A n \in 1..NumCalls : Op[n] \notin {"run_try", "launch_slurm"}

NoErrorStored == \A k \in Keys : store[k].state # "OPERROR"

\* Then a failure is met again only if it happens again, whether runs overlap
\* or not (_sbatch.py 224-226, 265-268).
THEOREM ErrorsAreRetried == ErrorsRaise => (CacheSpec => []NoErrorReplayed)
<1> SUFFICES ASSUME ErrorsRaise PROVE CacheSpec => []NoErrorReplayed
  OBVIOUS
<1>1. Init => NoErrorStored /\ NoErrorReplayed
  BY DEF Init, NoErrorStored, NoErrorReplayed, Absent, Value
<1>2. ASSUME TypeOK, CacheInv, NoErrorStored, NoErrorReplayed, [Next]_vars
      PROVE  NoErrorStored' /\ NoErrorReplayed'
  <2>1. HeldForCall
    BY <1>2 DEF CacheInv
  <2>2. ASSUME NEW r \in Runs, RunStep(r) PROVE NoErrorStored' /\ NoErrorReplayed'
    <3>1. Op[at[r]] \notin {"run_try", "launch_slurm"}
      BY <1>2 DEF ErrorsRaise, TypeOK
    <3>2. NoErrorStored'
      BY <1>2, <2>1, <2>2, <3>1, StoredValue DEF NoErrorStored
    <3>3. ASSUME NEW rec \in returned', rec.via = "cache" PROVE rec.value.state # "OPERROR"
      <4>1. CASE ReplayCall(r)
        BY <1>2, <3>3, <4>1, KeysOfCall DEF ReplayCall, Report, NoErrorStored, NoErrorReplayed
      <4>2. CASE ReplaySubmission(r)
        BY <1>2, <3>3, <4>2, KeysOfCall DEF ReplaySubmission, Report, NoErrorStored, NoErrorReplayed
      <4>3. CASE RecordSubmission(r) \/ RecordCommand(r) \/ Conclude(r)
        BY <1>2, <3>3, <4>3
           DEF RecordSubmission, RecordCommand, Conclude, Raise, Report, NoErrorReplayed
      <4>4. CASE CallFails(r)
        BY <1>2, <3>3, <4>4, FailType DEF CallFails, Report, NoErrorReplayed
      <4> QED
        BY <1>2, <2>2, <3>3, <4>1, <4>2, <4>3, <4>4
           DEF RunStep, Begin, EnterBody, Submit, Accept, WaitEnds, WaitFolds, Execute, Crash,
               NoErrorReplayed
    <3> QED
      BY <3>2, <3>3 DEF NoErrorReplayed
  <2>3. ASSUME \/ \E i \in Ids : JobEnds(i)
               \/ \E p \in Runs : UserCancels(p)
               \/ \E k \in Keys : Expire(k)
               \/ UNCHANGED vars
        PROVE  NoErrorStored' /\ NoErrorReplayed'
    <3>1. Absent.state # "OPERROR"
      BY DEF Absent, Value
    <3> QED
      BY <1>2, <2>3, <3>1, EnvironmentStep DEF NoErrorStored, NoErrorReplayed
  <2> QED
    BY <1>2, <2>2, <2>3 DEF Next
<1> QED
  BY <1>1, <1>2, CacheSafety, PTL DEF CacheSpec
=============================================================================
