---------------------------- MODULE SlurmProofs ----------------------------
(***************************************************************************)
(* Proofs about SlurmCommands, for any jobs, any number of submissions and  *)
(* any number of failed commands.                                          *)
(***************************************************************************)
EXTENDS SlurmCommands, FiniteSetTheorems, TLAPS

-----------------------------------------------------------------------------
(* What sacct prints and what is read of it. *)

RecordedRows == {[id |-> i, state |-> slurm[i]] : i \in {j \in Pending : slurm[j] \notin NoRecord}}
NoiseRow == [id |-> Noise, state |-> Garbage]
AllRows == RecordedRows \cup {NoiseRow}

\* The elements of a sequence are finitely many.
LEMMA FiniteElements ==
  ASSUME NEW S, NEW s \in Seq(S)
  PROVE  IsFiniteSet(ToSet(s))
<1>1. ToSet(s) = {s[n] : n \in 1..Len(s)}
  BY DEF ToSet
<1>2. s \in [1..Len(s) -> ToSet(s)]
  BY <1>1
<1>3. \A t \in ToSet(s) : \E n \in 1..Len(s) : s[n] = t
  BY <1>1
<1>4. s \in Surjection(1..Len(s), ToSet(s))
  BY <1>2, <1>3 DEF Surjection
<1>5. IsFiniteSet(1..Len(s))
  BY FS_Interval
<1> QED
  BY <1>4, <1>5, FS_Surjection

\* Every order of a finite set holds all of it.
LEMMA OrdersAreComplete ==
  ASSUME NEW S, IsFiniteSet(S), NEW rows \in SetToSeqs(S)
  PROVE  ToSet(rows) = S
<1> DEFINE D == 1..Cardinality(S)
<1>1. /\ rows \in [D -> S]
      /\ \A i, j \in D : i # j => rows[i] # rows[j]
  BY DEF SetToSeqs
<1>2. ToSet(rows) = {rows[n] : n \in D}
  BY <1>1 DEF ToSet
<1>3. ToSet(rows) \subseteq S
  BY <1>1, <1>2
<1>4. Cardinality(S) \in Nat
  BY FS_CardinalityType
<1>5. ASSUME NEW t \in S, t \notin ToSet(rows)
      PROVE  FALSE
  <2>1. IsFiniteSet(S \ {t}) /\ Cardinality(S \ {t}) = Cardinality(S) - 1
    BY <1>5, FS_RemoveElement
  <2>2. IsFiniteSet(D) /\ Cardinality(D) = Cardinality(S)
    BY <1>4, FS_Interval
  <2>3. rows \in [D -> S \ {t}]
    <3> SUFFICES ASSUME NEW n \in D PROVE rows[n] \in S \ {t}
      BY <1>1
    <3>1. rows[n] \in ToSet(rows)
      BY <1>2
    <3> QED
      BY <1>1, <1>5, <3>1
  <2>4. Cardinality(S \ {t}) < Cardinality(D)
    BY <2>1, <2>2, <1>4
  <2>5. \E x, y \in D : x # y /\ rows[x] = rows[y]
    <3> HIDE DEF D
    <3> QED BY <2>1, <2>2, <2>3, <2>4, FS_PigeonHole
  <2> QED
    BY <2>5, <1>1
<1> QED
  BY <1>3, <1>5

LEMMA PendingType ==
  ASSUME TypeOK
  PROVE  Pending \subseteq Ids /\ IsFiniteSet(Pending)
<1>1. ToSet(job_ids) \subseteq Ids
  BY DEF TypeOK, ToSet
<1>2. IsFiniteSet(ToSet(job_ids))
  BY FiniteElements DEF TypeOK
<1>3. Pending \in SUBSET ToSet(job_ids)
  BY DEF Pending
<1> QED
  BY <1>1, <1>2, <1>3, FS_Subset

LEMMA RowsAreFinite ==
  ASSUME TypeOK
  PROVE  IsFiniteSet(AllRows)
<1> DEFINE R == {j \in Pending : slurm[j] \notin NoRecord}
           f == [i \in R |-> [id |-> i, state |-> slurm[i]]]
<1>1. IsFiniteSet(R)
  BY PendingType, FS_Subset
<1>2. f \in Surjection(R, RecordedRows)
  BY DEF Surjection, RecordedRows
<1>3. IsFiniteSet(RecordedRows)
  BY <1>1, <1>2, FS_Surjection
<1>4. IsFiniteSet({NoiseRow})
  BY FS_Singleton
<1> QED
  BY <1>3, <1>4, FS_Union DEF AllRows

\* Read in any order, the rows give the state of each pending job that has a
\* record, and of no other.
LEMMA StatesAreTrue ==
  ASSUME TypeOK, NEW rows \in Printed
  PROVE  /\ DOMAIN States(rows) = {i \in Pending : slurm[i] \notin NoRecord}
         /\ \A i \in DOMAIN States(rows) : States(rows)[i] = slurm[i]
<1>1. rows \in SetToSeqs(AllRows)
  BY DEF Printed, AllRows, RecordedRows, NoiseRow
<1>2. ToSet(rows) = AllRows
  BY <1>1, RowsAreFinite, OrdersAreComplete
<1>3. Pending \subseteq Ids
  BY PendingType
<1>4. Noise \notin Pending
  BY <1>3, NoiseAssumption DEF Noise
<1>5. {row.id : row \in AllRows} \cap Pending = {i \in Pending : slurm[i] \notin NoRecord}
  <2>1. ASSUME NEW i \in Pending, slurm[i] \notin NoRecord
        PROVE  \E row \in AllRows : i = row.id
    <3>1. [id |-> i, state |-> slurm[i]] \in AllRows
      BY <2>1 DEF AllRows, RecordedRows
    <3> QED
      BY <3>1
  <2>2. ASSUME NEW row \in AllRows, row.id \in Pending
        PROVE  slurm[row.id] \notin NoRecord
    BY <1>4, <2>2 DEF AllRows, RecordedRows, NoiseRow
  <2> QED
    BY <2>1, <2>2
<1>6. DOMAIN States(rows) = {i \in Pending : slurm[i] \notin NoRecord}
  BY <1>2, <1>5 DEF States
<1>7. ASSUME NEW i \in DOMAIN States(rows)
      PROVE  States(rows)[i] = slurm[i]
  <2>1. i \in Pending /\ slurm[i] \notin NoRecord /\ i # Noise
    BY <1>4, <1>6, <1>7
  <2>2. States(rows)[i] = (CHOOSE row \in AllRows : row.id = i).state
    BY <1>2, <1>7 DEF States
  <2>3. [id |-> i, state |-> slurm[i]] \in AllRows
    BY <2>1 DEF AllRows, RecordedRows
  <2>4. \A row \in AllRows : row.id = i => row.state = slurm[i]
    BY <2>1 DEF AllRows, RecordedRows, NoiseRow
  <2>5. PICK row \in AllRows : row = CHOOSE x \in AllRows : x.id = i
    BY <2>3
  <2>6. row.id = i
    BY <2>3, <2>5
  <2> QED
    BY <2>2, <2>4, <2>5, <2>6
<1> QED
  BY <1>6, <1>7

-----------------------------------------------------------------------------
(* The inductive invariant. *)

\* The history of how a job ended agrees with what Slurm shows of it.
EndsAreTrue ==
  \A i \in Ids : /\ slurm[i] \in Final => ended[i] = slurm[i]
                 /\ slurm[i] \in {"none", "NEW", Active} => ended[i] = "none"

\* What was seen over is how the job ended, also after a purge.
SeenIsFinal == \A i \in DOMAIN done : done[i] = ended[i]

ResultIsSeen ==
  pc = "returned" =>
    /\ Len(result) = Len(job_ids)
    /\ \A n \in 1..Len(job_ids) :
         job_ids[n] \in DOMAIN done /\ result[n] = done[job_ids[n]]

\* Until a command fails the caller knows the id of each of its jobs.
AllAreKnown == pc # "failed" => {i \in Ids : slurm[i] # "none"} = ToSet(ids)

SlurmInv == EndsAreTrue /\ SeenIsFinal /\ ResultIsSeen /\ AllAreKnown

LEMMA SlurmInit == Init => TypeOK /\ SlurmInv
<1> SUFFICES ASSUME Init PROVE TypeOK /\ SlurmInv
  OBVIOUS
<1>1. TypeOK
  BY SubmissionsAssumption, SlurmBoundsAssumption DEF Init, TypeOK, SlurmJobState
<1>2. EndsAreTrue /\ SeenIsFinal /\ ResultIsSeen
  BY DEF Init, EndsAreTrue, SeenIsFinal, ResultIsSeen, Final, Active
<1>3. ToSet(ids) = {}
  BY DEF Init, ToSet
<1>4. AllAreKnown
  BY <1>3 DEF Init, AllAreKnown
<1> QED
  BY <1>1, <1>2, <1>4 DEF SlurmInv

\* An answer is read as the id of the job it was given for, or as a failure.
LEMMA AnswerIsRead ==
  ASSUME TypeOK, NEW i \in Ids, NEW stdout \in Submitted(i), Answered(stdout)
  PROVE  \/ ids' = Append(ids, i) /\ UNCHANGED pc
         \/ pc' = "failed" /\ UNCHANGED ids
<1>1. CASE stdout = <<Noise, i>>
  <2>1. Last(stdout) = i
    BY <1>1 DEF Last
  <2> QED
    BY <2>1 DEF Answered
<1>2. CASE stdout = <<Noise, i, Noise>>
  <2>1. Last(stdout) = Noise
    BY <1>2 DEF Last
  <2> QED
    BY <2>1, NoiseAssumption DEF Answered, Noise
<1> QED
  BY <1>1, <1>2 DEF Submitted

LEMMA AppendElements ==
  ASSUME NEW S, NEW s \in Seq(S), NEW x \in S
  PROVE  ToSet(Append(s, x)) = ToSet(s) \cup {x}
<1> DEFINE t == Append(s, x)
<1>1. /\ t \in Seq(S)
      /\ Len(t) = Len(s) + 1
      /\ \A n \in 1..Len(s) : t[n] = s[n]
      /\ t[Len(s) + 1] = x
  OBVIOUS
<1>2. ToSet(t) = {t[n] : n \in 1..Len(t)} /\ ToSet(s) = {s[n] : n \in 1..Len(s)}
  BY <1>1 DEF ToSet
<1>3. 1..Len(t) = (1..Len(s)) \cup {Len(s) + 1}
  BY <1>1
<1> HIDE DEF t
<1>4. ToSet(t) = ToSet(s) \cup {x}
  BY <1>1, <1>2, <1>3
<1> QED
  BY <1>4 DEF t

-----------------------------------------------------------------------------
(* The steps. *)

LEMMA SubmitKeeps ==
  ASSUME TypeOK, SlurmInv, Submit
  PROVE  TypeOK' /\ SlurmInv'
<1>1. PICK i \in Ids :
        /\ slurm[i] = "none" /\ slurm' = [slurm EXCEPT ![i] = "NEW"]
        /\ \E stdout \in Submitted(i) : Answered(stdout)
  BY DEF Submit
<1>2. \/ ids' = Append(ids, i) /\ UNCHANGED pc
      \/ pc' = "failed" /\ UNCHANGED ids
  BY <1>1, AnswerIsRead
<1>3. pc = "submit" /\ Len(ids) < NumJobs /\ UNCHANGED <<job_ids, done, result, ended, faults>>
  BY DEF Submit
<1>4. ids' \in Seq(Ids) /\ Len(ids') <= NumJobs
  <2>1. ids \in Seq(Ids) /\ Len(ids) \in Nat /\ NumJobs \in Nat
    BY SubmissionsAssumption DEF TypeOK
  <2>2. Append(ids, i) \in Seq(Ids) /\ Len(Append(ids, i)) = Len(ids) + 1
    BY <2>1
  <2> QED
    BY <1>2, <1>3, <2>1, <2>2
<1>5. TypeOK'
  BY <1>1, <1>2, <1>3, <1>4 DEF TypeOK, NoRecord
<1>6. EndsAreTrue' /\ SeenIsFinal' /\ ResultIsSeen'
  BY <1>1, <1>2, <1>3
     DEF TypeOK, SlurmInv, EndsAreTrue, SeenIsFinal, ResultIsSeen, Final, Active
<1>7. {j \in Ids : slurm'[j] # "none"} = {j \in Ids : slurm[j] # "none"} \cup {i}
  <2>1. slurm'[i] # "none" /\ \A j \in Ids : j # i => slurm'[j] = slurm[j]
    BY <1>1 DEF TypeOK
  <2> QED
    BY <2>1
<1>8. CASE ids' = Append(ids, i) /\ UNCHANGED pc
  <2>1. ToSet(ids') = ToSet(ids) \cup {i}
    BY <1>8, AppendElements DEF TypeOK
  <2> QED
    BY <1>3, <1>5, <1>6, <1>7, <2>1 DEF SlurmInv, AllAreKnown
<1>9. CASE pc' = "failed"
  BY <1>5, <1>6, <1>9 DEF SlurmInv, AllAreKnown
<1> QED
  BY <1>2, <1>8, <1>9

LEMMA AwaitKeeps ==
  ASSUME TypeOK, SlurmInv, Await
  PROVE  TypeOK' /\ SlurmInv'
<1>1. job_ids' \in Seq(Ids) /\ Len(job_ids') <= NumJobs + 1
  <2>1. ids # <<>> /\ Head(ids) \in Ids
    BY SubmissionsAssumption DEF TypeOK, Await
  <2> QED
    BY <2>1, SubmissionsAssumption DEF TypeOK, Await
<1>2. pc' = "poll" /\ pc = "submit" /\ UNCHANGED <<ids, done, result, slurm, ended, faults>>
  BY DEF Await, cluster
<1>3. TypeOK'
  BY <1>1, <1>2 DEF TypeOK
<1> QED
  BY <1>2, <1>3
     DEF SlurmInv, EndsAreTrue, SeenIsFinal, ResultIsSeen, AllAreKnown

LEMMA PollKeeps ==
  ASSUME TypeOK, SlurmInv, Poll
  PROVE  TypeOK' /\ SlurmInv'
<1>1. pc = "poll" /\ UNCHANGED <<ids, job_ids, done, slurm, ended, faults>>
  BY DEF Poll, cluster
<1>2. CASE AllDone
  <2>1. pc' = "returned" /\ result' = [n \in 1..Len(job_ids) |-> done[job_ids[n]]]
    BY <1>2 DEF Poll
  <2>2. Len(job_ids) \in Nat
    BY DEF TypeOK
  <2>3. \A n \in 1..Len(job_ids) : done[job_ids[n]] \in SlurmJobState
    BY <1>2 DEF AllDone, TypeOK, Final, SlurmJobState
  <2>4. result' \in Seq(SlurmJobState) /\ Len(result') = Len(job_ids)
    BY <2>1, <2>2, <2>3
  <2>5. TypeOK'
    BY <1>1, <2>1, <2>4 DEF TypeOK
  <2>6. ResultIsSeen'
    BY <1>1, <1>2, <2>1, <2>4 DEF ResultIsSeen, AllDone
  <2> QED
    BY <1>1, <2>1, <2>5, <2>6
       DEF SlurmInv, EndsAreTrue, SeenIsFinal, AllAreKnown
<1>3. CASE ~AllDone
  <2>1. pc' = "sacct" /\ UNCHANGED result
    BY <1>3 DEF Poll
  <2>2. TypeOK'
    BY <1>1, <2>1 DEF TypeOK
  <2> QED
    BY <1>1, <2>1, <2>2
       DEF SlurmInv, EndsAreTrue, SeenIsFinal, ResultIsSeen, AllAreKnown
<1> QED
  BY <1>2, <1>3

LEMMA SacctKeeps ==
  ASSUME TypeOK, SlurmInv, Sacct
  PROVE  TypeOK' /\ SlurmInv'
<1>1. PICK rows \in Printed :
        LET states == States(rows)
            over == {i \in DOMAIN states : is_terminal_state(states[i])}
        IN  IF Pending \subseteq DOMAIN states
            THEN /\ done' = [i \in DOMAIN done \cup over |->
                               IF i \in over THEN states[i] ELSE done[i]]
                 /\ pc' = "poll"
            ELSE pc' = "failed" /\ UNCHANGED done
  BY DEF Sacct
<1> DEFINE states == States(rows)
           over == {i \in DOMAIN states : is_terminal_state(states[i])}
<1>2. pc = "sacct" /\ UNCHANGED <<ids, job_ids, result, slurm, ended, faults>>
  BY DEF Sacct, cluster
<1>3. DOMAIN states \subseteq Ids /\ \A i \in DOMAIN states : states[i] = slurm[i]
  BY StatesAreTrue, PendingType
<1>4. \A i \in over : i \in Ids /\ slurm[i] \in Final /\ states[i] = slurm[i]
  <2> SUFFICES ASSUME NEW i \in over PROVE i \in Ids /\ slurm[i] \in Final /\ states[i] = slurm[i]
    OBVIOUS
  <2>1. i \in Ids /\ states[i] = slurm[i] /\ slurm[i] \in TerminalStates
    BY <1>3 DEF is_terminal_state
  <2>2. slurm[i] \in {"none", Active} \cup NoRecord \cup Final
    BY <2>1 DEF TypeOK
  <2> QED
    BY <2>1, <2>2 DEF TerminalStates, Active, NoRecord, Final
<1>5. CASE Pending \subseteq DOMAIN states
  <2>1. /\ done' = [i \in DOMAIN done \cup over |-> IF i \in over THEN states[i] ELSE done[i]]
        /\ pc' = "poll"
    BY <1>1, <1>5
  <2> HIDE DEF over, states
  <2>2. DOMAIN done' \subseteq Ids
    BY <1>4, <2>1 DEF TypeOK
  <2>3. \A i \in DOMAIN done' : done'[i] \in Final
    BY <1>4, <2>1 DEF TypeOK
  <2>4. \A i \in DOMAIN done' : done'[i] = ended[i]
    BY <1>4, <2>1 DEF SlurmInv, SeenIsFinal, EndsAreTrue
  <2>5. TypeOK'
    BY <1>2, <2>1, <2>2, <2>3 DEF TypeOK
  <2> QED
    BY <1>2, <2>1, <2>4, <2>5
       DEF SlurmInv, EndsAreTrue, SeenIsFinal, ResultIsSeen, AllAreKnown
<1>6. CASE ~(Pending \subseteq DOMAIN states)
  <2>1. pc' = "failed" /\ UNCHANGED done
    BY <1>1, <1>6
  <2>2. TypeOK'
    BY <1>2, <2>1 DEF TypeOK
  <2> QED
    BY <1>2, <2>1, <2>2
       DEF SlurmInv, EndsAreTrue, SeenIsFinal, ResultIsSeen, AllAreKnown
<1> QED
  BY <1>5, <1>6

\* A call that fails, with or without a new job behind it.
LEMMA FailureKeeps ==
  ASSUME TypeOK, SlurmInv, SubmitRefused \/ SubmitFails \/ SacctFails
  PROVE  TypeOK' /\ SlurmInv'
<1>1. pc' = "failed" /\ UNCHANGED <<ids, job_ids, done, result, ended>>
  BY DEF SubmitRefused, SubmitFails, SacctFails, cluster
<1>2. faults' \in 0..MaxFaults
  BY SlurmBoundsAssumption DEF SubmitRefused, SubmitFails, SacctFails, Fault, TypeOK
<1>3. \/ UNCHANGED slurm
      \/ \E i \in Ids : slurm[i] = "none" /\ slurm' = [slurm EXCEPT ![i] = "NEW"]
  BY DEF SubmitRefused, SubmitFails, SacctFails, cluster
<1>4. slurm' \in [Ids -> {"none", Active} \cup NoRecord \cup Final]
  BY <1>3 DEF TypeOK, NoRecord
<1>5. TypeOK'
  BY <1>1, <1>2, <1>4 DEF TypeOK
<1>6. EndsAreTrue'
  BY <1>1, <1>3 DEF TypeOK, SlurmInv, EndsAreTrue, Final, Active
<1> QED
  BY <1>1, <1>5, <1>6 DEF SlurmInv, SeenIsFinal, ResultIsSeen, AllAreKnown

LEMMA SlurmKeeps ==
  ASSUME TypeOK, SlurmInv, NEW i \in Ids, Recorded(i) \/ Ends(i) \/ Purged(i)
  PROVE  TypeOK' /\ SlurmInv'
<1>1. UNCHANGED <<pc, ids, job_ids, done, result, faults>>
  BY DEF Recorded, Ends, Purged, caller
<1>2. slurm[i] # "none" /\ slurm'[i] # "none"
  BY DEF Recorded, Ends, Purged, TypeOK, Active, Final
<1>3. \A j \in Ids : j # i => slurm'[j] = slurm[j] /\ ended'[j] = ended[j]
  BY DEF Recorded, Ends, Purged, TypeOK
<1>4. TypeOK'
  BY <1>1 DEF Recorded, Ends, Purged, TypeOK, NoRecord
<1>5. EndsAreTrue'
  <2>1. CASE Recorded(i)
    BY <2>1 DEF Recorded, TypeOK, SlurmInv, EndsAreTrue, Active, Final
  <2>2. CASE Ends(i)
    BY <2>2 DEF Ends, TypeOK, SlurmInv, EndsAreTrue, Active, Final
  <2>3. CASE Purged(i)
    BY <2>3 DEF Purged, TypeOK, SlurmInv, EndsAreTrue, Active, Final
  <2> QED
    BY <2>1, <2>2, <2>3
<1>6. SeenIsFinal'
  <2>1. i \in DOMAIN done => ended'[i] = ended[i]
    <3>1. CASE Ends(i)
      BY <3>1 DEF Ends, TypeOK, SlurmInv, EndsAreTrue, SeenIsFinal, Active, Final
    <3>2. CASE Recorded(i) \/ Purged(i)
      BY <3>2 DEF Recorded, Purged
    <3> QED
      BY <3>1, <3>2
  <2> QED
    BY <1>1, <1>3, <2>1 DEF TypeOK, SlurmInv, SeenIsFinal
<1>7. {j \in Ids : slurm'[j] # "none"} = {j \in Ids : slurm[j] # "none"}
  BY <1>2, <1>3
<1> QED
  BY <1>1, <1>4, <1>5, <1>6, <1>7 DEF SlurmInv, ResultIsSeen, AllAreKnown

LEMMA SlurmNext == TypeOK /\ SlurmInv /\ [Next]_vars => TypeOK' /\ SlurmInv'
<1> SUFFICES ASSUME TypeOK, SlurmInv, [Next]_vars PROVE TypeOK' /\ SlurmInv'
  OBVIOUS
<1>1. CASE Call
  BY <1>1, SubmitKeeps, AwaitKeeps, PollKeeps, SacctKeeps, FailureKeeps DEF Call
<1>2. CASE \E i \in Ids : Recorded(i) \/ Ends(i) \/ Purged(i)
  BY <1>2, SlurmKeeps
<1>3. CASE UNCHANGED vars
  BY <1>3 DEF vars, caller, cluster, TypeOK, SlurmInv, EndsAreTrue, SeenIsFinal,
              ResultIsSeen, AllAreKnown
<1> QED
  BY <1>1, <1>2, <1>3 DEF Next

-----------------------------------------------------------------------------
(* The theorems. *)

\* The types of submit_slurm, await_completion and Slurm, and the inductive
\* invariant (slurm.py 185-466).
THEOREM SlurmSafety == SlurmCommandsSpec => [](TypeOK /\ SlurmInv)
<1>1. Init => TypeOK /\ SlurmInv
  BY SlurmInit
<1>2. TypeOK /\ SlurmInv /\ [Next]_vars => (TypeOK /\ SlurmInv)'
  BY SlurmNext
<1> QED
  BY <1>1, <1>2, PTL DEF SlurmCommandsSpec

\* await_completion returns the state each job ended in, in the order it was
\* asked, for any number of jobs (slurm.py 222-243, 262-279).
THEOREM FinalStates == SlurmCommandsSpec => []ReturnedAreFinal
<1>1. TypeOK /\ SlurmInv => ReturnedAreFinal
  BY DEF TypeOK, SlurmInv, ResultIsSeen, SeenIsFinal, ReturnedAreFinal
<1> QED
  BY <1>1, SlurmSafety, PTL

\* A caller that got an answer knows of every job Slurm accepted from it
\* (slurm.py 410-422).
THEOREM AllJobsKnown == SlurmCommandsSpec => []NoJobIsForgotten
<1>1. TypeOK /\ SlurmInv => NoJobIsForgotten
  BY DEF SlurmInv, AllAreKnown, NoJobIsForgotten
<1> QED
  BY <1>1, SlurmSafety, PTL

\* Without a failed command the wait fails only for a job that has no record
\* and was not seen over (slurm.py 262-267).
THEOREM OnlyUnseenFail == SlurmCommandsSpec => FailsOnlyForUnseen
<1> DEFINE Unseen ==
             \E n \in 1..Len(job_ids) :
               job_ids[n] \notin DOMAIN done /\ slurm[job_ids[n]] \in NoRecord
           A == pc = "sacct" /\ pc' = "failed" /\ faults' = faults => Unseen
<1>1. TypeOK /\ [Next]_vars => [A]_vars
  <2> SUFFICES ASSUME TypeOK, Next, pc = "sacct", pc' = "failed", faults' = faults
               PROVE  Unseen
    BY DEF vars, caller
  <2>1. ~Fault
    BY SlurmBoundsAssumption DEF Fault, TypeOK
  <2>2. Sacct
    BY <2>1 DEF Next, Call, Submit, SubmitRefused, SubmitFails, Await, Poll, SacctFails,
                Recorded, Ends, Purged, caller
  <2>3. PICK rows \in Printed : ~(Pending \subseteq DOMAIN States(rows))
    BY <2>2 DEF Sacct
  <2>4. PICK i \in Pending : slurm[i] \in NoRecord
    BY <2>3, StatesAreTrue
  <2>5. PICK n \in 1..Len(job_ids) : job_ids[n] = i
    BY DEF Pending, ToSet, TypeOK
  <2> QED
    BY <2>4, <2>5 DEF Pending
<1>2. SlurmCommandsSpec => []TypeOK
  BY SlurmSafety, PTL
<1> QED
  BY <1>1, <1>2, PTL DEF SlurmCommandsSpec, FailsOnlyForUnseen
=============================================================================
