------------------------ MODULE SbatchMonitorProofs ------------------------
(* Proofs of the safety of SbatchMonitor for every set of jobs, flow runs  *)
(* and tasks, whatever tasks share a job or a flow run, any NumReads and   *)
(* any number of failures; one of them, FoldIsThorough, for the instances  *)
(* in which it is true.                                                    *)
EXTENDS SbatchMonitor, TLAPS, FiniteSetTheorems

\* The states the monitor writes of its own accord are states of Slurm.
LEMMA OwnStates == {"PENDING", "CANCELLED"} \subseteq SlurmJobState
BY DEF SlurmJobState

\* The states of a sacct that printed nothing are of the type of snap.
LEMMA NoStatesType == NoStates \in [Jobs -> JobStates \cup {NoState}]
BY DEF NoStates

\* The initial state has the types of TypeOK.
LEMMA InitType == Init => TypeOK
<1> SUFFICES ASSUME Init PROVE TypeOK
  OBVIOUS
<1>1. pc \in [Tasks -> Inserting \cup Polling \cup Final]
  BY DEF Init, Inserting, Polling
<1>2. snap \in [Tasks -> [Jobs -> JobStates \cup {NoState}]]
  BY NoStatesType DEF Init
<1>3. slurm \in [Jobs -> JobStates \cup {NoState}]
  BY NoStatesType DEF Init
<1>4. faults \in 0..MaxFaults
  BY BoundsAssumption DEF Init
<1> QED
  BY <1>1, <1>2, <1>3, <1>4 DEF Init, TypeOK

\* A refresh writes no state that sacct did not print, the strengthening that
\* makes TypeOK inductive.
SnapComplete ==
  \A t \in Tasks : pc[t] \in {"apply", "applyW"} =>
    \A j \in todo[t] : snap[t][j] \in JobStates

\* Leaving an iteration by an exception keeps the types of what it changes.
LEMMA RaisesType ==
  ASSUME TypeOK, NEW t \in Tasks, Raises(t)
  PROVE  /\ faults' \in 0..MaxFaults
         /\ pc' \in [Tasks -> Inserting \cup Polling \cup Final]
         /\ ids' \in [Tasks -> SUBSET Jobs]
         /\ todo' \in [Tasks -> SUBSET Jobs]
         /\ snap' \in [Tasks -> [Jobs -> JobStates \cup {NoState}]]
         /\ own' \in [Tasks -> Flows \cup {NoFlow}]
         /\ got' \in [Tasks -> SlurmJobState \cup {NoState}]
<1> USE DEF Raises, TypeOK, Set
<1>1. faults' \in 0..MaxFaults
  BY BoundsAssumption
<1>2. pc' \in [Tasks -> Inserting \cup Polling \cup Final]
  BY DEF Goto, Polling, Final
<1>3. snap' \in [Tasks -> [Jobs -> JobStates \cup {NoState}]]
  BY NoStatesType
<1>4. /\ ids' \in [Tasks -> SUBSET Jobs]
      /\ todo' \in [Tasks -> SUBSET Jobs]
      /\ own' \in [Tasks -> Flows \cup {NoFlow}]
      /\ got' \in [Tasks -> SlurmJobState \cup {NoState}]
  OBVIOUS
<1> QED
  BY <1>1, <1>2, <1>3, <1>4

\* Every step of the code, of a failure or of the environment keeps them.
LEMMA NextType == TypeOK /\ SnapComplete /\ [Next]_vars => TypeOK'
<1> SUFFICES ASSUME TypeOK, SnapComplete, [Next]_vars PROVE TypeOK'
  OBVIOUS
<1> USE TasksAssumption, StatesAssumption, BoundsAssumption, OwnStates, NoStatesType
    DEF TypeOK, env, Goto, Set, NoFlow, Inserting, Polling, Guarding, Section, Final
<1>1. ASSUME NEW t \in Tasks, InsertRead(t) PROVE TypeOK'
  BY <1>1 DEF InsertRead, ReadOwner, OwnerFor
<1>2. ASSUME NEW t \in Tasks, InsertWrite(t) PROVE TypeOK'
  BY <1>2 DEF InsertWrite, WriteStatus
<1>3. ASSUME NEW t \in Tasks, GuardCheck(t) PROVE TypeOK'
  BY <1>3 DEF GuardCheck
<1>4. ASSUME NEW t \in Tasks, GuardList(t) PROVE TypeOK'
  BY <1>4 DEF GuardList, JobsOfFlow, ListStatus
<1>5. ASSUME NEW t \in Tasks, MarkRead(t) PROVE TypeOK'
  BY <1>5 DEF MarkRead, ReadOwner, OwnerFor
<1>6. ASSUME NEW t \in Tasks, MarkWrite(t) PROVE TypeOK'
  BY <1>6 DEF MarkWrite, WriteStatus
<1>7. ASSUME NEW t \in Tasks, Scancel(t) PROVE TypeOK'
  BY <1>7 DEF Scancel
<1>8. ASSUME NEW t \in Tasks, Fold(t) PROVE TypeOK'
  BY <1>8 DEF Fold, DeleteStatus
<1>9. ASSUME NEW t \in Tasks, CheckLease(t) PROVE TypeOK'
  BY <1>9 DEF CheckLease
<1>10. ASSUME NEW t \in Tasks, Acquire(t) PROVE TypeOK'
  BY <1>10 DEF Acquire
<1>11. ASSUME NEW t \in Tasks, Recheck(t) PROVE TypeOK'
  <2>1. CASE lease = "fresh"
    BY <1>11, <2>1 DEF Recheck
  <2>2. CASE lease # "fresh"
    BY <1>11, <2>2 DEF Recheck
  <2> QED
    BY <2>1, <2>2
<1>12. ASSUME NEW t \in Tasks, WriteLease(t) PROVE TypeOK'
  BY <1>12 DEF WriteLease
<1>13. ASSUME NEW t \in Tasks, Release(t) PROVE TypeOK'
  BY <1>13 DEF Release
<1>14. ASSUME NEW t \in Tasks, ListRunning(t) PROVE TypeOK'
  BY <1>14 DEF ListRunning, ListStatus
<1>15. ASSUME NEW t \in Tasks, Sacct(t) PROVE TypeOK'
  BY <1>15 DEF Sacct
<1>16. ASSUME NEW t \in Tasks, SacctFails(t) PROVE TypeOK'
  BY <1>16 DEF SacctFails
<1>17. ASSUME NEW t \in Tasks, ApplyRead(t) PROVE TypeOK'
  BY <1>17 DEF ApplyRead, ReadOwner, OwnerFor
<1>18. ASSUME NEW t \in Tasks, ApplyWrite(t) PROVE TypeOK'
  <2> PICK j \in Jobs :
        /\ IsFirst(j, todo[t])
        /\ WriteStatus(t, j, snap[t][j])
        /\ todo' = [todo EXCEPT ![t] = todo[t] \ {j}]
        /\ snap' = [snap EXCEPT ![t] = [snap[t] EXCEPT ![j] = NoState]]
        /\ pc' = [pc EXCEPT ![t] = IF todo[t] = {j} THEN "read" ELSE "apply"]
    BY <1>18 DEF ApplyWrite
  <2>1. status' \in [Jobs -> SlurmJobState \cup {"CANCELLING", "ABSENT"}]
    BY <1>18 DEF WriteStatus, ApplyWrite, IsFirst, SnapComplete
  <2>2. owner' \in [Jobs -> Flows \cup {NoFlow}]
    BY DEF WriteStatus
  <2>3. [snap[t] EXCEPT ![j] = NoState] \in [Jobs -> JobStates \cup {NoState}]
    OBVIOUS
  <2>4. snap' \in [Tasks -> [Jobs -> JobStates \cup {NoState}]]
    BY <2>3
  <2>5. pc' \in [Tasks -> Inserting \cup Polling \cup Final]
    OBVIOUS
  <2> QED
    BY <1>18, <2>1, <2>2, <2>4, <2>5 DEF ApplyWrite
<1>19. ASSUME NEW t \in Tasks, ReadStatus(t) PROVE TypeOK'
  <2>1. got' \in [Tasks -> SlurmJobState \cup {NoState}]
    BY <1>19 DEF ReadStatus
  <2>2. pc' \in [Tasks -> Inserting \cup Polling \cup Final]
    <3>1. \E l \in {"reinsert", "delete", "poll"} : pc' = [pc EXCEPT ![t] = l]
      BY <1>19 DEF ReadStatus, NextIteration
    <3> QED
      BY <3>1
  <2> QED
    BY <1>19, <2>1, <2>2 DEF ReadStatus
<1>20. ASSUME NEW t \in Tasks, ReinsertRead(t) PROVE TypeOK'
  BY <1>20 DEF ReinsertRead, ReadOwner, OwnerFor
<1>21. ASSUME NEW t \in Tasks, ReinsertWrite(t) PROVE TypeOK'
  BY <1>21 DEF ReinsertWrite, WriteStatus, NextIteration
<1>22. ASSUME NEW t \in Tasks, Report(t) PROVE TypeOK'
  BY <1>22 DEF Report, DeleteStatus
<1>23. ASSUME NEW t \in Tasks, TaskFault(t) PROVE TypeOK'
  <2>1. CASE GuardBlind(t)
    BY <2>1 DEF GuardBlind
  <2>2. CASE ScancelFails(t)
    BY <2>2 DEF ScancelFails
  <2>3. CASE CallFails(t)
    BY <2>3, RaisesType DEF CallFails
  <2>4. CASE ReplyLost(t)
    <3>1. /\ lease' \in {"fresh", "expired"}
          /\ slots' \in SUBSET Tasks
      BY <2>4 DEF ReplyLost
    <3>2. status' \in [Jobs -> SlurmJobState \cup {"CANCELLING", "ABSENT"}]
      BY <2>4 DEF ReplyLost, WriteStatus, DeleteStatus, IsFirst, SnapComplete
    <3>3. owner' \in [Jobs -> Flows \cup {NoFlow}]
      BY <2>4 DEF ReplyLost, WriteStatus, DeleteStatus
    <3> QED
      BY <2>4, RaisesType, <3>1, <3>2, <3>3 DEF ReplyLost
  <2> QED
    BY <1>23, <2>1, <2>2, <2>3, <2>4 DEF TaskFault
<1>24. ASSUME NEW t \in Tasks, SlotExpires(t) PROVE TypeOK'
  BY <1>24 DEF SlotExpires
<1>25. ASSUME NEW j \in Jobs, NEW s \in JobStates, SlurmStep(j, s) PROVE TypeOK'
  BY <1>25 DEF SlurmStep
<1>26. CASE LeaseExpires
  BY <1>26 DEF LeaseExpires
<1>27. ASSUME NEW f \in Flows, UserCancels(f) PROVE TypeOK'
  BY <1>27 DEF UserCancels
<1>28. ASSUME NEW f \in Flows, Crash(f) PROVE TypeOK'
  <2>1. faults' \in 0..MaxFaults
    BY <1>28 DEF Crash
  <2>2. pc' \in [Tasks -> Inserting \cup Polling \cup Final]
    BY <1>28 DEF Crash
  <2>3. /\ ids' \in [Tasks -> SUBSET Jobs]
        /\ todo' \in [Tasks -> SUBSET Jobs]
        /\ own' \in [Tasks -> Flows \cup {NoFlow}]
    BY <1>28 DEF Crash
  <2>4. snap' \in [Tasks -> [Jobs -> JobStates \cup {NoState}]]
    BY <1>28, NoStatesType DEF Crash
  <2>5. got' \in [Tasks -> SlurmJobState \cup {NoState}]
    BY <1>28 DEF Crash
  <2> QED
    BY <1>28, <2>1, <2>2, <2>3, <2>4, <2>5 DEF Crash
<1>29. CASE UNCHANGED vars
  BY <1>29 DEF vars
<1> QED
  BY <1>1, <1>2, <1>3, <1>4, <1>5, <1>6, <1>7, <1>8, <1>9, <1>10, <1>11, <1>12,
     <1>13, <1>14, <1>15, <1>16, <1>17, <1>18, <1>19, <1>20, <1>21, <1>22, <1>23,
     <1>24, <1>25, <1>26, <1>27, <1>28, <1>29 DEF Next, TaskStep, AllFinal


\* Every step of the system keeps SnapComplete.
LEMMA NextSnap == TypeOK /\ SnapComplete /\ [Next]_vars => SnapComplete'
<1> SUFFICES ASSUME TypeOK, SnapComplete, [Next]_vars PROVE SnapComplete'
  OBVIOUS
<1> USE DEF TypeOK, SnapComplete, Goto, Set, env
<1>1. ASSUME NEW t \in Tasks, InsertRead(t) PROVE SnapComplete'
  BY <1>1 DEF InsertRead, ReadOwner, OwnerFor
<1>2. ASSUME NEW t \in Tasks, InsertWrite(t) PROVE SnapComplete'
  BY <1>2 DEF InsertWrite, WriteStatus
<1>3. ASSUME NEW t \in Tasks, GuardCheck(t) PROVE SnapComplete'
  BY <1>3 DEF GuardCheck
<1>4. ASSUME NEW t \in Tasks, GuardList(t) PROVE SnapComplete'
  BY <1>4 DEF GuardList, JobsOfFlow, ListStatus
<1>5. ASSUME NEW t \in Tasks, MarkRead(t) PROVE SnapComplete'
  BY <1>5 DEF MarkRead, ReadOwner, OwnerFor
<1>6. ASSUME NEW t \in Tasks, MarkWrite(t) PROVE SnapComplete'
  BY <1>6 DEF MarkWrite, WriteStatus, IsFirst
<1>7. ASSUME NEW t \in Tasks, Scancel(t) PROVE SnapComplete'
  BY <1>7 DEF Scancel
<1>8. ASSUME NEW t \in Tasks, Fold(t) PROVE SnapComplete'
  BY <1>8 DEF Fold, DeleteStatus
<1>9. ASSUME NEW t \in Tasks, CheckLease(t) PROVE SnapComplete'
  BY <1>9 DEF CheckLease
<1>10. ASSUME NEW t \in Tasks, Acquire(t) PROVE SnapComplete'
  BY <1>10 DEF Acquire
<1>11. ASSUME NEW t \in Tasks, Recheck(t) PROVE SnapComplete'
  BY <1>11 DEF Recheck
<1>12. ASSUME NEW t \in Tasks, WriteLease(t) PROVE SnapComplete'
  BY <1>12 DEF WriteLease
<1>13. ASSUME NEW t \in Tasks, Release(t) PROVE SnapComplete'
  BY <1>13 DEF Release
<1>14. ASSUME NEW t \in Tasks, ListRunning(t) PROVE SnapComplete'
  BY <1>14 DEF ListRunning, ListStatus
<1>15. ASSUME NEW t \in Tasks, Sacct(t) PROVE SnapComplete'
  BY <1>15 DEF Sacct
<1>16. ASSUME NEW t \in Tasks, SacctFails(t) PROVE SnapComplete'
  BY <1>16 DEF SacctFails
<1>17. ASSUME NEW t \in Tasks, ApplyRead(t) PROVE SnapComplete'
  BY <1>17 DEF ApplyRead, ReadOwner, OwnerFor
<1>18. ASSUME NEW t \in Tasks, ApplyWrite(t) PROVE SnapComplete'
  BY <1>18 DEF ApplyWrite, WriteStatus, IsFirst
<1>19. ASSUME NEW t \in Tasks, ReadStatus(t) PROVE SnapComplete'
  BY <1>19 DEF ReadStatus, NextIteration, is_terminal_state
<1>20. ASSUME NEW t \in Tasks, ReinsertRead(t) PROVE SnapComplete'
  BY <1>20 DEF ReinsertRead, ReadOwner, OwnerFor
<1>21. ASSUME NEW t \in Tasks, ReinsertWrite(t) PROVE SnapComplete'
  BY <1>21 DEF ReinsertWrite, WriteStatus, NextIteration
<1>22. ASSUME NEW t \in Tasks, Report(t) PROVE SnapComplete'
  BY <1>22 DEF Report, DeleteStatus
<1>23. ASSUME NEW t \in Tasks, GuardBlind(t) PROVE SnapComplete'
  BY <1>23 DEF GuardBlind
<1>24. ASSUME NEW t \in Tasks, ScancelFails(t) PROVE SnapComplete'
  BY <1>24 DEF ScancelFails
<1>25. ASSUME NEW t \in Tasks, CallFails(t) PROVE SnapComplete'
  BY <1>25 DEF CallFails, Raises
<1>26. ASSUME NEW t \in Tasks, ReplyLost(t) PROVE SnapComplete'
  BY <1>26 DEF ReplyLost, Raises, WriteStatus, DeleteStatus, IsFirst
<1>27. ASSUME NEW t \in Tasks, SlotExpires(t) PROVE SnapComplete'
  BY <1>27 DEF SlotExpires
<1>28. ASSUME NEW j \in Jobs, NEW s \in JobStates, SlurmStep(j, s) PROVE SnapComplete'
  BY <1>28 DEF SlurmStep
<1>29. CASE LeaseExpires
  BY <1>29 DEF LeaseExpires
<1>30. ASSUME NEW f \in Flows, UserCancels(f) PROVE SnapComplete'
  BY <1>30 DEF UserCancels
<1>31. ASSUME NEW f \in Flows, Crash(f) PROVE SnapComplete'
  BY <1>31 DEF Crash
<1>32. CASE UNCHANGED vars
  BY <1>32 DEF vars
<1> QED
  BY <1>1, <1>2, <1>3, <1>4, <1>5, <1>6, <1>7, <1>8, <1>9, <1>10, <1>11, <1>12,
     <1>13, <1>14, <1>15, <1>16, <1>17, <1>18, <1>19, <1>20, <1>21, <1>22, <1>23, <1>24,
     <1>25, <1>26, <1>27, <1>28, <1>29, <1>30, <1>31, <1>32
     DEF Next, TaskStep, TaskFault, AllFinal

\* SlotExcludes starts true: nobody is inside the slot.
LEMMA InitSlot == Init => SlotExcludes
BY DEF Init, SlotExcludes, Section

\* Every step keeps it: the slot is given only when it is free, and taken
\* back only from a task that is not inside.
LEMMA NextSlot == TypeOK /\ SlotExcludes /\ [Next]_vars => SlotExcludes'
<1> SUFFICES ASSUME TypeOK, SlotExcludes, [Next]_vars PROVE SlotExcludes'
  OBVIOUS
<1> USE DEF TypeOK, SlotExcludes, Section, Goto, Set, env
<1>1. ASSUME NEW t \in Tasks, InsertRead(t) PROVE SlotExcludes'
  BY <1>1 DEF InsertRead, ReadOwner, OwnerFor
<1>2. ASSUME NEW t \in Tasks, InsertWrite(t) PROVE SlotExcludes'
  BY <1>2 DEF InsertWrite, WriteStatus
<1>3. ASSUME NEW t \in Tasks, GuardCheck(t) PROVE SlotExcludes'
  BY <1>3 DEF GuardCheck
<1>4. ASSUME NEW t \in Tasks, GuardList(t) PROVE SlotExcludes'
  BY <1>4 DEF GuardList, JobsOfFlow, ListStatus
<1>5. ASSUME NEW t \in Tasks, MarkRead(t) PROVE SlotExcludes'
  BY <1>5 DEF MarkRead, ReadOwner, OwnerFor
<1>6. ASSUME NEW t \in Tasks, MarkWrite(t) PROVE SlotExcludes'
  BY <1>6 DEF MarkWrite, WriteStatus, IsFirst
<1>7. ASSUME NEW t \in Tasks, Scancel(t) PROVE SlotExcludes'
  BY <1>7 DEF Scancel
<1>8. ASSUME NEW t \in Tasks, Fold(t) PROVE SlotExcludes'
  BY <1>8 DEF Fold, DeleteStatus
<1>9. ASSUME NEW t \in Tasks, CheckLease(t) PROVE SlotExcludes'
  BY <1>9 DEF CheckLease
<1>10. ASSUME NEW t \in Tasks, Acquire(t) PROVE SlotExcludes'
  BY <1>10 DEF Acquire
<1>11. ASSUME NEW t \in Tasks, Recheck(t) PROVE SlotExcludes'
  BY <1>11 DEF Recheck
<1>12. ASSUME NEW t \in Tasks, WriteLease(t) PROVE SlotExcludes'
  BY <1>12 DEF WriteLease
<1>13. ASSUME NEW t \in Tasks, Release(t) PROVE SlotExcludes'
  BY <1>13 DEF Release
<1>14. ASSUME NEW t \in Tasks, ListRunning(t) PROVE SlotExcludes'
  BY <1>14 DEF ListRunning, ListStatus
<1>15. ASSUME NEW t \in Tasks, Sacct(t) PROVE SlotExcludes'
  BY <1>15 DEF Sacct
<1>16. ASSUME NEW t \in Tasks, SacctFails(t) PROVE SlotExcludes'
  BY <1>16 DEF SacctFails
<1>17. ASSUME NEW t \in Tasks, ApplyRead(t) PROVE SlotExcludes'
  BY <1>17 DEF ApplyRead, ReadOwner, OwnerFor
<1>18. ASSUME NEW t \in Tasks, ApplyWrite(t) PROVE SlotExcludes'
  BY <1>18 DEF ApplyWrite, WriteStatus, IsFirst
<1>19. ASSUME NEW t \in Tasks, ReadStatus(t) PROVE SlotExcludes'
  BY <1>19 DEF ReadStatus, NextIteration, is_terminal_state
<1>20. ASSUME NEW t \in Tasks, ReinsertRead(t) PROVE SlotExcludes'
  BY <1>20 DEF ReinsertRead, ReadOwner, OwnerFor
<1>21. ASSUME NEW t \in Tasks, ReinsertWrite(t) PROVE SlotExcludes'
  BY <1>21 DEF ReinsertWrite, WriteStatus, NextIteration
<1>22. ASSUME NEW t \in Tasks, Report(t) PROVE SlotExcludes'
  BY <1>22 DEF Report, DeleteStatus
<1>23. ASSUME NEW t \in Tasks, GuardBlind(t) PROVE SlotExcludes'
  BY <1>23 DEF GuardBlind
<1>24. ASSUME NEW t \in Tasks, ScancelFails(t) PROVE SlotExcludes'
  BY <1>24 DEF ScancelFails
<1>25. ASSUME NEW t \in Tasks, CallFails(t) PROVE SlotExcludes'
  BY <1>25 DEF CallFails, Raises
<1>26. ASSUME NEW t \in Tasks, ReplyLost(t) PROVE SlotExcludes'
  <2>1. /\ pc'[t] \notin Section
        /\ \A u \in Tasks \ {t} : pc'[u] = pc[u]
    BY <1>26 DEF ReplyLost, Raises
  <2>2. CASE pc[t] = "acquire"
    BY <1>26, <2>1, <2>2 DEF ReplyLost
  <2>3. CASE pc[t] = "writeLease"
    <3>1. \A u \in Tasks \ {t} : pc[u] \notin Section
      BY <2>3
    <3> QED
      BY <2>1, <3>1
  <2>4. CASE pc[t] = "unlock"
    BY <1>26, <2>1, <2>4 DEF ReplyLost
  <2>5. CASE pc[t] \notin {"acquire", "writeLease", "unlock"}
    BY <1>26, <2>1, <2>5 DEF ReplyLost
  <2> QED
    BY <2>2, <2>3, <2>4, <2>5
<1>27. ASSUME NEW t \in Tasks, SlotExpires(t) PROVE SlotExcludes'
  BY <1>27 DEF SlotExpires
<1>28. ASSUME NEW j \in Jobs, NEW s \in JobStates, SlurmStep(j, s) PROVE SlotExcludes'
  BY <1>28 DEF SlurmStep
<1>29. CASE LeaseExpires
  BY <1>29 DEF LeaseExpires
<1>30. ASSUME NEW f \in Flows, UserCancels(f) PROVE SlotExcludes'
  BY <1>30 DEF UserCancels
<1>31. ASSUME NEW f \in Flows, Crash(f) PROVE SlotExcludes'
  BY <1>31 DEF Crash
<1>32. CASE UNCHANGED vars
  BY <1>32 DEF vars
<1> QED
  BY <1>1, <1>2, <1>3, <1>4, <1>5, <1>6, <1>7, <1>8, <1>9, <1>10, <1>11, <1>12,
     <1>13, <1>14, <1>15, <1>16, <1>17, <1>18, <1>19, <1>20, <1>21, <1>22, <1>23, <1>24,
     <1>25, <1>26, <1>27, <1>28, <1>29, <1>30, <1>31, <1>32
     DEF Next, TaskStep, TaskFault, AllFinal

\* What the monitor writes for want of a state of Slurm is never final.
LEMMA NotFinal ==
  /\ "PENDING" \notin TerminalStates /\ "CANCELLING" \notin TerminalStates
  /\ "ABSENT" \notin TerminalStates /\ NoState \notin TerminalStates
BY DEF TerminalStates, NoState

\* No state sacct prints is taken for a missing variable.
LEMMA NotAbsent == "ABSENT" \notin JobStates \cup {NoState}
BY StatesAssumption DEF SlurmJobState, NoState

\* A list has one first job, so the job whose owner was read is the one written.
LEMMA FirstUnique ==
  \A S \in SUBSET Jobs, j, k \in Jobs : IsFirst(j, S) /\ IsFirst(k, S) => j = k
BY JobsAssumption DEF IsFirst

\* A job that is over stays over, a cancelled flow run stays cancelled: what is
\* settled stays settled.
LEMMA SettledStable ==
  ASSUME TypeOK, [Next]_vars, NEW k \in Jobs, ~Settled(k)'
  PROVE  ~Settled(k)
<1>1. cancelled \subseteq cancelled'
  BY DEF Next, vars, env, TaskStep, TaskFault, AllFinal, InsertRead, InsertWrite,
     GuardCheck, GuardBlind, GuardList, MarkRead, MarkWrite, Scancel, ScancelFails, Fold,
     CheckLease, Acquire, Recheck, WriteLease, Release, ListRunning, Sacct, SacctFails,
     ApplyRead, ApplyWrite, ReadStatus, ReinsertRead, ReinsertWrite, Report, CallFails,
     ReplyLost, SlurmStep, LeaseExpires, SlotExpires, UserCancels, Crash
<1>2. slurm[k] \in TerminalStates => slurm'[k] = slurm[k]
  <2>1. ASSUME NEW j \in Jobs, NEW s \in JobStates, SlurmStep(j, s)
        PROVE  slurm[k] \in TerminalStates => slurm'[k] = slurm[k]
    BY <2>1 DEF SlurmStep, Over, TypeOK
  <2>2. (\E j \in Jobs, s \in JobStates : SlurmStep(j, s)) \/ slurm' = slurm
    BY DEF Next, vars, env, TaskStep, TaskFault, AllFinal, InsertRead, InsertWrite,
       GuardCheck, GuardBlind, GuardList, MarkRead, MarkWrite, Scancel, ScancelFails, Fold,
       CheckLease, Acquire, Recheck, WriteLease, Release, ListRunning, Sacct, SacctFails,
       ApplyRead, ApplyWrite, ReadStatus, ReinsertRead, ReinsertWrite, Report, CallFails,
       ReplyLost, LeaseExpires, SlotExpires, UserCancels, Crash
  <2> QED
    BY <2>1, <2>2
<1> QED
  BY <1>1, <1>2 DEF Settled, Over

\* A status variable shows no final state but Slurm's, however late it is written.
LEMMA NextFinalStatus == TypeOK /\ FinalStatus /\ FinalSnap /\ [Next]_vars => FinalStatus'
<1> SUFFICES ASSUME TypeOK, FinalStatus, FinalSnap, [Next]_vars PROVE FinalStatus'
  OBVIOUS
<1> USE TasksAssumption, NotFinal
    DEF TypeOK, FinalStatus, FinalSnap, Over, Goto, Set, env
<1>1. ASSUME NEW t \in Tasks, InsertRead(t) PROVE FinalStatus'
  BY <1>1 DEF InsertRead, ReadOwner, OwnerFor
<1>2. ASSUME NEW t \in Tasks, InsertWrite(t) PROVE FinalStatus'
  BY <1>2 DEF InsertWrite, WriteStatus
<1>3. ASSUME NEW t \in Tasks, GuardCheck(t) PROVE FinalStatus'
  BY <1>3 DEF GuardCheck
<1>4. ASSUME NEW t \in Tasks, GuardList(t) PROVE FinalStatus'
  BY <1>4 DEF GuardList, JobsOfFlow, ListStatus
<1>5. ASSUME NEW t \in Tasks, MarkRead(t) PROVE FinalStatus'
  BY <1>5 DEF MarkRead, ReadOwner, OwnerFor
<1>6. ASSUME NEW t \in Tasks, MarkWrite(t) PROVE FinalStatus'
  BY <1>6 DEF MarkWrite, WriteStatus, IsFirst
<1>7. ASSUME NEW t \in Tasks, Scancel(t) PROVE FinalStatus'
  BY <1>7 DEF Scancel
<1>8. ASSUME NEW t \in Tasks, Fold(t) PROVE FinalStatus'
  BY <1>8 DEF Fold, DeleteStatus
<1>9. ASSUME NEW t \in Tasks, CheckLease(t) PROVE FinalStatus'
  BY <1>9 DEF CheckLease
<1>10. ASSUME NEW t \in Tasks, Acquire(t) PROVE FinalStatus'
  BY <1>10 DEF Acquire
<1>11. ASSUME NEW t \in Tasks, Recheck(t) PROVE FinalStatus'
  BY <1>11 DEF Recheck
<1>12. ASSUME NEW t \in Tasks, WriteLease(t) PROVE FinalStatus'
  BY <1>12 DEF WriteLease
<1>13. ASSUME NEW t \in Tasks, Release(t) PROVE FinalStatus'
  BY <1>13 DEF Release
<1>14. ASSUME NEW t \in Tasks, ListRunning(t) PROVE FinalStatus'
  BY <1>14 DEF ListRunning, ListStatus
<1>15. ASSUME NEW t \in Tasks, Sacct(t) PROVE FinalStatus'
  BY <1>15 DEF Sacct
<1>16. ASSUME NEW t \in Tasks, SacctFails(t) PROVE FinalStatus'
  BY <1>16 DEF SacctFails
<1>17. ASSUME NEW t \in Tasks, ApplyRead(t) PROVE FinalStatus'
  BY <1>17 DEF ApplyRead, ReadOwner, OwnerFor
<1>18. ASSUME NEW t \in Tasks, ApplyWrite(t) PROVE FinalStatus'
  BY <1>18 DEF ApplyWrite, WriteStatus, IsFirst
<1>19. ASSUME NEW t \in Tasks, ReadStatus(t) PROVE FinalStatus'
  BY <1>19 DEF ReadStatus, NextIteration, is_terminal_state
<1>20. ASSUME NEW t \in Tasks, ReinsertRead(t) PROVE FinalStatus'
  BY <1>20 DEF ReinsertRead, ReadOwner, OwnerFor
<1>21. ASSUME NEW t \in Tasks, ReinsertWrite(t) PROVE FinalStatus'
  BY <1>21 DEF ReinsertWrite, WriteStatus, NextIteration
<1>22. ASSUME NEW t \in Tasks, Report(t) PROVE FinalStatus'
  BY <1>22 DEF Report, DeleteStatus
<1>23. ASSUME NEW t \in Tasks, GuardBlind(t) PROVE FinalStatus'
  BY <1>23 DEF GuardBlind
<1>24. ASSUME NEW t \in Tasks, ScancelFails(t) PROVE FinalStatus'
  BY <1>24 DEF ScancelFails
<1>25. ASSUME NEW t \in Tasks, CallFails(t) PROVE FinalStatus'
  BY <1>25 DEF CallFails, Raises
<1>26. ASSUME NEW t \in Tasks, ReplyLost(t) PROVE FinalStatus'
  <2>1. CASE status' = status
    BY <1>26, <2>1 DEF ReplyLost
  <2>2. CASE \E j \in Jobs, s \in {"PENDING", "CANCELLING", "ABSENT"} :
               status' = [status EXCEPT ![j] = s]
    BY <1>26, <2>2 DEF ReplyLost
  <2>3. CASE \E j \in Jobs : status' = [status EXCEPT ![j] = snap[t][j]]
    BY <1>26, <2>3 DEF ReplyLost
  <2> QED
    BY <1>26, <2>1, <2>2, <2>3 DEF ReplyLost, WriteStatus, DeleteStatus
<1>27. ASSUME NEW t \in Tasks, SlotExpires(t) PROVE FinalStatus'
  BY <1>27 DEF SlotExpires
<1>28. ASSUME NEW j \in Jobs, NEW s \in JobStates, SlurmStep(j, s) PROVE FinalStatus'
  BY <1>28 DEF SlurmStep
<1>29. CASE LeaseExpires
  BY <1>29 DEF LeaseExpires
<1>30. ASSUME NEW f \in Flows, UserCancels(f) PROVE FinalStatus'
  BY <1>30 DEF UserCancels
<1>31. ASSUME NEW f \in Flows, Crash(f) PROVE FinalStatus'
  BY <1>31 DEF Crash
<1>32. CASE UNCHANGED vars
  BY <1>32 DEF vars
<1> QED
  BY <1>1, <1>2, <1>3, <1>4, <1>5, <1>6, <1>7, <1>8, <1>9, <1>10, <1>11, <1>12,
     <1>13, <1>14, <1>15, <1>16, <1>17, <1>18, <1>19, <1>20, <1>21, <1>22, <1>23, <1>24,
     <1>25, <1>26, <1>27, <1>28, <1>29, <1>30, <1>31, <1>32
     DEF Next, TaskStep, TaskFault, AllFinal

\* Nor does an answer of sacct, however long ago it was printed.
LEMMA NextFinalSnap == TypeOK /\ FinalSnap /\ [Next]_vars => FinalSnap'
<1> SUFFICES ASSUME TypeOK, FinalSnap, [Next]_vars PROVE FinalSnap'
  OBVIOUS
<1> USE TasksAssumption, NotFinal
    DEF TypeOK, FinalSnap, Over, NoStates, Goto, Set, env
<1>1. ASSUME NEW t \in Tasks, InsertRead(t) PROVE FinalSnap'
  BY <1>1 DEF InsertRead, ReadOwner, OwnerFor
<1>2. ASSUME NEW t \in Tasks, InsertWrite(t) PROVE FinalSnap'
  BY <1>2 DEF InsertWrite, WriteStatus
<1>3. ASSUME NEW t \in Tasks, GuardCheck(t) PROVE FinalSnap'
  BY <1>3 DEF GuardCheck
<1>4. ASSUME NEW t \in Tasks, GuardList(t) PROVE FinalSnap'
  BY <1>4 DEF GuardList, JobsOfFlow, ListStatus
<1>5. ASSUME NEW t \in Tasks, MarkRead(t) PROVE FinalSnap'
  BY <1>5 DEF MarkRead, ReadOwner, OwnerFor
<1>6. ASSUME NEW t \in Tasks, MarkWrite(t) PROVE FinalSnap'
  BY <1>6 DEF MarkWrite, WriteStatus, IsFirst
<1>7. ASSUME NEW t \in Tasks, Scancel(t) PROVE FinalSnap'
  BY <1>7 DEF Scancel
<1>8. ASSUME NEW t \in Tasks, Fold(t) PROVE FinalSnap'
  BY <1>8 DEF Fold, DeleteStatus
<1>9. ASSUME NEW t \in Tasks, CheckLease(t) PROVE FinalSnap'
  BY <1>9 DEF CheckLease
<1>10. ASSUME NEW t \in Tasks, Acquire(t) PROVE FinalSnap'
  BY <1>10 DEF Acquire
<1>11. ASSUME NEW t \in Tasks, Recheck(t) PROVE FinalSnap'
  BY <1>11 DEF Recheck
<1>12. ASSUME NEW t \in Tasks, WriteLease(t) PROVE FinalSnap'
  BY <1>12 DEF WriteLease
<1>13. ASSUME NEW t \in Tasks, Release(t) PROVE FinalSnap'
  BY <1>13 DEF Release
<1>14. ASSUME NEW t \in Tasks, ListRunning(t) PROVE FinalSnap'
  BY <1>14 DEF ListRunning, ListStatus
<1>15. ASSUME NEW t \in Tasks, Sacct(t) PROVE FinalSnap'
  BY <1>15 DEF Sacct
<1>16. ASSUME NEW t \in Tasks, SacctFails(t) PROVE FinalSnap'
  BY <1>16 DEF SacctFails
<1>17. ASSUME NEW t \in Tasks, ApplyRead(t) PROVE FinalSnap'
  BY <1>17 DEF ApplyRead, ReadOwner, OwnerFor
<1>18. ASSUME NEW t \in Tasks, ApplyWrite(t) PROVE FinalSnap'
  BY <1>18 DEF ApplyWrite, WriteStatus, IsFirst
<1>19. ASSUME NEW t \in Tasks, ReadStatus(t) PROVE FinalSnap'
  BY <1>19 DEF ReadStatus, NextIteration, is_terminal_state
<1>20. ASSUME NEW t \in Tasks, ReinsertRead(t) PROVE FinalSnap'
  BY <1>20 DEF ReinsertRead, ReadOwner, OwnerFor
<1>21. ASSUME NEW t \in Tasks, ReinsertWrite(t) PROVE FinalSnap'
  BY <1>21 DEF ReinsertWrite, WriteStatus, NextIteration
<1>22. ASSUME NEW t \in Tasks, Report(t) PROVE FinalSnap'
  BY <1>22 DEF Report, DeleteStatus
<1>23. ASSUME NEW t \in Tasks, GuardBlind(t) PROVE FinalSnap'
  BY <1>23 DEF GuardBlind
<1>24. ASSUME NEW t \in Tasks, ScancelFails(t) PROVE FinalSnap'
  BY <1>24 DEF ScancelFails
<1>25. ASSUME NEW t \in Tasks, CallFails(t) PROVE FinalSnap'
  BY <1>25 DEF CallFails, Raises
<1>26. ASSUME NEW t \in Tasks, ReplyLost(t) PROVE FinalSnap'
  BY <1>26 DEF ReplyLost, Raises, WriteStatus, DeleteStatus, IsFirst
<1>27. ASSUME NEW t \in Tasks, SlotExpires(t) PROVE FinalSnap'
  BY <1>27 DEF SlotExpires
<1>28. ASSUME NEW j \in Jobs, NEW s \in JobStates, SlurmStep(j, s) PROVE FinalSnap'
  BY <1>28 DEF SlurmStep
<1>29. CASE LeaseExpires
  BY <1>29 DEF LeaseExpires
<1>30. ASSUME NEW f \in Flows, UserCancels(f) PROVE FinalSnap'
  BY <1>30 DEF UserCancels
<1>31. ASSUME NEW f \in Flows, Crash(f) PROVE FinalSnap'
  BY <1>31 DEF Crash
<1>32. CASE UNCHANGED vars
  BY <1>32 DEF vars
<1> QED
  BY <1>1, <1>2, <1>3, <1>4, <1>5, <1>6, <1>7, <1>8, <1>9, <1>10, <1>11, <1>12,
     <1>13, <1>14, <1>15, <1>16, <1>17, <1>18, <1>19, <1>20, <1>21, <1>22, <1>23, <1>24,
     <1>25, <1>26, <1>27, <1>28, <1>29, <1>30, <1>31, <1>32
     DEF Next, TaskStep, TaskFault, AllFinal

\* Nor a task that is about to report, or has reported.
LEMMA NextFinalGot == TypeOK /\ FinalStatus /\ FinalGot /\ [Next]_vars => FinalGot'
<1> SUFFICES ASSUME TypeOK, FinalStatus, FinalGot, [Next]_vars PROVE FinalGot'
  OBVIOUS
<1> USE TasksAssumption, NotFinal
    DEF TypeOK, FinalStatus, FinalGot, Over, Goto, Set, env
<1>1. ASSUME NEW t \in Tasks, InsertRead(t) PROVE FinalGot'
  BY <1>1 DEF InsertRead, ReadOwner, OwnerFor
<1>2. ASSUME NEW t \in Tasks, InsertWrite(t) PROVE FinalGot'
  BY <1>2 DEF InsertWrite, WriteStatus
<1>3. ASSUME NEW t \in Tasks, GuardCheck(t) PROVE FinalGot'
  BY <1>3 DEF GuardCheck
<1>4. ASSUME NEW t \in Tasks, GuardList(t) PROVE FinalGot'
  BY <1>4 DEF GuardList, JobsOfFlow, ListStatus
<1>5. ASSUME NEW t \in Tasks, MarkRead(t) PROVE FinalGot'
  BY <1>5 DEF MarkRead, ReadOwner, OwnerFor
<1>6. ASSUME NEW t \in Tasks, MarkWrite(t) PROVE FinalGot'
  BY <1>6 DEF MarkWrite, WriteStatus, IsFirst
<1>7. ASSUME NEW t \in Tasks, Scancel(t) PROVE FinalGot'
  BY <1>7 DEF Scancel
<1>8. ASSUME NEW t \in Tasks, Fold(t) PROVE FinalGot'
  BY <1>8 DEF Fold, DeleteStatus
<1>9. ASSUME NEW t \in Tasks, CheckLease(t) PROVE FinalGot'
  BY <1>9 DEF CheckLease
<1>10. ASSUME NEW t \in Tasks, Acquire(t) PROVE FinalGot'
  BY <1>10 DEF Acquire
<1>11. ASSUME NEW t \in Tasks, Recheck(t) PROVE FinalGot'
  BY <1>11 DEF Recheck
<1>12. ASSUME NEW t \in Tasks, WriteLease(t) PROVE FinalGot'
  BY <1>12 DEF WriteLease
<1>13. ASSUME NEW t \in Tasks, Release(t) PROVE FinalGot'
  BY <1>13 DEF Release
<1>14. ASSUME NEW t \in Tasks, ListRunning(t) PROVE FinalGot'
  BY <1>14 DEF ListRunning, ListStatus
<1>15. ASSUME NEW t \in Tasks, Sacct(t) PROVE FinalGot'
  BY <1>15 DEF Sacct
<1>16. ASSUME NEW t \in Tasks, SacctFails(t) PROVE FinalGot'
  BY <1>16 DEF SacctFails
<1>17. ASSUME NEW t \in Tasks, ApplyRead(t) PROVE FinalGot'
  BY <1>17 DEF ApplyRead, ReadOwner, OwnerFor
<1>18. ASSUME NEW t \in Tasks, ApplyWrite(t) PROVE FinalGot'
  BY <1>18 DEF ApplyWrite, WriteStatus, IsFirst
<1>19. ASSUME NEW t \in Tasks, ReadStatus(t) PROVE FinalGot'
  BY <1>19 DEF ReadStatus, NextIteration, is_terminal_state
<1>20. ASSUME NEW t \in Tasks, ReinsertRead(t) PROVE FinalGot'
  BY <1>20 DEF ReinsertRead, ReadOwner, OwnerFor
<1>21. ASSUME NEW t \in Tasks, ReinsertWrite(t) PROVE FinalGot'
  BY <1>21 DEF ReinsertWrite, WriteStatus, NextIteration
<1>22. ASSUME NEW t \in Tasks, Report(t) PROVE FinalGot'
  BY <1>22 DEF Report, DeleteStatus
<1>23. ASSUME NEW t \in Tasks, GuardBlind(t) PROVE FinalGot'
  BY <1>23 DEF GuardBlind
<1>24. ASSUME NEW t \in Tasks, ScancelFails(t) PROVE FinalGot'
  BY <1>24 DEF ScancelFails
<1>25. ASSUME NEW t \in Tasks, CallFails(t) PROVE FinalGot'
  BY <1>25 DEF CallFails, Raises
<1>26. ASSUME NEW t \in Tasks, ReplyLost(t) PROVE FinalGot'
  BY <1>26 DEF ReplyLost, Raises, WriteStatus, DeleteStatus, IsFirst
<1>27. ASSUME NEW t \in Tasks, SlotExpires(t) PROVE FinalGot'
  BY <1>27 DEF SlotExpires
<1>28. ASSUME NEW j \in Jobs, NEW s \in JobStates, SlurmStep(j, s) PROVE FinalGot'
  BY <1>28 DEF SlurmStep
<1>29. CASE LeaseExpires
  BY <1>29 DEF LeaseExpires
<1>30. ASSUME NEW f \in Flows, UserCancels(f) PROVE FinalGot'
  BY <1>30 DEF UserCancels
<1>31. ASSUME NEW f \in Flows, Crash(f) PROVE FinalGot'
  BY <1>31 DEF Crash
<1>32. CASE UNCHANGED vars
  BY <1>32 DEF vars
<1> QED
  BY <1>1, <1>2, <1>3, <1>4, <1>5, <1>6, <1>7, <1>8, <1>9, <1>10, <1>11, <1>12,
     <1>13, <1>14, <1>15, <1>16, <1>17, <1>18, <1>19, <1>20, <1>21, <1>22, <1>23, <1>24,
     <1>25, <1>26, <1>27, <1>28, <1>29, <1>30, <1>31, <1>32
     DEF Next, TaskStep, TaskFault, AllFinal

\* The variable of an unsettled job keeps naming a flow run that awaits it.
LEMMA NextVariableOwned == TypeOK /\ VariableOwned /\ InsertOwned /\ WriteOwned /\ [Next]_vars => VariableOwned'
<1> SUFFICES ASSUME TypeOK, VariableOwned, InsertOwned, WriteOwned, [Next]_vars,
                    NEW k \in Jobs, status'[k] # "ABSENT", ~Settled(k)'
             PROVE  AwaitedBy(owner'[k], k)
  BY DEF VariableOwned, AwaitedBy
<1>1. ~Settled(k)
  BY SettledStable
<1>2. status[k] # "ABSENT" => AwaitedBy(owner[k], k)
  BY <1>1 DEF VariableOwned
<1>3. \A t \in Tasks : pc[t] \in {"insertW", "reinsertW"} /\ TaskJob[t] = k => AwaitedBy(own[t], k)
  BY <1>1 DEF InsertOwned
<1>4. \A t \in Tasks : pc[t] \in {"markW", "applyW"} /\ IsFirst(k, todo[t]) => AwaitedBy(own[t], k)
  BY <1>1 DEF WriteOwned
<1> USE TasksAssumption DEF TypeOK, Goto, Set, env
<1>5. ASSUME NEW t \in Tasks, InsertRead(t) PROVE AwaitedBy(owner'[k], k)
  BY <1>5, <1>2, <1>3, <1>4 DEF InsertRead, ReadOwner, OwnerFor
<1>6. ASSUME NEW t \in Tasks, InsertWrite(t) PROVE AwaitedBy(owner'[k], k)
  BY <1>6, <1>2, <1>3, <1>4 DEF InsertWrite, WriteStatus
<1>7. ASSUME NEW t \in Tasks, GuardCheck(t) PROVE AwaitedBy(owner'[k], k)
  BY <1>7, <1>2, <1>3, <1>4 DEF GuardCheck
<1>8. ASSUME NEW t \in Tasks, GuardList(t) PROVE AwaitedBy(owner'[k], k)
  BY <1>8, <1>2, <1>3, <1>4 DEF GuardList, JobsOfFlow, ListStatus
<1>9. ASSUME NEW t \in Tasks, MarkRead(t) PROVE AwaitedBy(owner'[k], k)
  BY <1>9, <1>2, <1>3, <1>4 DEF MarkRead, ReadOwner, OwnerFor
<1>10. ASSUME NEW t \in Tasks, MarkWrite(t) PROVE AwaitedBy(owner'[k], k)
  BY <1>10, <1>2, <1>3, <1>4 DEF MarkWrite, WriteStatus, IsFirst
<1>11. ASSUME NEW t \in Tasks, Scancel(t) PROVE AwaitedBy(owner'[k], k)
  BY <1>11, <1>2, <1>3, <1>4 DEF Scancel
<1>12. ASSUME NEW t \in Tasks, Fold(t) PROVE AwaitedBy(owner'[k], k)
  BY <1>12, <1>2, <1>3, <1>4 DEF Fold, DeleteStatus
<1>13. ASSUME NEW t \in Tasks, CheckLease(t) PROVE AwaitedBy(owner'[k], k)
  BY <1>13, <1>2, <1>3, <1>4 DEF CheckLease
<1>14. ASSUME NEW t \in Tasks, Acquire(t) PROVE AwaitedBy(owner'[k], k)
  BY <1>14, <1>2, <1>3, <1>4 DEF Acquire
<1>15. ASSUME NEW t \in Tasks, Recheck(t) PROVE AwaitedBy(owner'[k], k)
  BY <1>15, <1>2, <1>3, <1>4 DEF Recheck
<1>16. ASSUME NEW t \in Tasks, WriteLease(t) PROVE AwaitedBy(owner'[k], k)
  BY <1>16, <1>2, <1>3, <1>4 DEF WriteLease
<1>17. ASSUME NEW t \in Tasks, Release(t) PROVE AwaitedBy(owner'[k], k)
  BY <1>17, <1>2, <1>3, <1>4 DEF Release
<1>18. ASSUME NEW t \in Tasks, ListRunning(t) PROVE AwaitedBy(owner'[k], k)
  BY <1>18, <1>2, <1>3, <1>4 DEF ListRunning, ListStatus
<1>19. ASSUME NEW t \in Tasks, Sacct(t) PROVE AwaitedBy(owner'[k], k)
  BY <1>19, <1>2, <1>3, <1>4 DEF Sacct
<1>20. ASSUME NEW t \in Tasks, SacctFails(t) PROVE AwaitedBy(owner'[k], k)
  BY <1>20, <1>2, <1>3, <1>4 DEF SacctFails
<1>21. ASSUME NEW t \in Tasks, ApplyRead(t) PROVE AwaitedBy(owner'[k], k)
  BY <1>21, <1>2, <1>3, <1>4 DEF ApplyRead, ReadOwner, OwnerFor
<1>22. ASSUME NEW t \in Tasks, ApplyWrite(t) PROVE AwaitedBy(owner'[k], k)
  BY <1>22, <1>2, <1>3, <1>4 DEF ApplyWrite, WriteStatus, IsFirst
<1>23. ASSUME NEW t \in Tasks, ReadStatus(t) PROVE AwaitedBy(owner'[k], k)
  BY <1>23, <1>2, <1>3, <1>4 DEF ReadStatus, NextIteration, is_terminal_state
<1>24. ASSUME NEW t \in Tasks, ReinsertRead(t) PROVE AwaitedBy(owner'[k], k)
  BY <1>24, <1>2, <1>3, <1>4 DEF ReinsertRead, ReadOwner, OwnerFor
<1>25. ASSUME NEW t \in Tasks, ReinsertWrite(t) PROVE AwaitedBy(owner'[k], k)
  BY <1>25, <1>2, <1>3, <1>4 DEF ReinsertWrite, WriteStatus, NextIteration
<1>26. ASSUME NEW t \in Tasks, Report(t) PROVE AwaitedBy(owner'[k], k)
  BY <1>26, <1>2, <1>3, <1>4 DEF Report, DeleteStatus
<1>27. ASSUME NEW t \in Tasks, GuardBlind(t) PROVE AwaitedBy(owner'[k], k)
  BY <1>27, <1>2, <1>3, <1>4 DEF GuardBlind
<1>28. ASSUME NEW t \in Tasks, ScancelFails(t) PROVE AwaitedBy(owner'[k], k)
  BY <1>28, <1>2, <1>3, <1>4 DEF ScancelFails
<1>29. ASSUME NEW t \in Tasks, CallFails(t) PROVE AwaitedBy(owner'[k], k)
  BY <1>29, <1>2, <1>3, <1>4 DEF CallFails, Raises
<1>30. ASSUME NEW t \in Tasks, ReplyLost(t) PROVE AwaitedBy(owner'[k], k)
  BY <1>30, <1>2, <1>3, <1>4 DEF ReplyLost, Raises, WriteStatus, DeleteStatus, IsFirst
<1>31. ASSUME NEW t \in Tasks, SlotExpires(t) PROVE AwaitedBy(owner'[k], k)
  BY <1>31, <1>2, <1>3, <1>4 DEF SlotExpires
<1>32. ASSUME NEW j \in Jobs, NEW s \in JobStates, SlurmStep(j, s) PROVE AwaitedBy(owner'[k], k)
  BY <1>32, <1>2, <1>3, <1>4 DEF SlurmStep
<1>33. CASE LeaseExpires
  BY <1>33, <1>2, <1>3, <1>4 DEF LeaseExpires
<1>34. ASSUME NEW f \in Flows, UserCancels(f) PROVE AwaitedBy(owner'[k], k)
  BY <1>34, <1>2, <1>3, <1>4 DEF UserCancels
<1>35. ASSUME NEW f \in Flows, Crash(f) PROVE AwaitedBy(owner'[k], k)
  BY <1>35, <1>2, <1>3, <1>4 DEF Crash
<1>36. CASE UNCHANGED vars
  BY <1>36, <1>2, <1>3, <1>4 DEF vars
<1> QED
  BY <1>5, <1>6, <1>7, <1>8, <1>9, <1>10, <1>11, <1>12, <1>13, <1>14, <1>15, <1>16,
     <1>17, <1>18, <1>19, <1>20, <1>21, <1>22, <1>23, <1>24, <1>25, <1>26, <1>27, <1>28,
     <1>29, <1>30, <1>31, <1>32, <1>33, <1>34, <1>35, <1>36
     DEF Next, TaskStep, TaskFault, AllFinal

\* So does what a waiter is about to insert.
LEMMA NextInsertOwned == TypeOK /\ VariableOwned /\ InsertOwned /\ [Next]_vars => InsertOwned'
<1> SUFFICES ASSUME TypeOK, VariableOwned, InsertOwned, [Next]_vars,
                    NEW u \in Tasks, pc'[u] \in {"insertW", "reinsertW"}, ~Settled(TaskJob[u])'
             PROVE  AwaitedBy(own'[u], TaskJob[u])
  BY DEF InsertOwned, AwaitedBy
<1>1. ~Settled(TaskJob[u])
  BY SettledStable, TasksAssumption
<1>2. status[TaskJob[u]] # "ABSENT" => AwaitedBy(owner[TaskJob[u]], TaskJob[u])
  BY <1>1, TasksAssumption DEF VariableOwned
<1>3. pc[u] \in {"insertW", "reinsertW"} => AwaitedBy(own[u], TaskJob[u])
  BY <1>1 DEF InsertOwned
<1>4. AwaitedBy(TaskFlow[u], TaskJob[u])
  BY DEF AwaitedBy
<1> USE TasksAssumption DEF TypeOK, Goto, Set, env
<1>5. ASSUME NEW t \in Tasks, InsertRead(t) PROVE AwaitedBy(own'[u], TaskJob[u])
  BY <1>5, <1>2, <1>3, <1>4 DEF InsertRead, ReadOwner, OwnerFor
<1>6. ASSUME NEW t \in Tasks, InsertWrite(t) PROVE AwaitedBy(own'[u], TaskJob[u])
  BY <1>6, <1>2, <1>3, <1>4 DEF InsertWrite, WriteStatus
<1>7. ASSUME NEW t \in Tasks, GuardCheck(t) PROVE AwaitedBy(own'[u], TaskJob[u])
  BY <1>7, <1>2, <1>3, <1>4 DEF GuardCheck
<1>8. ASSUME NEW t \in Tasks, GuardList(t) PROVE AwaitedBy(own'[u], TaskJob[u])
  BY <1>8, <1>2, <1>3, <1>4 DEF GuardList, JobsOfFlow, ListStatus
<1>9. ASSUME NEW t \in Tasks, MarkRead(t) PROVE AwaitedBy(own'[u], TaskJob[u])
  BY <1>9, <1>2, <1>3, <1>4 DEF MarkRead, ReadOwner, OwnerFor
<1>10. ASSUME NEW t \in Tasks, MarkWrite(t) PROVE AwaitedBy(own'[u], TaskJob[u])
  BY <1>10, <1>2, <1>3, <1>4 DEF MarkWrite, WriteStatus, IsFirst
<1>11. ASSUME NEW t \in Tasks, Scancel(t) PROVE AwaitedBy(own'[u], TaskJob[u])
  BY <1>11, <1>2, <1>3, <1>4 DEF Scancel
<1>12. ASSUME NEW t \in Tasks, Fold(t) PROVE AwaitedBy(own'[u], TaskJob[u])
  BY <1>12, <1>2, <1>3, <1>4 DEF Fold, DeleteStatus
<1>13. ASSUME NEW t \in Tasks, CheckLease(t) PROVE AwaitedBy(own'[u], TaskJob[u])
  BY <1>13, <1>2, <1>3, <1>4 DEF CheckLease
<1>14. ASSUME NEW t \in Tasks, Acquire(t) PROVE AwaitedBy(own'[u], TaskJob[u])
  BY <1>14, <1>2, <1>3, <1>4 DEF Acquire
<1>15. ASSUME NEW t \in Tasks, Recheck(t) PROVE AwaitedBy(own'[u], TaskJob[u])
  BY <1>15, <1>2, <1>3, <1>4 DEF Recheck
<1>16. ASSUME NEW t \in Tasks, WriteLease(t) PROVE AwaitedBy(own'[u], TaskJob[u])
  BY <1>16, <1>2, <1>3, <1>4 DEF WriteLease
<1>17. ASSUME NEW t \in Tasks, Release(t) PROVE AwaitedBy(own'[u], TaskJob[u])
  BY <1>17, <1>2, <1>3, <1>4 DEF Release
<1>18. ASSUME NEW t \in Tasks, ListRunning(t) PROVE AwaitedBy(own'[u], TaskJob[u])
  BY <1>18, <1>2, <1>3, <1>4 DEF ListRunning, ListStatus
<1>19. ASSUME NEW t \in Tasks, Sacct(t) PROVE AwaitedBy(own'[u], TaskJob[u])
  BY <1>19, <1>2, <1>3, <1>4 DEF Sacct
<1>20. ASSUME NEW t \in Tasks, SacctFails(t) PROVE AwaitedBy(own'[u], TaskJob[u])
  BY <1>20, <1>2, <1>3, <1>4 DEF SacctFails
<1>21. ASSUME NEW t \in Tasks, ApplyRead(t) PROVE AwaitedBy(own'[u], TaskJob[u])
  BY <1>21, <1>2, <1>3, <1>4 DEF ApplyRead, ReadOwner, OwnerFor
<1>22. ASSUME NEW t \in Tasks, ApplyWrite(t) PROVE AwaitedBy(own'[u], TaskJob[u])
  BY <1>22, <1>2, <1>3, <1>4 DEF ApplyWrite, WriteStatus, IsFirst
<1>23. ASSUME NEW t \in Tasks, ReadStatus(t) PROVE AwaitedBy(own'[u], TaskJob[u])
  BY <1>23, <1>2, <1>3, <1>4 DEF ReadStatus, NextIteration, is_terminal_state
<1>24. ASSUME NEW t \in Tasks, ReinsertRead(t) PROVE AwaitedBy(own'[u], TaskJob[u])
  BY <1>24, <1>2, <1>3, <1>4 DEF ReinsertRead, ReadOwner, OwnerFor
<1>25. ASSUME NEW t \in Tasks, ReinsertWrite(t) PROVE AwaitedBy(own'[u], TaskJob[u])
  BY <1>25, <1>2, <1>3, <1>4 DEF ReinsertWrite, WriteStatus, NextIteration
<1>26. ASSUME NEW t \in Tasks, Report(t) PROVE AwaitedBy(own'[u], TaskJob[u])
  BY <1>26, <1>2, <1>3, <1>4 DEF Report, DeleteStatus
<1>27. ASSUME NEW t \in Tasks, GuardBlind(t) PROVE AwaitedBy(own'[u], TaskJob[u])
  BY <1>27, <1>2, <1>3, <1>4 DEF GuardBlind
<1>28. ASSUME NEW t \in Tasks, ScancelFails(t) PROVE AwaitedBy(own'[u], TaskJob[u])
  BY <1>28, <1>2, <1>3, <1>4 DEF ScancelFails
<1>29. ASSUME NEW t \in Tasks, CallFails(t) PROVE AwaitedBy(own'[u], TaskJob[u])
  BY <1>29, <1>2, <1>3, <1>4 DEF CallFails, Raises
<1>30. ASSUME NEW t \in Tasks, ReplyLost(t) PROVE AwaitedBy(own'[u], TaskJob[u])
  BY <1>30, <1>2, <1>3, <1>4 DEF ReplyLost, Raises, WriteStatus, DeleteStatus, IsFirst
<1>31. ASSUME NEW t \in Tasks, SlotExpires(t) PROVE AwaitedBy(own'[u], TaskJob[u])
  BY <1>31, <1>2, <1>3, <1>4 DEF SlotExpires
<1>32. ASSUME NEW j \in Jobs, NEW s \in JobStates, SlurmStep(j, s) PROVE AwaitedBy(own'[u], TaskJob[u])
  BY <1>32, <1>2, <1>3, <1>4 DEF SlurmStep
<1>33. CASE LeaseExpires
  BY <1>33, <1>2, <1>3, <1>4 DEF LeaseExpires
<1>34. ASSUME NEW f \in Flows, UserCancels(f) PROVE AwaitedBy(own'[u], TaskJob[u])
  BY <1>34, <1>2, <1>3, <1>4 DEF UserCancels
<1>35. ASSUME NEW f \in Flows, Crash(f) PROVE AwaitedBy(own'[u], TaskJob[u])
  BY <1>35, <1>2, <1>3, <1>4 DEF Crash
<1>36. CASE UNCHANGED vars
  BY <1>36, <1>2, <1>3, <1>4 DEF vars
<1> QED
  BY <1>5, <1>6, <1>7, <1>8, <1>9, <1>10, <1>11, <1>12, <1>13, <1>14, <1>15, <1>16,
     <1>17, <1>18, <1>19, <1>20, <1>21, <1>22, <1>23, <1>24, <1>25, <1>26, <1>27, <1>28,
     <1>29, <1>30, <1>31, <1>32, <1>33, <1>34, <1>35, <1>36
     DEF Next, TaskStep, TaskFault, AllFinal

\* So does what a guard or a refresh is about to write.
LEMMA NextWriteOwned == TypeOK /\ VariableOwned /\ WriteOwned /\ ListedPresent /\ [Next]_vars => WriteOwned'
<1> SUFFICES ASSUME TypeOK, VariableOwned, WriteOwned, ListedPresent, [Next]_vars,
                    NEW u \in Tasks, NEW k \in Jobs, pc'[u] \in {"markW", "applyW"},
                    IsFirst(k, todo'[u]), ~Settled(k)'
             PROVE  AwaitedBy(own'[u], k)
  BY DEF WriteOwned, AwaitedBy
<1>1. ~Settled(k)
  BY SettledStable
<1>2. k \in todo[u] => status[k] # "ABSENT" /\ AwaitedBy(owner[k], k)
  BY <1>1 DEF VariableOwned, ListedPresent
<1>3. pc[u] \in {"markW", "applyW"} /\ IsFirst(k, todo[u]) => AwaitedBy(own[u], k)
  BY <1>1 DEF WriteOwned
<1>4. k \in todo'[u]
  BY DEF IsFirst
<1> USE TasksAssumption DEF TypeOK, Goto, Set, env
<1>5. ASSUME NEW t \in Tasks, InsertRead(t) PROVE AwaitedBy(own'[u], k)
  BY <1>5, <1>3 DEF InsertRead, ReadOwner, OwnerFor
<1>6. ASSUME NEW t \in Tasks, InsertWrite(t) PROVE AwaitedBy(own'[u], k)
  BY <1>6, <1>3 DEF InsertWrite, WriteStatus
<1>7. ASSUME NEW t \in Tasks, GuardCheck(t) PROVE AwaitedBy(own'[u], k)
  BY <1>7, <1>3 DEF GuardCheck
<1>8. ASSUME NEW t \in Tasks, GuardList(t) PROVE AwaitedBy(own'[u], k)
  BY <1>8, <1>3 DEF GuardList, JobsOfFlow, ListStatus
<1>9. ASSUME NEW t \in Tasks, MarkRead(t) PROVE AwaitedBy(own'[u], k)
  BY <1>9, <1>2, <1>3, <1>4, FirstUnique DEF MarkRead, ReadOwner, OwnerFor
<1>10. ASSUME NEW t \in Tasks, MarkWrite(t) PROVE AwaitedBy(own'[u], k)
  BY <1>10, <1>3 DEF MarkWrite
<1>11. ASSUME NEW t \in Tasks, Scancel(t) PROVE AwaitedBy(own'[u], k)
  BY <1>11, <1>3 DEF Scancel
<1>12. ASSUME NEW t \in Tasks, Fold(t) PROVE AwaitedBy(own'[u], k)
  BY <1>12, <1>3 DEF Fold, DeleteStatus
<1>13. ASSUME NEW t \in Tasks, CheckLease(t) PROVE AwaitedBy(own'[u], k)
  BY <1>13, <1>3 DEF CheckLease
<1>14. ASSUME NEW t \in Tasks, Acquire(t) PROVE AwaitedBy(own'[u], k)
  BY <1>14, <1>3 DEF Acquire
<1>15. ASSUME NEW t \in Tasks, Recheck(t) PROVE AwaitedBy(own'[u], k)
  BY <1>15, <1>3 DEF Recheck
<1>16. ASSUME NEW t \in Tasks, WriteLease(t) PROVE AwaitedBy(own'[u], k)
  BY <1>16, <1>3 DEF WriteLease
<1>17. ASSUME NEW t \in Tasks, Release(t) PROVE AwaitedBy(own'[u], k)
  BY <1>17, <1>3 DEF Release
<1>18. ASSUME NEW t \in Tasks, ListRunning(t) PROVE AwaitedBy(own'[u], k)
  BY <1>18, <1>3 DEF ListRunning, ListStatus
<1>19. ASSUME NEW t \in Tasks, Sacct(t) PROVE AwaitedBy(own'[u], k)
  BY <1>19, <1>3 DEF Sacct
<1>20. ASSUME NEW t \in Tasks, SacctFails(t) PROVE AwaitedBy(own'[u], k)
  BY <1>20, <1>3 DEF SacctFails
<1>21. ASSUME NEW t \in Tasks, ApplyRead(t) PROVE AwaitedBy(own'[u], k)
  BY <1>21, <1>2, <1>3, <1>4, FirstUnique DEF ApplyRead, ReadOwner, OwnerFor
<1>22. ASSUME NEW t \in Tasks, ApplyWrite(t) PROVE AwaitedBy(own'[u], k)
  BY <1>22, <1>3 DEF ApplyWrite
<1>23. ASSUME NEW t \in Tasks, ReadStatus(t) PROVE AwaitedBy(own'[u], k)
  BY <1>23, <1>3 DEF ReadStatus, NextIteration, is_terminal_state
<1>24. ASSUME NEW t \in Tasks, ReinsertRead(t) PROVE AwaitedBy(own'[u], k)
  BY <1>24, <1>3 DEF ReinsertRead, ReadOwner, OwnerFor
<1>25. ASSUME NEW t \in Tasks, ReinsertWrite(t) PROVE AwaitedBy(own'[u], k)
  BY <1>25, <1>3 DEF ReinsertWrite, WriteStatus, NextIteration
<1>26. ASSUME NEW t \in Tasks, Report(t) PROVE AwaitedBy(own'[u], k)
  BY <1>26, <1>3 DEF Report, DeleteStatus
<1>27. ASSUME NEW t \in Tasks, GuardBlind(t) PROVE AwaitedBy(own'[u], k)
  BY <1>27, <1>3 DEF GuardBlind
<1>28. ASSUME NEW t \in Tasks, ScancelFails(t) PROVE AwaitedBy(own'[u], k)
  BY <1>28, <1>3 DEF ScancelFails
<1>29. ASSUME NEW t \in Tasks, CallFails(t) PROVE AwaitedBy(own'[u], k)
  BY <1>29, <1>3 DEF CallFails, Raises
<1>30. ASSUME NEW t \in Tasks, ReplyLost(t) PROVE AwaitedBy(own'[u], k)
  BY <1>30, <1>3 DEF ReplyLost, Raises
<1>31. ASSUME NEW t \in Tasks, SlotExpires(t) PROVE AwaitedBy(own'[u], k)
  BY <1>31, <1>3 DEF SlotExpires
<1>32. ASSUME NEW j \in Jobs, NEW s \in JobStates, SlurmStep(j, s) PROVE AwaitedBy(own'[u], k)
  BY <1>32, <1>2, <1>3, <1>4 DEF SlurmStep
<1>33. CASE LeaseExpires
  BY <1>33, <1>2, <1>3, <1>4 DEF LeaseExpires
<1>34. ASSUME NEW f \in Flows, UserCancels(f) PROVE AwaitedBy(own'[u], k)
  BY <1>34, <1>2, <1>3, <1>4 DEF UserCancels
<1>35. ASSUME NEW f \in Flows, Crash(f) PROVE AwaitedBy(own'[u], k)
  BY <1>35, <1>2, <1>3, <1>4 DEF Crash
<1>36. CASE UNCHANGED vars
  BY <1>36, <1>2, <1>3, <1>4 DEF vars
<1> QED
  BY <1>5, <1>6, <1>7, <1>8, <1>9, <1>10, <1>11, <1>12, <1>13, <1>14, <1>15, <1>16,
     <1>17, <1>18, <1>19, <1>20, <1>21, <1>22, <1>23, <1>24, <1>25, <1>26, <1>27, <1>28,
     <1>29, <1>30, <1>31, <1>32, <1>33, <1>34, <1>35, <1>36
     DEF Next, TaskStep, TaskFault, AllFinal

\* A listed variable is deleted only once its job is settled.
LEMMA NextListedPresent == TypeOK /\ ListedPresent /\ FinalGot /\ GuardSettled /\ [Next]_vars => ListedPresent'
<1> SUFFICES ASSUME TypeOK, ListedPresent, FinalGot, GuardSettled, [Next]_vars,
                    NEW u \in Tasks, NEW k \in Jobs, k \in ids'[u] \cup todo'[u], ~Settled(k)'
             PROVE  status'[k] # "ABSENT"
  BY DEF ListedPresent
<1>1. ~Settled(k)
  BY SettledStable
<1>2. k \in ids[u] \cup todo[u] => status[k] # "ABSENT"
  BY <1>1 DEF ListedPresent
<1>3. \A t \in Tasks : pc[t] \in {"fold", "delete"} => TaskJob[t] # k
  BY <1>1, TasksAssumption DEF FinalGot, GuardSettled, Settled, Over, Guarding
<1> USE TasksAssumption DEF TypeOK, Goto, Set, env
<1>4. ASSUME NEW t \in Tasks, InsertRead(t) PROVE status'[k] # "ABSENT"
  BY <1>4, <1>2, <1>3 DEF InsertRead, ReadOwner, OwnerFor
<1>5. ASSUME NEW t \in Tasks, InsertWrite(t) PROVE status'[k] # "ABSENT"
  BY <1>5, <1>2, <1>3 DEF InsertWrite, WriteStatus
<1>6. ASSUME NEW t \in Tasks, GuardCheck(t) PROVE status'[k] # "ABSENT"
  BY <1>6, <1>2, <1>3 DEF GuardCheck
<1>7. ASSUME NEW t \in Tasks, GuardList(t) PROVE status'[k] # "ABSENT"
  BY <1>7, <1>2, <1>3 DEF GuardList, JobsOfFlow, ListStatus
<1>8. ASSUME NEW t \in Tasks, MarkRead(t) PROVE status'[k] # "ABSENT"
  BY <1>8, <1>2, <1>3 DEF MarkRead, ReadOwner, OwnerFor
<1>9. ASSUME NEW t \in Tasks, MarkWrite(t) PROVE status'[k] # "ABSENT"
  BY <1>9, <1>2, <1>3 DEF MarkWrite, WriteStatus, IsFirst
<1>10. ASSUME NEW t \in Tasks, Scancel(t) PROVE status'[k] # "ABSENT"
  BY <1>10, <1>2, <1>3 DEF Scancel
<1>11. ASSUME NEW t \in Tasks, Fold(t) PROVE status'[k] # "ABSENT"
  BY <1>11, <1>2, <1>3 DEF Fold, DeleteStatus
<1>12. ASSUME NEW t \in Tasks, CheckLease(t) PROVE status'[k] # "ABSENT"
  BY <1>12, <1>2, <1>3 DEF CheckLease
<1>13. ASSUME NEW t \in Tasks, Acquire(t) PROVE status'[k] # "ABSENT"
  BY <1>13, <1>2, <1>3 DEF Acquire
<1>14. ASSUME NEW t \in Tasks, Recheck(t) PROVE status'[k] # "ABSENT"
  BY <1>14, <1>2, <1>3 DEF Recheck
<1>15. ASSUME NEW t \in Tasks, WriteLease(t) PROVE status'[k] # "ABSENT"
  BY <1>15, <1>2, <1>3 DEF WriteLease
<1>16. ASSUME NEW t \in Tasks, Release(t) PROVE status'[k] # "ABSENT"
  BY <1>16, <1>2, <1>3 DEF Release
<1>17. ASSUME NEW t \in Tasks, ListRunning(t) PROVE status'[k] # "ABSENT"
  BY <1>17, <1>2, <1>3 DEF ListRunning, ListStatus
<1>18. ASSUME NEW t \in Tasks, Sacct(t) PROVE status'[k] # "ABSENT"
  BY <1>18, <1>2, <1>3 DEF Sacct
<1>19. ASSUME NEW t \in Tasks, SacctFails(t) PROVE status'[k] # "ABSENT"
  BY <1>19, <1>2, <1>3 DEF SacctFails
<1>20. ASSUME NEW t \in Tasks, ApplyRead(t) PROVE status'[k] # "ABSENT"
  BY <1>20, <1>2, <1>3 DEF ApplyRead, ReadOwner, OwnerFor
<1>21. ASSUME NEW t \in Tasks, ApplyWrite(t) PROVE status'[k] # "ABSENT"
  BY <1>21, <1>2, <1>3, NotAbsent DEF ApplyWrite, WriteStatus, IsFirst
<1>22. ASSUME NEW t \in Tasks, ReadStatus(t) PROVE status'[k] # "ABSENT"
  BY <1>22, <1>2, <1>3 DEF ReadStatus, NextIteration, is_terminal_state
<1>23. ASSUME NEW t \in Tasks, ReinsertRead(t) PROVE status'[k] # "ABSENT"
  BY <1>23, <1>2, <1>3 DEF ReinsertRead, ReadOwner, OwnerFor
<1>24. ASSUME NEW t \in Tasks, ReinsertWrite(t) PROVE status'[k] # "ABSENT"
  BY <1>24, <1>2, <1>3 DEF ReinsertWrite, WriteStatus, NextIteration
<1>25. ASSUME NEW t \in Tasks, Report(t) PROVE status'[k] # "ABSENT"
  BY <1>25, <1>2, <1>3 DEF Report, DeleteStatus
<1>26. ASSUME NEW t \in Tasks, GuardBlind(t) PROVE status'[k] # "ABSENT"
  BY <1>26, <1>2, <1>3 DEF GuardBlind
<1>27. ASSUME NEW t \in Tasks, ScancelFails(t) PROVE status'[k] # "ABSENT"
  BY <1>27, <1>2, <1>3 DEF ScancelFails
<1>28. ASSUME NEW t \in Tasks, CallFails(t) PROVE status'[k] # "ABSENT"
  BY <1>28, <1>2, <1>3 DEF CallFails, Raises
<1>29. ASSUME NEW t \in Tasks, ReplyLost(t) PROVE status'[k] # "ABSENT"
  BY <1>29, <1>2, <1>3, NotAbsent DEF ReplyLost, Raises, WriteStatus, DeleteStatus, IsFirst
<1>30. ASSUME NEW t \in Tasks, SlotExpires(t) PROVE status'[k] # "ABSENT"
  BY <1>30, <1>2, <1>3 DEF SlotExpires
<1>31. ASSUME NEW j \in Jobs, NEW s \in JobStates, SlurmStep(j, s) PROVE status'[k] # "ABSENT"
  BY <1>31, <1>2, <1>3 DEF SlurmStep
<1>32. CASE LeaseExpires
  BY <1>32, <1>2, <1>3 DEF LeaseExpires
<1>33. ASSUME NEW f \in Flows, UserCancels(f) PROVE status'[k] # "ABSENT"
  BY <1>33, <1>2, <1>3 DEF UserCancels
<1>34. ASSUME NEW f \in Flows, Crash(f) PROVE status'[k] # "ABSENT"
  BY <1>34, <1>2, <1>3 DEF Crash
<1>35. CASE UNCHANGED vars
  BY <1>35, <1>2, <1>3 DEF vars
<1> QED
  BY <1>4, <1>5, <1>6, <1>7, <1>8, <1>9, <1>10, <1>11, <1>12, <1>13, <1>14, <1>15,
     <1>16, <1>17, <1>18, <1>19, <1>20, <1>21, <1>22, <1>23, <1>24, <1>25, <1>26, <1>27,
     <1>28, <1>29, <1>30, <1>31, <1>32, <1>33, <1>34, <1>35
     DEF Next, TaskStep, TaskFault, AllFinal

\* A guard that saw the signal holds settled jobs: those whose variable names
\* its own, cancelled, flow run.
LEMMA NextGuard == TypeOK /\ VariableOwned /\ GuardSettled /\ [Next]_vars => GuardSettled'
<1> SUFFICES ASSUME TypeOK, VariableOwned, GuardSettled, [Next]_vars PROVE GuardSettled'
  OBVIOUS
<1> USE TasksAssumption DEF TypeOK, GuardSettled, Settled, Over, Guarding, Goto, Set, env
<1>1. ASSUME NEW t \in Tasks, InsertRead(t) PROVE GuardSettled'
  BY <1>1 DEF InsertRead, ReadOwner, OwnerFor
<1>2. ASSUME NEW t \in Tasks, InsertWrite(t) PROVE GuardSettled'
  BY <1>2 DEF InsertWrite, WriteStatus
<1>3. ASSUME NEW t \in Tasks, GuardCheck(t) PROVE GuardSettled'
  BY <1>3 DEF GuardCheck
<1>4. ASSUME NEW t \in Tasks, GuardList(t) PROVE GuardSettled'
  BY <1>4 DEF GuardList, JobsOfFlow, ListStatus, VariableOwned, AwaitedBy
<1>5. ASSUME NEW t \in Tasks, MarkRead(t) PROVE GuardSettled'
  BY <1>5 DEF MarkRead, ReadOwner, OwnerFor
<1>6. ASSUME NEW t \in Tasks, MarkWrite(t) PROVE GuardSettled'
  BY <1>6 DEF MarkWrite, WriteStatus, IsFirst
<1>7. ASSUME NEW t \in Tasks, Scancel(t) PROVE GuardSettled'
  BY <1>7 DEF Scancel
<1>8. ASSUME NEW t \in Tasks, Fold(t) PROVE GuardSettled'
  BY <1>8 DEF Fold, DeleteStatus
<1>9. ASSUME NEW t \in Tasks, CheckLease(t) PROVE GuardSettled'
  BY <1>9 DEF CheckLease
<1>10. ASSUME NEW t \in Tasks, Acquire(t) PROVE GuardSettled'
  BY <1>10 DEF Acquire
<1>11. ASSUME NEW t \in Tasks, Recheck(t) PROVE GuardSettled'
  BY <1>11 DEF Recheck
<1>12. ASSUME NEW t \in Tasks, WriteLease(t) PROVE GuardSettled'
  BY <1>12 DEF WriteLease
<1>13. ASSUME NEW t \in Tasks, Release(t) PROVE GuardSettled'
  BY <1>13 DEF Release
<1>14. ASSUME NEW t \in Tasks, ListRunning(t) PROVE GuardSettled'
  BY <1>14 DEF ListRunning, ListStatus
<1>15. ASSUME NEW t \in Tasks, Sacct(t) PROVE GuardSettled'
  BY <1>15 DEF Sacct
<1>16. ASSUME NEW t \in Tasks, SacctFails(t) PROVE GuardSettled'
  BY <1>16 DEF SacctFails
<1>17. ASSUME NEW t \in Tasks, ApplyRead(t) PROVE GuardSettled'
  BY <1>17 DEF ApplyRead, ReadOwner, OwnerFor
<1>18. ASSUME NEW t \in Tasks, ApplyWrite(t) PROVE GuardSettled'
  BY <1>18 DEF ApplyWrite, WriteStatus, IsFirst
<1>19. ASSUME NEW t \in Tasks, ReadStatus(t) PROVE GuardSettled'
  BY <1>19 DEF ReadStatus, NextIteration, is_terminal_state
<1>20. ASSUME NEW t \in Tasks, ReinsertRead(t) PROVE GuardSettled'
  BY <1>20 DEF ReinsertRead, ReadOwner, OwnerFor
<1>21. ASSUME NEW t \in Tasks, ReinsertWrite(t) PROVE GuardSettled'
  BY <1>21 DEF ReinsertWrite, WriteStatus, NextIteration
<1>22. ASSUME NEW t \in Tasks, Report(t) PROVE GuardSettled'
  BY <1>22 DEF Report, DeleteStatus
<1>23. ASSUME NEW t \in Tasks, GuardBlind(t) PROVE GuardSettled'
  BY <1>23 DEF GuardBlind
<1>24. ASSUME NEW t \in Tasks, ScancelFails(t) PROVE GuardSettled'
  BY <1>24 DEF ScancelFails
<1>25. ASSUME NEW t \in Tasks, CallFails(t) PROVE GuardSettled'
  BY <1>25 DEF CallFails, Raises
<1>26. ASSUME NEW t \in Tasks, ReplyLost(t) PROVE GuardSettled'
  BY <1>26 DEF ReplyLost, Raises, WriteStatus, DeleteStatus, IsFirst
<1>27. ASSUME NEW t \in Tasks, SlotExpires(t) PROVE GuardSettled'
  BY <1>27 DEF SlotExpires
<1>28. ASSUME NEW j \in Jobs, NEW s \in JobStates, SlurmStep(j, s) PROVE GuardSettled'
  BY <1>28 DEF SlurmStep
<1>29. CASE LeaseExpires
  BY <1>29 DEF LeaseExpires
<1>30. ASSUME NEW f \in Flows, UserCancels(f) PROVE GuardSettled'
  BY <1>30 DEF UserCancels
<1>31. ASSUME NEW f \in Flows, Crash(f) PROVE GuardSettled'
  BY <1>31 DEF Crash
<1>32. CASE UNCHANGED vars
  BY <1>32 DEF vars
<1> QED
  BY <1>1, <1>2, <1>3, <1>4, <1>5, <1>6, <1>7, <1>8, <1>9, <1>10, <1>11, <1>12,
     <1>13, <1>14, <1>15, <1>16, <1>17, <1>18, <1>19, <1>20, <1>21, <1>22, <1>23, <1>24,
     <1>25, <1>26, <1>27, <1>28, <1>29, <1>30, <1>31, <1>32
     DEF Next, TaskStep, TaskFault, AllFinal

\* So scancel reaches only jobs awaited by a cancelled flow run.
LEMMA NextKilled == TypeOK /\ GuardSettled /\ KilledOnlyByOwnFlow /\ [Next]_vars => KilledOnlyByOwnFlow'
<1> SUFFICES ASSUME TypeOK, GuardSettled, KilledOnlyByOwnFlow, [Next]_vars PROVE KilledOnlyByOwnFlow'
  OBVIOUS
<1> USE TasksAssumption DEF TypeOK, KilledOnlyByOwnFlow, env
<1>1. ASSUME NEW t \in Tasks, InsertRead(t) PROVE KilledOnlyByOwnFlow'
  BY <1>1 DEF InsertRead, ReadOwner, OwnerFor
<1>2. ASSUME NEW t \in Tasks, InsertWrite(t) PROVE KilledOnlyByOwnFlow'
  BY <1>2 DEF InsertWrite, WriteStatus
<1>3. ASSUME NEW t \in Tasks, GuardCheck(t) PROVE KilledOnlyByOwnFlow'
  BY <1>3 DEF GuardCheck
<1>4. ASSUME NEW t \in Tasks, GuardList(t) PROVE KilledOnlyByOwnFlow'
  BY <1>4 DEF GuardList, JobsOfFlow, ListStatus
<1>5. ASSUME NEW t \in Tasks, MarkRead(t) PROVE KilledOnlyByOwnFlow'
  BY <1>5 DEF MarkRead, ReadOwner, OwnerFor
<1>6. ASSUME NEW t \in Tasks, MarkWrite(t) PROVE KilledOnlyByOwnFlow'
  BY <1>6 DEF MarkWrite, WriteStatus, IsFirst
<1>7. ASSUME NEW t \in Tasks, Scancel(t) PROVE KilledOnlyByOwnFlow'
  BY <1>7 DEF Scancel, GuardSettled, Settled, Guarding
<1>8. ASSUME NEW t \in Tasks, Fold(t) PROVE KilledOnlyByOwnFlow'
  BY <1>8 DEF Fold, DeleteStatus
<1>9. ASSUME NEW t \in Tasks, CheckLease(t) PROVE KilledOnlyByOwnFlow'
  BY <1>9 DEF CheckLease
<1>10. ASSUME NEW t \in Tasks, Acquire(t) PROVE KilledOnlyByOwnFlow'
  BY <1>10 DEF Acquire
<1>11. ASSUME NEW t \in Tasks, Recheck(t) PROVE KilledOnlyByOwnFlow'
  BY <1>11 DEF Recheck
<1>12. ASSUME NEW t \in Tasks, WriteLease(t) PROVE KilledOnlyByOwnFlow'
  BY <1>12 DEF WriteLease
<1>13. ASSUME NEW t \in Tasks, Release(t) PROVE KilledOnlyByOwnFlow'
  BY <1>13 DEF Release
<1>14. ASSUME NEW t \in Tasks, ListRunning(t) PROVE KilledOnlyByOwnFlow'
  BY <1>14 DEF ListRunning, ListStatus
<1>15. ASSUME NEW t \in Tasks, Sacct(t) PROVE KilledOnlyByOwnFlow'
  BY <1>15 DEF Sacct
<1>16. ASSUME NEW t \in Tasks, SacctFails(t) PROVE KilledOnlyByOwnFlow'
  BY <1>16 DEF SacctFails
<1>17. ASSUME NEW t \in Tasks, ApplyRead(t) PROVE KilledOnlyByOwnFlow'
  BY <1>17 DEF ApplyRead, ReadOwner, OwnerFor
<1>18. ASSUME NEW t \in Tasks, ApplyWrite(t) PROVE KilledOnlyByOwnFlow'
  BY <1>18 DEF ApplyWrite, WriteStatus, IsFirst
<1>19. ASSUME NEW t \in Tasks, ReadStatus(t) PROVE KilledOnlyByOwnFlow'
  BY <1>19 DEF ReadStatus, NextIteration, is_terminal_state
<1>20. ASSUME NEW t \in Tasks, ReinsertRead(t) PROVE KilledOnlyByOwnFlow'
  BY <1>20 DEF ReinsertRead, ReadOwner, OwnerFor
<1>21. ASSUME NEW t \in Tasks, ReinsertWrite(t) PROVE KilledOnlyByOwnFlow'
  BY <1>21 DEF ReinsertWrite, WriteStatus, NextIteration
<1>22. ASSUME NEW t \in Tasks, Report(t) PROVE KilledOnlyByOwnFlow'
  BY <1>22 DEF Report, DeleteStatus
<1>23. ASSUME NEW t \in Tasks, GuardBlind(t) PROVE KilledOnlyByOwnFlow'
  BY <1>23 DEF GuardBlind
<1>24. ASSUME NEW t \in Tasks, ScancelFails(t) PROVE KilledOnlyByOwnFlow'
  BY <1>24 DEF ScancelFails, GuardSettled, Settled, Guarding
<1>25. ASSUME NEW t \in Tasks, CallFails(t) PROVE KilledOnlyByOwnFlow'
  BY <1>25 DEF CallFails, Raises
<1>26. ASSUME NEW t \in Tasks, ReplyLost(t) PROVE KilledOnlyByOwnFlow'
  BY <1>26 DEF ReplyLost, Raises, WriteStatus, DeleteStatus, IsFirst
<1>27. ASSUME NEW t \in Tasks, SlotExpires(t) PROVE KilledOnlyByOwnFlow'
  BY <1>27 DEF SlotExpires
<1>28. ASSUME NEW j \in Jobs, NEW s \in JobStates, SlurmStep(j, s) PROVE KilledOnlyByOwnFlow'
  BY <1>28 DEF SlurmStep
<1>29. CASE LeaseExpires
  BY <1>29 DEF LeaseExpires
<1>30. ASSUME NEW f \in Flows, UserCancels(f) PROVE KilledOnlyByOwnFlow'
  BY <1>30 DEF UserCancels
<1>31. ASSUME NEW f \in Flows, Crash(f) PROVE KilledOnlyByOwnFlow'
  BY <1>31 DEF Crash
<1>32. CASE UNCHANGED vars
  BY <1>32 DEF vars
<1> QED
  BY <1>1, <1>2, <1>3, <1>4, <1>5, <1>6, <1>7, <1>8, <1>9, <1>10, <1>11, <1>12,
     <1>13, <1>14, <1>15, <1>16, <1>17, <1>18, <1>19, <1>20, <1>21, <1>22, <1>23, <1>24,
     <1>25, <1>26, <1>27, <1>28, <1>29, <1>30, <1>31, <1>32
     DEF Next, TaskStep, TaskFault, AllFinal

-----------------------------------------------------------------------------
\* The type invariant together with what makes it inductive.
TypeInv == TypeOK /\ SnapComplete

LEMMA TypeInvariant == Spec => []TypeInv
<1>1. Init => TypeInv
  BY InitType DEF TypeInv, Init, SnapComplete
<1>2. TypeInv /\ [Next]_vars => TypeInv'
  BY NextType, NextSnap DEF TypeInv
<1> QED
  BY <1>1, <1>2, PTL DEF Spec

\* The variables of the monitor keep their types.
THEOREM TypeCorrect == Spec => []TypeOK
<1>1. TypeInv => TypeOK
  BY DEF TypeInv
<1> QED
  BY <1>1, TypeInvariant, PTL

\* SafetyInv holds initially: nothing is known, listed, owned or killed.
LEMMA InitSafety == Init => SafetyInv
<1> SUFFICES ASSUME Init PROVE SafetyInv
  OBVIOUS
<1>1. FinalStatus /\ FinalSnap /\ FinalGot
  BY NotFinal DEF Init, FinalStatus, FinalSnap, FinalGot, NoStates
<1>2. SlotExcludes
  BY InitSlot
<1>3. VariableOwned /\ InsertOwned /\ WriteOwned /\ ListedPresent
  BY DEF Init, VariableOwned, InsertOwned, WriteOwned, ListedPresent
<1>4. GuardSettled /\ KilledOnlyByOwnFlow
  BY DEF Init, GuardSettled, Guarding, KilledOnlyByOwnFlow
<1> QED
  BY <1>1, <1>2, <1>3, <1>4 DEF SafetyInv

\* Every reachable state satisfies the inductive invariant.
THEOREM Safety == Spec => []SafetyInv
<1>1. Init => SafetyInv
  BY InitSafety
<1>2. TypeInv /\ SafetyInv /\ [Next]_vars => SafetyInv'
  BY NextFinalStatus, NextFinalSnap, NextFinalGot, NextSlot, NextVariableOwned,
     NextInsertOwned, NextWriteOwned, NextListedPresent, NextGuard, NextKilled
     DEF SafetyInv, TypeInv
<1> QED
  BY <1>1, <1>2, TypeInvariant, PTL DEF Spec

\* A state returned by wait_completion_single is the one the job ended in.
THEOREM ReportedStateCorrect == Spec => []ReportedStateIsFinal
<1>1. SafetyInv => ReportedStateIsFinal
  BY DEF SafetyInv, FinalGot, ReportedStateIsFinal, Over
<1> QED
  BY <1>1, Safety, PTL

\* Each lease window has one refresher: the lease is renewed by the only holder
\* of the slot, and only after it expired.
THEOREM LeaseExclusive == Spec => []OneRefresherPerLease
<1>1. SafetyInv => OneRefresherPerLease
  BY DEF SafetyInv, SlotExcludes, Section, OneRefresherPerLease
<1> QED
  BY <1>1, Safety, PTL

\* scancel never reaches a job that no cancelled flow run awaits.
THEOREM NoForeignCancellation == Spec => []KilledOnlyByOwnFlow
<1>1. SafetyInv => KilledOnlyByOwnFlow
  BY DEF SafetyInv
<1> QED
  BY <1>1, Safety, PTL

-----------------------------------------------------------------------------
(* A fold leaves nothing running.  This needs more of the monitor than the *)
(* other invariants: every task inserts its variable before it waits, the  *)
(* tasks that await one job belong to one flow run, and a list shows all   *)
(* variables.  Without any one of them it is false.                        *)

Attended(j) == Over(j) \/ j \in killed

\* The variable of a job that is not attended to names the flow run of its task,
OwnedStatus == \A t \in Tasks :
  status[TaskJob[t]] # "ABSENT" => Attended(TaskJob[t]) \/ owner[TaskJob[t]] = TaskFlow[t]
\* as does what its task, or any other, is about to write;
OwnedInsert == \A t \in Tasks :
  pc[t] \in {"insertW", "reinsertW"} => Attended(TaskJob[t]) \/ own[t] = TaskFlow[t]
OwnedWrite == \A t, u \in Tasks :
  pc[u] \in {"markW", "applyW"} /\ IsFirst(TaskJob[t], todo[u]) =>
    Attended(TaskJob[t]) \/ own[u] = TaskFlow[t]
\* it is there for as long as the job is listed or awaited,
StillListed == \A t, u \in Tasks :
  TaskJob[t] \in ids[u] \cup todo[u] => Attended(TaskJob[t]) \/ status[TaskJob[t]] # "ABSENT"
StillThere == \A t \in Tasks :
  pc[t] \in Polling => Attended(TaskJob[t]) \/ status[TaskJob[t]] # "ABSENT"
\* so that the guard of the task finds it and scancel reaches the job.
GuardHolds == \A t \in Tasks :
  /\ pc[t] \in {"mark", "markW", "scancel"} => Attended(TaskJob[t]) \/ TaskJob[t] \in ids[t]
  /\ pc[t] \in {"fold", "folded"} => Attended(TaskJob[t])

FoldInv == OwnedStatus /\ OwnedInsert /\ OwnedWrite /\ StillListed /\ StillThere /\ GuardHolds

\* Where one flow run awaits each job and a list is never cut off.
OneFlowPerJob == \A t, u \in Tasks : TaskJob[t] = TaskJob[u] => TaskFlow[t] = TaskFlow[u]
ListsAll == IsFiniteSet(Jobs) /\ Cardinality(Jobs) <= NumReads

\* A list within the limit shows every variable.
LEMMA ListIsComplete ==
  ASSUME ListsAll, NEW j \in Jobs, status[j] # "ABSENT"
  PROVE  j \in ListStatus
<1> DEFINE all == {i \in Jobs : status[i] # "ABSENT"}
           before == {k \in all : k < j}
<1>1. before \cup {j} \subseteq Jobs /\ j \notin before
  BY JobsAssumption
<1> HIDE DEF before
<1>2. IsFiniteSet(before \cup {j}) /\ Cardinality(before \cup {j}) <= Cardinality(Jobs)
  BY <1>1, FS_Subset DEF ListsAll
<1>3. IsFiniteSet(before)
  BY <1>2, FS_Subset
<1>4. Cardinality(before \cup {j}) = Cardinality(before) + 1
  BY <1>1, <1>3, FS_AddElement
<1>5. Cardinality(before) \in Nat /\ Cardinality(Jobs) \in Nat
  BY <1>3, FS_CardinalityType DEF ListsAll
<1>6. Cardinality(before) < NumReads
  BY <1>2, <1>4, <1>5, BoundsAssumption DEF ListsAll
<1> QED
  BY <1>6 DEF ListStatus, before

\* A job that is over or committed to scancel remains so.
LEMMA AttendedStays ==
  ASSUME TypeOK, [Next]_vars, NEW j \in Jobs, Attended(j)
  PROVE  Attended(j)'
<1>1. killed \subseteq killed'
  BY DEF Next, vars, env, TaskStep, TaskFault, AllFinal, InsertRead, InsertWrite,
     GuardCheck, GuardBlind, GuardList, MarkRead, MarkWrite, Scancel, ScancelFails, Fold,
     CheckLease, Acquire, Recheck, WriteLease, Release, ListRunning, Sacct, SacctFails,
     ApplyRead, ApplyWrite, ReadStatus, ReinsertRead, ReinsertWrite, Report, CallFails,
     ReplyLost, SlurmStep, LeaseExpires, SlotExpires, UserCancels, Crash
<1>2. slurm[j] \in TerminalStates => slurm'[j] = slurm[j]
  <2>1. ASSUME NEW i \in Jobs, NEW s \in JobStates, SlurmStep(i, s)
        PROVE  slurm[j] \in TerminalStates => slurm'[j] = slurm[j]
    BY <2>1 DEF SlurmStep, Over, TypeOK
  <2>2. (\E i \in Jobs, s \in JobStates : SlurmStep(i, s)) \/ slurm' = slurm
    BY DEF Next, vars, env, TaskStep, TaskFault, AllFinal, InsertRead, InsertWrite,
       GuardCheck, GuardBlind, GuardList, MarkRead, MarkWrite, Scancel, ScancelFails, Fold,
       CheckLease, Acquire, Recheck, WriteLease, Release, ListRunning, Sacct, SacctFails,
       ApplyRead, ApplyWrite, ReadStatus, ReinsertRead, ReinsertWrite, Report, CallFails,
       ReplyLost, LeaseExpires, SlotExpires, UserCancels, Crash
  <2> QED
    BY <2>1, <2>2
<1> QED
  BY <1>1, <1>2 DEF Attended, Over

\* The four ways a step can treat the variables.
LEMMA StatusSteps ==
  ASSUME TypeOK, [Next]_vars
  PROVE  \/ UNCHANGED <<status, owner>>
         \/ \E t \in Tasks : /\ pc[t] \in {"insertW", "reinsertW"}
                             /\ WriteStatus(t, TaskJob[t], "PENDING")
         \/ \E t \in Tasks, j \in Jobs, s \in JobStates \cup {NoState, "CANCELLING"} :
              pc[t] \in {"markW", "applyW"} /\ IsFirst(j, todo[t]) /\ WriteStatus(t, j, s)
         \/ \E t \in Tasks : pc[t] \in {"fold", "delete"} /\ DeleteStatus(TaskJob[t])
<1>1. ASSUME NEW t \in Tasks, InsertWrite(t) \/ ReinsertWrite(t)
      PROVE  pc[t] \in {"insertW", "reinsertW"} /\ WriteStatus(t, TaskJob[t], "PENDING")
  BY <1>1 DEF InsertWrite, ReinsertWrite
<1>2. ASSUME NEW t \in Tasks, MarkWrite(t) \/ ApplyWrite(t)
      PROVE  \E j \in Jobs, s \in JobStates \cup {NoState, "CANCELLING"} :
               pc[t] \in {"markW", "applyW"} /\ IsFirst(j, todo[t]) /\ WriteStatus(t, j, s)
  <2>1. CASE MarkWrite(t)
    BY <2>1 DEF MarkWrite
  <2>2. CASE ApplyWrite(t)
    <3>1. \A j \in Jobs : snap[t][j] \in JobStates \cup {NoState}
      BY DEF TypeOK
    <3> QED
      BY <2>2, <3>1 DEF ApplyWrite
  <2> QED
    BY <1>2, <2>1, <2>2
<1>3. ASSUME NEW t \in Tasks, Fold(t) \/ Report(t)
      PROVE  pc[t] \in {"fold", "delete"} /\ DeleteStatus(TaskJob[t])
  BY <1>3 DEF Fold, Report
<1>4. ASSUME NEW t \in Tasks, ReplyLost(t)
      PROVE  \/ UNCHANGED <<status, owner>>
             \/ pc[t] \in {"insertW", "reinsertW"} /\ WriteStatus(t, TaskJob[t], "PENDING")
             \/ \E j \in Jobs, s \in JobStates \cup {NoState, "CANCELLING"} :
                  pc[t] \in {"markW", "applyW"} /\ IsFirst(j, todo[t]) /\ WriteStatus(t, j, s)
             \/ pc[t] \in {"fold", "delete"} /\ DeleteStatus(TaskJob[t])
  BY <1>4 DEF TypeOK, ReplyLost
<1>5. \/ \E t \in Tasks : InsertWrite(t) \/ ReinsertWrite(t) \/ MarkWrite(t) \/ ApplyWrite(t)
                          \/ Fold(t) \/ Report(t) \/ ReplyLost(t)
      \/ UNCHANGED <<status, owner>>
  BY DEF Next, vars, env, TaskStep, TaskFault, AllFinal, InsertRead,
     GuardCheck, GuardBlind, GuardList, MarkRead, Scancel, ScancelFails,
     CheckLease, Acquire, Recheck, WriteLease, Release, ListRunning, Sacct, SacctFails,
     ApplyRead, ReadStatus, ReinsertRead, CallFails,
     SlurmStep, LeaseExpires, SlotExpires, UserCancels, Crash
<1> QED
  BY <1>1, <1>2, <1>3, <1>4, <1>5

\* A step of its own changes what a task has in hand in one of these ways.
Moves(t) ==
  /\ \A j \in ids'[t] \cup todo'[t] : j \in ids[t] \cup todo[t] \/ status[j] # "ABSENT"
  /\ pc'[t] \in {"insertW", "reinsertW"} => own'[t] = OwnerFor(t, TaskJob[t])
  /\ pc'[t] \in {"markW", "applyW"} =>
       /\ todo'[t] = todo[t]
       /\ \E j \in Jobs : IsFirst(j, todo[t]) /\ own'[t] = OwnerFor(t, j)
  /\ pc'[t] \in Polling => pc[t] \in Polling \/ status'[TaskJob[t]] = "PENDING"
  /\ pc'[t] \in {"mark", "markW", "scancel"} =>
       \/ pc[t] \in {"mark", "markW"} /\ ids'[t] = ids[t]
       \/ pc[t] = "glist" /\ ids'[t] = JobsOfFlow(TaskFlow[t])
  /\ pc'[t] \in {"fold", "folded"} =>
       \/ pc[t] = "fold"
       \/ pc[t] = "scancel" /\ killed' = killed \cup {j \in ids[t] : ~Over(j)}

\* Every step of a task and every failure of one is a move.
LEMMA TaskMoves ==
  ASSUME TypeOK, NEW t \in Tasks, TaskStep(t) \/ TaskFault(t)
  PROVE  Moves(t)
<1> USE TasksAssumption DEF Moves, Goto, Set, Polling, Inserting, Guarding, Section
<1>1. CASE InsertRead(t) \/ ReinsertRead(t)
  BY <1>1 DEF TypeOK, InsertRead, ReinsertRead, ReadOwner
<1>2. CASE InsertWrite(t) \/ ReinsertWrite(t)
  BY <1>2 DEF TypeOK, InsertWrite, ReinsertWrite, WriteStatus, NextIteration
<1>3. CASE GuardCheck(t) \/ GuardBlind(t)
  BY <1>3 DEF TypeOK, GuardCheck, GuardBlind
<1>4. CASE GuardList(t)
  BY <1>4 DEF TypeOK, GuardList, JobsOfFlow, ListStatus
<1>5. CASE MarkRead(t) \/ ApplyRead(t)
  BY <1>5 DEF TypeOK, MarkRead, ApplyRead, ReadOwner
<1>6. CASE MarkWrite(t) \/ ApplyWrite(t)
  BY <1>6 DEF TypeOK, MarkWrite, ApplyWrite
<1>7. CASE Scancel(t) \/ ScancelFails(t)
  BY <1>7 DEF TypeOK, Scancel, ScancelFails
<1>8. CASE Fold(t) \/ Report(t)
  BY <1>8 DEF TypeOK, Fold, Report
<1>9. CASE CheckLease(t) \/ Acquire(t) \/ Recheck(t) \/ WriteLease(t) \/ Release(t)
  BY <1>9 DEF TypeOK, CheckLease, Acquire, Recheck, WriteLease, Release
<1>10. CASE ListRunning(t)
  BY <1>10 DEF TypeOK, ListRunning, ListStatus
<1>11. CASE Sacct(t) \/ SacctFails(t)
  BY <1>11 DEF TypeOK, Sacct, SacctFails
<1>12. CASE ReadStatus(t)
  BY <1>12 DEF TypeOK, ReadStatus, NextIteration
<1>13. CASE CallFails(t) \/ ReplyLost(t)
  <2>1. /\ ids'[t] = {} /\ todo'[t] = {}
        /\ pc'[t] \in {"poll", "failed"}
        /\ pc[t] \in Inserting => pc'[t] = "failed"
        /\ pc[t] \in Inserting \cup Polling
    BY <1>13 DEF TypeOK, CallFails, ReplyLost, Raises
  <2> QED
    BY <2>1
<1> QED
  BY <1>1, <1>2, <1>3, <1>4, <1>5, <1>6, <1>7, <1>8, <1>9, <1>10, <1>11, <1>12, <1>13
     DEF TaskStep, TaskFault

\* Nobody else touches it, but for a crash.
LEMMA TaskSteps ==
  ASSUME TypeOK, [Next]_vars, NEW u \in Tasks
  PROVE  \/ Moves(u)
         \/ UNCHANGED <<pc[u], ids[u], todo[u], own[u]>>
         \/ pc'[u] = "crashed" /\ ids'[u] = {} /\ todo'[u] = {}
<1>1. ASSUME NEW t \in Tasks, TaskStep(t) \/ TaskFault(t), t # u
      PROVE  UNCHANGED <<pc[u], ids[u], todo[u], own[u]>>
  <2> USE DEF TypeOK, Goto, Set
  <2>1. CASE TaskFault(t)
    BY <1>1, <2>1 DEF TaskFault, GuardBlind, ScancelFails, CallFails, ReplyLost, Raises
  <2>2. CASE \/ InsertRead(t) \/ InsertWrite(t) \/ ReinsertRead(t) \/ ReinsertWrite(t)
             \/ MarkRead(t) \/ MarkWrite(t) \/ ApplyRead(t) \/ ApplyWrite(t)
    BY <1>1, <2>2 DEF InsertRead, InsertWrite, ReinsertRead, ReinsertWrite, MarkRead, MarkWrite,
       ApplyRead, ApplyWrite, ReadOwner, NextIteration
  <2>3. CASE \/ GuardCheck(t) \/ GuardList(t) \/ Scancel(t) \/ Fold(t) \/ CheckLease(t)
             \/ Acquire(t) \/ Recheck(t) \/ WriteLease(t) \/ Release(t) \/ ListRunning(t)
             \/ Sacct(t) \/ SacctFails(t) \/ ReadStatus(t) \/ Report(t)
    BY <1>1, <2>3 DEF GuardCheck, GuardList, Scancel, Fold, CheckLease, Acquire, Recheck,
       WriteLease, Release, ListRunning, Sacct, SacctFails, ReadStatus, NextIteration, Report
  <2> QED
    BY <1>1, <2>1, <2>2, <2>3 DEF TaskStep
<1>2. ASSUME NEW f \in Flows, Crash(f)
      PROVE  \/ UNCHANGED <<pc[u], ids[u], todo[u], own[u]>>
             \/ pc'[u] = "crashed" /\ ids'[u] = {} /\ todo'[u] = {}
  BY <1>2 DEF Crash
<1>3. \/ \E t \in Tasks : TaskStep(t) \/ TaskFault(t)
      \/ \E f \in Flows : Crash(f)
      \/ UNCHANGED <<pc, ids, todo, own>>
  BY DEF Next, vars, env, AllFinal, SlurmStep, LeaseExpires, SlotExpires, UserCancels
<1> QED
  BY <1>1, <1>2, <1>3, TaskMoves

\* A variable is deleted only when its job is attended to.
LEMMA StatusKept ==
  ASSUME TypeOK, FinalGot, FoldInv, [Next]_vars, NEW j \in Jobs, status[j] # "ABSENT", ~Attended(j)
  PROVE  status'[j] # "ABSENT"
<1>1. ASSUME NEW t \in Tasks, pc[t] \in {"fold", "delete"} PROVE TaskJob[t] # j
  BY <1>1 DEF FinalGot, FoldInv, GuardHolds, Attended, Over
<1>2. ASSUME NEW t \in Tasks, NEW i \in Jobs, NEW s \in JobStates \cup {NoState, "CANCELLING", "PENDING"},
             WriteStatus(t, i, s)
      PROVE  status'[j] # "ABSENT"
  BY <1>2, NotAbsent DEF WriteStatus, TypeOK
<1>3. ASSUME NEW t \in Tasks, pc[t] \in {"fold", "delete"}, DeleteStatus(TaskJob[t])
      PROVE  status'[j] # "ABSENT"
  BY <1>1, <1>3 DEF DeleteStatus, TypeOK
<1> QED
  BY <1>2, <1>3, StatusSteps, TasksAssumption

\* Each of the parts of FoldInv is kept by every step.
LEMMA NextOwnedStatus ==
  OneFlowPerJob /\ TypeOK /\ FoldInv /\ [Next]_vars => OwnedStatus'
<1> SUFFICES ASSUME OneFlowPerJob, TypeOK, FoldInv, [Next]_vars, NEW u \in Tasks,
                    status'[TaskJob[u]] # "ABSENT", ~Attended(TaskJob[u])'
             PROVE  owner'[TaskJob[u]] = TaskFlow[u]
  BY DEF OwnedStatus
<1> DEFINE k == TaskJob[u]
<1>1. k \in Jobs /\ ~Attended(k)
  BY TasksAssumption, AttendedStays
<1>2. status[k] # "ABSENT" => owner[k] = TaskFlow[u]
  BY <1>1 DEF FoldInv, OwnedStatus
<1>3. ASSUME NEW t \in Tasks, pc[t] \in {"insertW", "reinsertW"},
             WriteStatus(t, TaskJob[t], "PENDING")
      PROVE  owner'[k] = TaskFlow[u]
  <2>1. CASE TaskJob[t] = k
    <3>1. own[t] = TaskFlow[t] /\ TaskFlow[t] = TaskFlow[u]
      BY <1>1, <1>3, <2>1 DEF FoldInv, OwnedInsert, OneFlowPerJob
    <3> QED
      BY <1>1, <1>3, <2>1, <3>1 DEF WriteStatus, TypeOK
  <2>2. CASE TaskJob[t] # k
    BY <1>1, <1>2, <1>3, <2>2 DEF WriteStatus, TypeOK
  <2> QED
    BY <2>1, <2>2
<1>4. ASSUME NEW t \in Tasks, NEW j \in Jobs, NEW s, pc[t] \in {"markW", "applyW"},
             IsFirst(j, todo[t]), WriteStatus(t, j, s)
      PROVE  owner'[k] = TaskFlow[u]
  <2>1. j = k => own[t] = TaskFlow[u]
    BY <1>1, <1>4 DEF FoldInv, OwnedWrite
  <2> QED
    BY <1>1, <1>2, <1>4, <2>1 DEF WriteStatus, TypeOK
<1>5. ASSUME NEW t \in Tasks, DeleteStatus(TaskJob[t]) PROVE owner'[k] = TaskFlow[u]
  BY <1>1, <1>2, <1>5 DEF DeleteStatus, TypeOK
<1> QED
  BY <1>2, <1>3, <1>4, <1>5, StatusSteps

\* The flow run that a task finds in the variable of a job, or stamps it with.
LEMMA OwnerIsFlow ==
  ASSUME TypeOK, FoldInv, NEW t \in Tasks, NEW u \in Tasks, ~Attended(TaskJob[t]),
         status[TaskJob[t]] # "ABSENT" \/ TaskFlow[u] = TaskFlow[t]
  PROVE  OwnerFor(u, TaskJob[t]) = TaskFlow[t]
BY DEF OwnerFor, FoldInv, OwnedStatus

LEMMA NextOwnedInsert == TypeOK /\ FoldInv /\ [Next]_vars => OwnedInsert'
<1> SUFFICES ASSUME TypeOK, FoldInv, [Next]_vars, NEW u \in Tasks,
                    pc'[u] \in {"insertW", "reinsertW"}, ~Attended(TaskJob[u])'
             PROVE  own'[u] = TaskFlow[u]
  BY DEF OwnedInsert
<1>1. ~Attended(TaskJob[u])
  BY TasksAssumption, AttendedStays
<1>2. CASE Moves(u)
  BY <1>1, <1>2, OwnerIsFlow DEF Moves
<1>3. CASE UNCHANGED <<pc[u], own[u]>>
  BY <1>1, <1>3 DEF FoldInv, OwnedInsert
<1> QED
  BY <1>2, <1>3, TaskSteps

LEMMA NextOwnedWrite == TypeOK /\ FoldInv /\ [Next]_vars => OwnedWrite'
<1> SUFFICES ASSUME TypeOK, FoldInv, [Next]_vars, NEW t \in Tasks, NEW u \in Tasks,
                    pc'[u] \in {"markW", "applyW"}, IsFirst(TaskJob[t], todo'[u]),
                    ~Attended(TaskJob[t])'
             PROVE  own'[u] = TaskFlow[t]
  BY DEF OwnedWrite, IsFirst
<1>1. TaskJob[t] \in Jobs /\ ~Attended(TaskJob[t])
  BY TasksAssumption, AttendedStays
<1>2. CASE Moves(u)
  <2>1. PICK j \in Jobs : IsFirst(j, todo[u]) /\ own'[u] = OwnerFor(u, j)
    BY <1>2 DEF Moves
  <2>2. todo'[u] = todo[u] /\ todo[u] \in SUBSET Jobs
    BY <1>2 DEF Moves, TypeOK
  <2>3. j = TaskJob[t]
    BY <1>1, <2>1, <2>2, FirstUnique
  <2>4. status[TaskJob[t]] # "ABSENT"
    BY <1>1, <2>1, <2>3 DEF FoldInv, StillListed, IsFirst
  <2> QED
    BY <1>1, <2>1, <2>3, <2>4, OwnerIsFlow
<1>3. CASE UNCHANGED <<pc[u], todo[u], own[u]>>
  BY <1>1, <1>3 DEF FoldInv, OwnedWrite
<1> QED
  BY <1>2, <1>3, TaskSteps

LEMMA NextStillListed == TypeOK /\ FinalGot /\ FoldInv /\ [Next]_vars => StillListed'
<1> SUFFICES ASSUME TypeOK, FinalGot, FoldInv, [Next]_vars, NEW t \in Tasks, NEW u \in Tasks,
                    TaskJob[t] \in ids'[u] \cup todo'[u], ~Attended(TaskJob[t])'
             PROVE  status'[TaskJob[t]] # "ABSENT"
  BY DEF StillListed
<1>1. TaskJob[t] \in Jobs /\ ~Attended(TaskJob[t])
  BY TasksAssumption, AttendedStays
<1>2. TaskJob[t] \in ids[u] \cup todo[u] \/ status[TaskJob[t]] # "ABSENT"
  BY TaskSteps DEF Moves
<1>3. status[TaskJob[t]] # "ABSENT"
  BY <1>1, <1>2 DEF FoldInv, StillListed
<1> QED
  BY <1>1, <1>3, StatusKept

LEMMA NextStillThere == TypeOK /\ FinalGot /\ FoldInv /\ [Next]_vars => StillThere'
<1> SUFFICES ASSUME TypeOK, FinalGot, FoldInv, [Next]_vars, NEW t \in Tasks,
                    pc'[t] \in Polling, ~Attended(TaskJob[t])'
             PROVE  status'[TaskJob[t]] # "ABSENT"
  BY DEF StillThere
<1>1. TaskJob[t] \in Jobs /\ ~Attended(TaskJob[t])
  BY TasksAssumption, AttendedStays
<1>2. pc[t] \in Polling \/ status'[TaskJob[t]] = "PENDING"
  BY TaskSteps DEF Moves, Polling, Guarding, Section
<1>3. pc[t] \in Polling => status[TaskJob[t]] # "ABSENT"
  BY <1>1 DEF FoldInv, StillThere
<1> QED
  BY <1>1, <1>2, <1>3, StatusKept

\* The guard finds its own job, and scancel reaches it.
LEMMA NextGuardHolds == ListsAll /\ TypeOK /\ FoldInv /\ [Next]_vars => GuardHolds'
<1> SUFFICES ASSUME ListsAll, TypeOK, FoldInv, [Next]_vars, NEW t \in Tasks, ~Attended(TaskJob[t])'
             PROVE  /\ pc'[t] \in {"mark", "markW", "scancel"} => TaskJob[t] \in ids'[t]
                    /\ pc'[t] \notin {"fold", "folded"}
  BY DEF GuardHolds
<1>1. TaskJob[t] \in Jobs /\ ~Attended(TaskJob[t])
  BY TasksAssumption, AttendedStays
<1>2. /\ pc[t] \in {"mark", "markW", "scancel"} => TaskJob[t] \in ids[t]
      /\ pc[t] \notin {"fold", "folded"}
  BY <1>1 DEF FoldInv, GuardHolds
<1>3. CASE Moves(t)
  <2>1. pc[t] = "glist" => TaskJob[t] \in JobsOfFlow(TaskFlow[t])
    <3> SUFFICES ASSUME pc[t] = "glist" PROVE TaskJob[t] \in JobsOfFlow(TaskFlow[t])
      OBVIOUS
    <3>1. status[TaskJob[t]] # "ABSENT"
      BY <1>1 DEF FoldInv, StillThere, Polling, Guarding
    <3>2. owner[TaskJob[t]] = TaskFlow[t]
      BY <1>1, <3>1 DEF FoldInv, OwnedStatus
    <3> QED
      BY <1>1, <3>1, <3>2, ListIsComplete DEF JobsOfFlow
  <2>2. pc[t] = "scancel" => killed' # killed \cup {j \in ids[t] : ~Over(j)}
    BY <1>1, <1>2 DEF Attended
  <2> QED
    BY <1>2, <1>3, <2>1, <2>2 DEF Moves
<1>4. CASE UNCHANGED <<pc[t], ids[t]>>
  BY <1>2, <1>4
<1> QED
  BY <1>3, <1>4, TaskSteps

\* The job of a task that reports CANCELLED through the guard is over or was
\* committed to scancel, for any number of tasks, jobs, flow runs and failures.
THEOREM FoldIsThorough ==
  ASSUME Submitters = Tasks, OneFlowPerJob, ListsAll
  PROVE  Spec => []FoldLeavesNothingRunning
<1>1. Init => FoldInv
  <2> SUFFICES ASSUME Init PROVE FoldInv
    OBVIOUS
  <2>1. /\ \A j \in Jobs : status[j] = "ABSENT"
        /\ \A t \in Tasks : pc[t] = "insert" /\ ids[t] = {} /\ todo[t] = {}
    BY DEF Init
  <2> QED
    BY <2>1, TasksAssumption DEF FoldInv, OwnedStatus, OwnedInsert, OwnedWrite, StillListed,
       StillThere, GuardHolds, Polling, Guarding, Section
<1>2. TypeInv /\ SafetyInv /\ FoldInv /\ [Next]_vars => FoldInv'
  BY NextOwnedStatus, NextOwnedInsert, NextOwnedWrite, NextStillListed, NextStillThere,
     NextGuardHolds DEF FoldInv, SafetyInv, TypeInv
<1>3. FoldInv => FoldLeavesNothingRunning
  BY DEF FoldInv, GuardHolds, FoldLeavesNothingRunning, Attended
<1> QED
  BY <1>1, <1>2, <1>3, TypeInvariant, Safety, PTL DEF Spec

-----------------------------------------------------------------------------
(* SbatchMonitor implements JobWatch.                                      *)

\* JobWatch takes the same states for final.
LEMMA SameTerminalStates == Watch!TerminalStates = TerminalStates
BY DEF Watch!TerminalStates, TerminalStates

\* A step of a task inside its wait, which JobWatch does not see.
Silent(t) ==
  /\ pc[t] \notin Final /\ pc'[t] \notin Final
  /\ \A u \in Tasks \ {t} : pc'[u] = pc[u] /\ got'[u] = got[u]
  /\ UNCHANGED env

\* Such a step leaves everything JobWatch sees as it is.
LEMMA SilentStutters ==
  ASSUME NEW t \in Tasks, Silent(t) PROVE UNCHANGED Watch!vars
<1>1. \A u \in Tasks : Outcome(u)' = Outcome(u)
  BY DEF Silent, Outcome, Final
<1> QED
  BY <1>1 DEF Silent, env, Watch!vars

\* The steps of a wait that do not end it are silent.
LEMMA WaitIsSilent ==
  ASSUME TypeOK, NEW t \in Tasks,
         \/ InsertRead(t) \/ InsertWrite(t) \/ GuardCheck(t) \/ GuardBlind(t)
         \/ GuardList(t) \/ MarkRead(t) \/ MarkWrite(t) \/ CheckLease(t) \/ Acquire(t)
         \/ Recheck(t) \/ WriteLease(t) \/ Release(t) \/ ListRunning(t) \/ Sacct(t)
         \/ SacctFails(t) \/ ApplyRead(t) \/ ApplyWrite(t) \/ ReadStatus(t)
         \/ ReinsertRead(t) \/ ReinsertWrite(t)
  PROVE  Silent(t)
<1> USE DEF TypeOK, Silent, Final, env, Goto, Set
<1>1. CASE InsertRead(t)
  BY <1>1 DEF InsertRead
<1>2. CASE InsertWrite(t)
  BY <1>2 DEF InsertWrite
<1>3. CASE GuardCheck(t)
  BY <1>3 DEF GuardCheck
<1>4. CASE GuardBlind(t)
  BY <1>4 DEF GuardBlind
<1>5. CASE GuardList(t)
  BY <1>5 DEF GuardList
<1>6. CASE MarkRead(t)
  BY <1>6 DEF MarkRead
<1>7. CASE MarkWrite(t)
  BY <1>7 DEF MarkWrite
<1>8. CASE CheckLease(t)
  BY <1>8 DEF CheckLease
<1>9. CASE Acquire(t)
  BY <1>9 DEF Acquire
<1>10. CASE Recheck(t)
  BY <1>10 DEF Recheck
<1>11. CASE WriteLease(t)
  BY <1>11 DEF WriteLease
<1>12. CASE Release(t)
  BY <1>12 DEF Release
<1>13. CASE ListRunning(t)
  BY <1>13 DEF ListRunning
<1>14. CASE Sacct(t)
  BY <1>14 DEF Sacct
<1>15. CASE SacctFails(t)
  BY <1>15 DEF SacctFails
<1>16. CASE ApplyRead(t)
  BY <1>16 DEF ApplyRead
<1>17. CASE ApplyWrite(t)
  BY <1>17 DEF ApplyWrite
<1>18. CASE ReadStatus(t)
  BY <1>18 DEF ReadStatus, NextIteration
<1>19. CASE ReinsertRead(t)
  BY <1>19 DEF ReinsertRead
<1>20. CASE ReinsertWrite(t)
  BY <1>20 DEF ReinsertWrite, NextIteration
<1> QED
  BY <1>1, <1>2, <1>3, <1>4, <1>5, <1>6, <1>7, <1>8, <1>9, <1>10,
     <1>11, <1>12, <1>13, <1>14, <1>15, <1>16, <1>17, <1>18, <1>19, <1>20

\* The initial states are initial states of JobWatch.
LEMMA InitRefines == Init => Watch!Init
BY DEF Init, Watch!Init, Outcome, NoStates, NoState

\* Every step is one of JobWatch or leaves unchanged what it sees.
LEMMA NextRefines ==
  TypeOK /\ SafetyInv /\ [Next]_vars => [Watch!Next]_(Watch!vars)
<1> SUFFICES ASSUME TypeOK, SafetyInv, [Next]_vars
             PROVE  Watch!Next \/ UNCHANGED Watch!vars
  OBVIOUS
<1> USE TasksAssumption
<1>1. ASSUME NEW t \in Tasks, Silent(t) PROVE UNCHANGED Watch!vars
  BY <1>1, SilentStutters
<1>2. ASSUME NEW t \in Tasks, Report(t) PROVE Watch!Report(t)
  <2>1. pc[t] = "delete" /\ pc' = [pc EXCEPT ![t] = "done"] /\ got' = got /\ UNCHANGED env
    BY <1>2 DEF Report, Goto
  <2>2. got[t] \in TerminalStates /\ got[t] = slurm[TaskJob[t]]
    BY <2>1 DEF SafetyInv, FinalGot
  <2>3. Outcome(t) = "waiting" /\ Outcome(t)' = slurm[TaskJob[t]]
    BY <2>1, <2>2 DEF Outcome, TypeOK
  <2>4. \A u \in Tasks \ {t} : Outcome(u)' = Outcome(u)
    BY <2>1 DEF Outcome, TypeOK
  <2>5. [u \in Tasks |-> Outcome(u)]'
          = [[u \in Tasks |-> Outcome(u)] EXCEPT ![t] = slurm[TaskJob[t]]]
    BY <2>3, <2>4
  <2> QED
    BY <2>1, <2>2, <2>3, <2>5, SameTerminalStates DEF Watch!Report, Watch!Over, env
<1>3. ASSUME NEW t \in Tasks, Fold(t) PROVE Watch!Fold(t)
  <2>1. /\ pc[t] = "fold" /\ pc' = [pc EXCEPT ![t] = "folded"]
        /\ got' = [got EXCEPT ![t] = "CANCELLED"] /\ UNCHANGED env
    BY <1>3 DEF Fold, Goto, Set
  <2>2. TaskFlow[t] \in cancelled
    BY <2>1 DEF SafetyInv, GuardSettled, Guarding
  <2>3. Outcome(t) = "waiting" /\ Outcome(t)' = "cancelled"
    BY <2>1 DEF Outcome, TypeOK
  <2>4. \A u \in Tasks \ {t} : Outcome(u)' = Outcome(u)
    BY <2>1 DEF Outcome, TypeOK
  <2>5. [u \in Tasks |-> Outcome(u)]'
          = [[u \in Tasks |-> Outcome(u)] EXCEPT ![t] = "cancelled"]
    BY <2>3, <2>4
  <2> QED
    BY <2>1, <2>2, <2>3, <2>5 DEF Watch!Fold, env
<1>4. ASSUME NEW t \in Tasks, Scancel(t) \/ ScancelFails(t)
      PROVE  \E S \in SUBSET Jobs, T \in SUBSET Tasks : Watch!KillOrGiveUp(S, T)
  <2>1. PICK S \in SUBSET ids[t] : killed' = killed \cup {j \in S : ~Over(j)}
    BY <1>4 DEF Scancel, ScancelFails
  <2>2. /\ pc[t] = "scancel" /\ got' = got /\ UNCHANGED <<slurm, cancelled>>
        /\ pc'[t] \in {"fold", "failed"}
        /\ \A u \in Tasks \ {t} : pc'[u] = pc[u]
    BY <1>4 DEF Scancel, ScancelFails, Goto, TypeOK
  <2> DEFINE K == {j \in S : ~Over(j)}
             T == {u \in Tasks : u = t /\ pc'[t] = "failed"}
  <2>3. K \in SUBSET Jobs /\ T \in SUBSET Tasks
    BY DEF TypeOK
  <2>4. \A j \in K : ~Watch!Over(j) /\ \E u \in Tasks : TaskJob[u] = j /\ TaskFlow[u] \in cancelled
    BY <2>2, SameTerminalStates DEF SafetyInv, GuardSettled, Guarding, Settled, Over, Watch!Over
  <2>5. \A u \in Tasks : Outcome(u)' = IF u \in T /\ Outcome(u) = "waiting"
                                       THEN "gaveup" ELSE Outcome(u)
    BY <2>2 DEF Outcome
  <2>6. [u \in Tasks |-> Outcome(u)]'
          = [u \in Tasks |-> IF u \in T /\ [v \in Tasks |-> Outcome(v)][u] = "waiting"
                             THEN "gaveup" ELSE [v \in Tasks |-> Outcome(v)][u]]
    BY <2>5
  <2>7. Watch!KillOrGiveUp(K, T)
    BY <2>1, <2>2, <2>4, <2>6 DEF Watch!KillOrGiveUp
  <2> QED
    BY <2>3, <2>7
<1>5. ASSUME NEW T \in SUBSET Tasks, UNCHANGED env,
             \A u \in T : pc[u] \notin Final /\ pc'[u] \in {"failed", "crashed"},
             \A u \in Tasks \ T : pc'[u] = pc[u] /\ got'[u] = got[u]
      PROVE  \E S \in SUBSET Jobs : Watch!KillOrGiveUp(S, T)
  <2>1. \A u \in Tasks : Outcome(u)' = IF u \in T /\ Outcome(u) = "waiting"
                                       THEN "gaveup" ELSE Outcome(u)
    BY <1>5 DEF Outcome, Final
  <2>2. [u \in Tasks |-> Outcome(u)]'
          = [u \in Tasks |-> IF u \in T /\ [v \in Tasks |-> Outcome(v)][u] = "waiting"
                             THEN "gaveup" ELSE [v \in Tasks |-> Outcome(v)][u]]
    BY <2>1
  <2>3. Watch!KillOrGiveUp({}, T)
    BY <1>5, <2>2 DEF Watch!KillOrGiveUp, env
  <2> QED
    BY <2>3
<1>6. ASSUME NEW t \in Tasks, CallFails(t) \/ ReplyLost(t)
      PROVE  Watch!Next \/ UNCHANGED Watch!vars
  <2>1. /\ UNCHANGED env /\ pc[t] \notin Final /\ pc'[t] \in {"poll", "failed"}
        /\ \A u \in Tasks \ {t} : pc'[u] = pc[u] /\ got'[u] = got[u]
    <3>1. pc[t] \notin Final /\ UNCHANGED env
      BY <1>6 DEF CallFails, ReplyLost, Inserting, Polling, Guarding, Section, Final
    <3>2. Raises(t)
      BY <1>6 DEF CallFails, ReplyLost
    <3> QED
      BY <3>1, <3>2 DEF Raises, Goto, Set, TypeOK
  <2>2. CASE pc'[t] = "poll"
    BY <2>1, <2>2, <1>1 DEF Silent, Final
  <2>3. CASE pc'[t] = "failed"
    <3>1. \E S \in SUBSET Jobs : Watch!KillOrGiveUp(S, {t})
      BY <2>1, <2>3, <1>5
    <3> QED
      BY <3>1 DEF Watch!Next
  <2> QED
    BY <2>1, <2>2, <2>3
<1>7. ASSUME NEW f \in Flows, Crash(f) PROVE Watch!Next
  <2> DEFINE T == {u \in Tasks : TaskFlow[u] = f /\ pc[u] \notin Final}
  <2>1. /\ UNCHANGED env
        /\ \A u \in T : pc[u] \notin Final /\ pc'[u] \in {"failed", "crashed"}
        /\ \A u \in Tasks \ T : pc'[u] = pc[u] /\ got'[u] = got[u]
    BY <1>7 DEF Crash, TypeOK
  <2>2. \E S \in SUBSET Jobs : Watch!KillOrGiveUp(S, T)
    BY <2>1, <1>5
  <2> QED
    BY <2>2 DEF Watch!Next
<1>8. ASSUME NEW j \in Jobs, NEW s \in JobStates, SlurmStep(j, s) PROVE Watch!Evolve(j, s)
  <2>1. \A u \in Tasks : Outcome(u)' = Outcome(u)
    BY <1>8 DEF SlurmStep, Outcome
  <2> QED
    BY <1>8, <2>1, SameTerminalStates DEF SlurmStep, Watch!Evolve, Watch!Over, Over
<1>9. ASSUME NEW f \in Flows, UserCancels(f) PROVE Watch!Cancel(f)
  <2>1. \A u \in Tasks : Outcome(u)' = Outcome(u)
    BY <1>9 DEF UserCancels, Outcome
  <2> QED
    BY <1>9, <2>1 DEF UserCancels, Watch!Cancel
<1>10. ASSUME \/ LeaseExpires \/ (\E t \in Tasks : SlotExpires(t)) \/ UNCHANGED vars
       PROVE  UNCHANGED Watch!vars
  <2>1. UNCHANGED env /\ pc' = pc /\ got' = got
    BY <1>10 DEF LeaseExpires, SlotExpires, vars, env
  <2>2. \A u \in Tasks : Outcome(u)' = Outcome(u)
    BY <2>1 DEF Outcome
  <2> QED
    BY <2>1, <2>2 DEF Watch!vars, env
<1>11. ASSUME NEW t \in Tasks, TaskStep(t) \/ TaskFault(t)
       PROVE  Watch!Next \/ UNCHANGED Watch!vars
  <2>1. CASE Report(t)
    BY <2>1, <1>2 DEF Watch!Next
  <2>2. CASE Fold(t)
    BY <2>2, <1>3 DEF Watch!Next
  <2>3. CASE Scancel(t) \/ ScancelFails(t)
    BY <2>3, <1>4 DEF Watch!Next
  <2>4. CASE CallFails(t) \/ ReplyLost(t)
    BY <2>4, <1>6
  <2>5. CASE ~(Report(t) \/ Fold(t) \/ Scancel(t) \/ ScancelFails(t) \/ CallFails(t) \/ ReplyLost(t))
    <3>1. Silent(t)
      BY <1>11, <2>5, WaitIsSilent DEF TaskStep, TaskFault
    <3> QED
      BY <3>1, <1>1
  <2> QED
    BY <2>1, <2>2, <2>3, <2>4, <2>5
<1> QED
  BY <1>7, <1>8, <1>9, <1>10, <1>11 DEF Next, AllFinal, Watch!Next

\* The monitor implements JobWatch: what each task is told, and whose jobs are
\* killed, is as if it watched Slurm and its own flow run alone.
THEOREM MonitorImplementsJobWatch == Spec => ImplementsJobWatch
<1>1. Init => Watch!Init
  BY InitRefines
<1>2. TypeInv /\ SafetyInv /\ [Next]_vars => [Watch!Next]_(Watch!vars)
  BY NextRefines DEF TypeInv
<1> QED
  BY <1>1, <1>2, TypeInvariant, Safety, PTL DEF Spec, ImplementsJobWatch, Watch!Spec
=============================================================================
