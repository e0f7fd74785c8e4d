----------------------- MODULE OutageToleranceProofs -----------------------
(***************************************************************************)
(* The bounds of OutageTolerance, for any times an iteration takes, any     *)
(* suspensions and any values of the three constants of _sbatch.py.         *)
(***************************************************************************)
EXTENDS OutageTolerance, TLAPS

LEMMA InitHolds == Init => TypeOK /\ ClockInv
  BY ClockAssumption, SMT DEF Init, TypeOK, ClockInv, GivesUpLate,
     GivesUpInTime, NoOutage, FirstFailure, LastFailure

\* The types, one action after the other.
LEMMA TypeStep == TypeOK /\ [Next]_vars => TypeOK'
<1> SUFFICES ASSUME TypeOK, [Next]_vars PROVE TypeOK'
  OBVIOUS
<1> USE ClockAssumption DEF TypeOK
<1>1. CASE Complete
  BY <1>1, SMT DEF Complete, NoOutage
<1>2. ASSUME NEW d \in Durations, Raised(d)  PROVE TypeOK'
  <2>1. d \in Nat
    OBVIOUS
  <2>2. NextBackoff(backoff) \in Poll..MaxBackoff
    BY SMT DEF NextBackoff, Smaller
  <2> QED
    BY <1>2, <2>1, <2>2, SMT DEF Raised, StartOf, NoOutage
<1>3. ASSUME NEW s \in Suspensions, WakeUp(s)  PROVE TypeOK'
  <2>1. s \in Nat
    OBVIOUS
  <2> QED
    BY <1>3, <2>1, SMT DEF WakeUp
<1>4. CASE UNCHANGED vars
  BY <1>4 DEF vars
<1> QED
  BY <1>1, <1>2, <1>3, <1>4 DEF Next

\* The induction: a failure that is tolerated leaves the outage within the
\* tolerance, so one nap later it is within one backoff of it.
LEMMA ClockStep == TypeOK /\ ClockInv /\ [Next]_vars => ClockInv'
<1> SUFFICES ASSUME TypeOK, ClockInv, [Next]_vars PROVE ClockInv'
  OBVIOUS
<1> USE ClockAssumption DEF TypeOK, ClockInv, GivesUpLate, GivesUpInTime,
        FirstFailure, LastFailure, NoOutage
<1>1. CASE Complete
  BY <1>1, SMT DEF Complete
<1>2. ASSUME NEW d \in Durations, Raised(d)  PROVE ClockInv'
  <2>1. d \in 0..MaxDuration
    OBVIOUS
  <2>2. CASE started = NoOutage
    BY <1>2, <2>1, <2>2, SMT DEF Raised, StartOf
  <2>3. CASE started # NoOutage
    BY <1>2, <2>1, <2>3, SMT DEF Raised, StartOf
  <2> QED
    BY <2>2, <2>3
<1>3. ASSUME NEW s \in Suspensions, WakeUp(s)  PROVE ClockInv'
  <2>1. s \in 0..MaxSuspension
    OBVIOUS
  <2> QED
    BY <1>3, <2>1, SMT DEF WakeUp
<1>4. CASE UNCHANGED vars
  BY <1>4 DEF vars
<1> QED
  BY <1>1, <1>2, <1>3, <1>4 DEF Next

\* The inductive invariant holds throughout.
THEOREM ClockSafety == ClockSpec => [](TypeOK /\ ClockInv)
<1>1. TypeOK /\ ClockInv /\ [Next]_vars => (TypeOK /\ ClockInv)'
  BY TypeStep, ClockStep
<1> QED
  BY InitHolds, <1>1, PTL DEF ClockSpec

\* A wait that gives up has had no answer from the API for more than the
\* tolerance: failures of different outages do not add up (_sbatch.py
\* 613-619, 627-628).
THEOREM PatientThroughout == ClockSpec => []GivesUpLate
<1>1. TypeOK /\ ClockInv => GivesUpLate
  BY DEF ClockInv
<1> QED
  BY ClockSafety, <1>1, PTL

\* A wait without an answer is bounded by the sum of the constants, however
\* the backoff grew (_sbatch.py 611-625).
THEOREM BoundedOutage == ClockSpec => []GivesUpInTime
<1>1. TypeOK /\ ClockInv => GivesUpInTime
  BY DEF ClockInv
<1> QED
  BY ClockSafety, <1>1, PTL
=============================================================================
