--------------------------- MODULE OutageTolerance ---------------------------
(***************************************************************************)
(* The clock of wait_completion_single (_sbatch.py 580-631) in seconds: one *)
(* task polls, an iteration may raise because the Prefect API cannot be     *)
(* reached, and the task retries, ever more slowly, until the outage has    *)
(* lasted too long.  SbatchMonitor has what an iteration does, and leaves   *)
(* to chance what is counted here.                                          *)
(*                                                                         *)
(* Only the time since the last complete iteration matters, so the clock    *)
(* starts again at each.                                                    *)
(***************************************************************************)
EXTENDS Integers

CONSTANTS
  Poll,        \* _POLL_INTERVAL_SECS
  Tolerance,   \* _API_OUTAGE_TOLERANCE_SECS
  MaxBackoff,  \* _API_OUTAGE_MAX_BACKOFF_SECS
  Durations,   \* the seconds an iteration may take until it raises
  MaxDuration, \* the longest of them
  Suspensions, \* the seconds the machine may be asleep during a sleep
  MaxSuspension

ASSUME ClockAssumption ==
  /\ Poll \in Nat \ {0} /\ Tolerance \in Nat /\ MaxBackoff \in Nat
  /\ Poll <= MaxBackoff
  /\ MaxDuration \in Nat /\ Durations \subseteq 0..MaxDuration
  /\ MaxSuspension \in Nat /\ Suspensions \subseteq 0..MaxSuspension
  /\ 0 \in Suspensions

VARIABLES
  pc,       \* "poll", "sleep", "returned" or "gaveup"
  clock,    \* seconds since the last complete iteration, or the first call
  started,  \* outage_started, NoOutage for None
  backoff,  \* backoff
  nap,      \* the seconds it sleeps before the next iteration
  asleep    \* of the outage, the seconds the machine was suspended (history)

vars == <<pc, clock, started, backoff, nap, asleep>>

NoOutage == -1
Smaller(a, b) == IF a < b THEN a ELSE b

TypeOK ==
  /\ pc \in {"poll", "sleep", "returned", "gaveup"}
  /\ clock \in Nat
  /\ started \in Nat \cup {NoOutage}
  /\ backoff \in Poll..MaxBackoff
  /\ nap \in 0..MaxBackoff
  /\ asleep \in Nat

Init ==
  /\ pc = "poll"
  /\ clock = 0
  /\ started = NoOutage
  /\ backoff = Poll
  /\ nap = 0
  /\ asleep = 0

\* A bug for the mutants: the outage is not over when an iteration succeeds.
OutageKept ==
  /\ pc = "poll"
  /\ clock' = 0
  /\ started' = IF started = NoOutage THEN NoOutage ELSE started - clock
  /\ backoff' = Poll
  /\ asleep' = 0
  /\ \/ pc' = "sleep" /\ nap' = Poll
     \/ pc' = "returned" /\ UNCHANGED nap

\* An iteration goes through: the outage, if there was one, is over.
Complete ==
  /\ pc = "poll"
  /\ clock' = 0
  /\ started' = NoOutage
  /\ backoff' = Poll
  /\ asleep' = 0
  /\ \/ pc' = "sleep" /\ nap' = Poll
     \/ pc' = "returned" /\ UNCHANGED nap

\* outage_started, once an iteration failed at the time t.
StartOf(t) == IF started = NoOutage THEN t ELSE started

\* A bug for the mutants: the backoff has no limit.
Doubled(b) == b * 2

NextBackoff(b) == Smaller(b * 2, MaxBackoff)

\* An iteration raises after d seconds.
Raised(d) ==
  LET t == clock + d
  IN  /\ pc = "poll"
      /\ clock' = t
      /\ started' = StartOf(t)
      /\ UNCHANGED asleep
      /\ IF t - StartOf(t) > Tolerance
         THEN pc' = "gaveup" /\ UNCHANGED <<backoff, nap>>
         ELSE /\ pc' = "sleep"
              /\ nap' = backoff
              /\ backoff' = NextBackoff(backoff)

\* asyncio.sleep ends; the machine may have been suspended for s seconds.
WakeUp(s) ==
  /\ pc = "sleep"
  /\ pc' = "poll"
  /\ clock' = clock + nap + s
  /\ asleep' = IF started = NoOutage THEN 0 ELSE asleep + s
  /\ UNCHANGED <<started, backoff, nap>>

Next ==
  \/ Complete
  \/ \E d \in Durations : Raised(d)
  \/ \E s \in Suspensions : WakeUp(s)

ClockSpec == Init /\ [][Next]_vars

-----------------------------------------------------------------------------
(* Properties. *)

\* No wait gives up before the API has failed it for more than Tolerance
\* seconds without one complete iteration in between: failures of different
\* outages do not add up (the docstring, 597-600).
GivesUpLate == pc = "gaveup" => clock > Tolerance

\* Nor does it hold on much longer: from the last complete iteration it is a
\* poll to the first failure, then the tolerance, one backoff and one
\* iteration, whatever the order of fast and slow failures.
FirstFailure == Poll + MaxSuspension + MaxDuration
LastFailure == Tolerance + MaxBackoff + MaxSuspension + MaxDuration

GivesUpInTime == clock <= FirstFailure + LastFailure

\* The docstring (597) counts the sleep of a laptop among the outages that are
\* tolerated: the task should have polled for Tolerance seconds awake.
SleepIsTolerated == pc = "gaveup" => clock - started - asleep > Tolerance

-----------------------------------------------------------------------------
(* The inductive invariant: an outage starts within the first failure's time, *)
(* and when a nap begins it is still within the tolerance.                    *)

ClockInv ==
  /\ started # NoOutage => started <= clock /\ started <= FirstFailure
  /\ pc = "sleep" /\ started # NoOutage => clock - started <= Tolerance
  /\ pc = "poll" /\ started # NoOutage =>
       clock - started <= Tolerance + MaxBackoff + MaxSuspension
  /\ pc = "sleep" /\ started = NoOutage => clock = 0 /\ nap = Poll
  /\ pc = "poll" /\ started = NoOutage => clock <= Poll + MaxSuspension
  /\ pc = "returned" => clock = 0
  /\ GivesUpLate
  /\ GivesUpInTime
=============================================================================
