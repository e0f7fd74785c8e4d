------------------------- MODULE MCOutageTolerance -------------------------
(* Instances of OutageTolerance for TLC, in the seconds of _sbatch.py.     *)
EXTENDS OutageTolerance

\* The API refuses at once, after a moment, or when httpx times out.
MCDurations == {0, 1, 30}

\* A busy machine, and a laptop that was closed for an hour.
Delays == {0, 7}
LaptopSleep == {0, 3600}
=============================================================================
