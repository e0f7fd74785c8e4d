-------------------------- MODULE MCSbatchMonitor --------------------------
(* Instances of SbatchMonitor for TLC.  A task is written <<flow, job>>.   *)
EXTENDS SbatchMonitor

\* Two flow runs, a job each: they share the lease and refresh each other.
TwoFlows == {<<"f1", 1>>, <<"f2", 2>>}
\* One flow run with two jobs.
OneFlow == {<<"f1", 1>>, <<"f1", 2>>}
\* A job first awaited by f1 and again by f2, the resumed run.
Resumed == {<<"f1", 1>>, <<"f2", 1>>}

MCTaskJob == [t \in Tasks |-> t[2]]
MCTaskFlow == [t \in Tasks |-> t[1]]
\* The tasks whose job was submitted by a launcher script.
FirstOnly == {<<"f1", 1>>}
MCStates == {"COMPLETING", "COMPLETED"}
\* Jobs seen running only as jobs without a record.
MCDone == {"COMPLETED"}
=============================================================================
