---------------------------- MODULE MCLaunchSlurm ----------------------------
(* Instances of LaunchSlurm for TLC: what the launcher scripts print.       *)
EXTENDS LaunchSlurm

Line(to, says, run_id, jobs) == [to |-> to, says |-> says, run |-> run_id, jobs |-> jobs]
Log(to) == Line(to, "log", "", <<>>)

\* Two stages with a job each, reported and summed up on stdout.
TwoStages == <<Line("out", "submitted", "r1", <<1>>), Line("out", "submitted", "r1", <<2>>),
               Line("out", "summary", "r1", <<1>>), Line("out", "summary", "r1", <<2>>)>>
\* The summary on stderr, and a cleanup job that is not in it.
OnStderr == <<Line("out", "submitted", "r1", <<1>>), Line("out", "cleanup", "r1", <<2>>),
              Line("err", "summary", "r1", <<1>>)>>
\* Two runs are mixed up.
Inconsistent == <<Line("out", "submitted", "r1", <<1>>), Line("out", "submitted", "r2", <<2>>),
                  Line("out", "summary", "r1", <<1>>), Line("out", "summary", "r2", <<2>>)>>
\* Stages without jobs, and no summary.
NoJobs == <<Log("err"), Line("out", "summary", "r1", <<>>)>>
NoSummary == <<Log("out"), Log("out"), Log("out")>>
\* The first line of stderr speaks of a closed connection.
SaysClosed == <<Line("err", "closed", "", <<>>), Line("out", "submitted", "r1", <<1>>),
                Line("out", "summary", "r1", <<1>>)>>
\* More on stderr than the window holds.
LongStderr == <<Log("err"), Log("err"), Log("err"), Line("out", "submitted", "r1", <<1>>)>>

Scripts == {TwoStages, OnStderr, Inconsistent, NoJobs, NoSummary, SaysClosed, LongStderr}
=============================================================================
