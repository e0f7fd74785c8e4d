----------------------------- MODULE SshCommand -----------------------------
(***************************************************************************)
(* One run of a runner that needs no service but a shell                    *)
(* (cmd_runners/_generic.py, _cineca.py, _simple.py, _local.py).  The       *)
(* generic and CINECA runners hold a paramiko channel and read stdout to    *)
(* its end, then stderr, then the exit status; the simple runner starts     *)
(* ssh(1) and the local one the command itself, and subprocess.run reads    *)
(* both streams at once.  The command may block on a stream nobody reads,   *)
(* and the connection may be lost at any moment.                            *)
(***************************************************************************)
EXTENDS Integers, Sequences, FiniteSets

CONSTANTS
  Runners,    \* the runners used, of Paramiko \cup Piped
  Outputs,    \* what commands print: sequences of lines, in the order written
  Window,     \* lines written ahead of the reader: an SSH channel's window or
              \* the buffer of a pipe
  HeadLines   \* _CONNECTION_CLOSED_HEAD_LINES

Streams  == {"out", "err"}
Paramiko == {"generic", "cineca"}
Piped    == {"simple", "local"}

Lines == UNION {{o[k] : k \in DOMAIN o} : o \in Outputs}

ASSUME SshAssumption ==
  /\ Runners \subseteq Paramiko \cup Piped
  /\ \A o \in Outputs : o \in Seq(Lines)
  /\ \A l \in Lines : l.to \in Streams
  /\ Window \in Nat \ {0} /\ HeadLines \in Nat

VARIABLES
  runner,   \* chosen by get_command_runner from the type of the context
  output,   \* what the command prints when nothing stops it
  missing,  \* the credential files the context names that are not there
  pc,
  proc,     \* the command: "none", "running" or "exited"
  exit,     \* how it ended
  sent,     \* lines it has written
  inbox,    \* stream -> lines that arrived and were not read
  got,      \* stream -> lines read
  conn,     \* "none", "up", "lost" (nobody told us), "down" or "closed"
  dropped,  \* was it lost before it was closed? (history)
  status,   \* the exit status received
  code,     \* return_code
  result    \* "none", "ok" or "error"

sshVars == <<runner, output, missing, pc, proc, exit, sent, inbox, got, conn,
             dropped, status, code, result>>
command == <<output, proc, exit, sent>>
client  == <<runner, missing>>

Over  == {"returned", "failed"}
Codes == {"zero", "other", "255", "-1"}

SshTypeOK ==
  /\ runner \in Runners
  /\ output \in Outputs
  /\ missing \in SUBSET {"key", "cert"}
  /\ pc \in {"start", "connect", "exec", "stdout", "stderr", "status",
             "communicate", "result", "close"} \cup Over
  /\ proc \in {"none", "running", "exited"}
  /\ exit \in {"none", "zero", "other", "255", "signal"}
  /\ sent \in 0..Len(output)
  /\ inbox \in [Streams -> 0..Window]
  /\ got \in [Streams -> 0..sent]
  /\ conn \in {"none", "up", "lost", "down", "closed"}
  /\ dropped \in BOOLEAN
  /\ status \in {"none"} \cup Codes
  /\ code \in {"none"} \cup Codes
  /\ result \in {"none", "ok", "error"}

\* The generic context may name a key; the CINECA one has a key and a
\* certificate, by default those of the hpc.
Named(r) == CASE r = "cineca" -> {"key", "cert"}
              [] r = "generic" -> {"key"}
              [] OTHER -> {}

SshInit ==
  /\ runner \in Runners
  /\ output \in Outputs
  /\ missing \in SUBSET Named(runner)
  /\ pc = "start"
  /\ proc = "none"
  /\ exit = "none"
  /\ sent = 0
  /\ inbox = [s \in Streams |-> 0]
  /\ got = [s \in Streams |-> 0]
  /\ conn = "none"
  /\ dropped = FALSE
  /\ status = "none"
  /\ code = "none"
  /\ result = "none"

-----------------------------------------------------------------------------
(* The command, sshd and the network. *)

\* Both streams of a channel share its window; pipes have a buffer each.
Room(s) == IF runner \in Paramiko THEN inbox["out"] + inbox["err"] < Window
           ELSE inbox[s] < Window

Write ==
  /\ proc = "running"
  /\ sent < Len(output)
  /\ IF conn = "up"
       THEN LET s == output[sent + 1].to
            IN  Room(s) /\ inbox' = [inbox EXCEPT ![s] = @ + 1]
       ELSE UNCHANGED inbox
  /\ sent' = sent + 1
  /\ UNCHANGED <<client, output, pc, proc, exit, got, conn, dropped, status, code, result>>

\* What the far end reports: paramiko has no status for a command that was
\* killed, ssh(1) ends with 255, subprocess with minus the signal.
Reported(e) ==
  IF e # "signal" THEN e
  ELSE CASE runner \in Paramiko -> "-1"
         [] runner = "simple" -> "255"
         [] OTHER -> "other"

Ends(how) ==
  /\ proc = "running"
  /\ exit' \in how
  /\ proc' = "exited"
  /\ status' = IF conn = "up" THEN Reported(exit') ELSE status
  /\ UNCHANGED <<client, output, pc, sent, inbox, got, conn, dropped, code, result>>

Exit == sent = Len(output) /\ Ends({"zero", "other", "255"})

\* A command may give up or be killed before it has printed everything.
Die == Ends({"other", "signal"})

\* The connection is lost, and with it what was under way; the command goes on.
Drop ==
  /\ conn = "up"
  /\ runner # "local"
  /\ conn' = "lost"
  /\ dropped' = TRUE
  /\ \E kept \in [Streams -> 0..Window] :
       /\ \A s \in Streams : kept[s] <= inbox[s]
       /\ inbox' = kept
  /\ status' \in {status, "none"}
  /\ UNCHANGED <<client, command, pc, got, code, result>>

\* The transport notices; without timeout and keepalive it may never do so.
Notice ==
  /\ conn = "lost"
  /\ conn' = "down"
  /\ UNCHANGED <<client, command, pc, inbox, got, dropped, status, code, result>>

-----------------------------------------------------------------------------
(* The runner. *)

Raise == result' = "error" /\ pc' = "close"
Refuse == result' = "error" /\ pc' = "failed"

CheckFiles ==
  /\ pc = "start"
  /\ runner \in Paramiko
  /\ IF missing = {} THEN pc' = "connect" /\ UNCHANGED result ELSE Refuse
  /\ UNCHANGED <<client, command, inbox, got, conn, dropped, status, code>>

\* _load_private_key raises, or subprocess cannot start the program.
CannotStart ==
  /\ pc = "start"
  /\ missing = {}
  /\ Refuse
  /\ UNCHANGED <<client, command, inbox, got, conn, dropped, status, code>>

StartCommand(next) ==
  /\ proc' = "running"
  /\ pc' = next

StartProcess ==
  /\ pc = "start"
  /\ \/ runner = "simple" /\ pc' = "connect" /\ UNCHANGED <<proc, conn>>
     \/ runner = "local" /\ StartCommand("communicate") /\ conn' = "up"
  /\ UNCHANGED <<client, output, exit, sent, inbox, got, dropped, status, code, result>>

Connect ==
  /\ pc = "connect"
  /\ conn' = "up"
  /\ IF runner = "simple" THEN StartCommand("communicate")
     ELSE pc' = "exec" /\ UNCHANGED proc
  /\ UNCHANGED <<client, output, exit, sent, inbox, got, dropped, status, code, result>>

\* connect raises, or ssh(1) reports it with its reserved code.
ConnectFails ==
  /\ pc = "connect"
  /\ IF runner = "simple" THEN pc' = "result" /\ code' = "255" /\ UNCHANGED result
     ELSE Raise /\ UNCHANGED code
  /\ UNCHANGED <<client, command, inbox, got, conn, dropped, status>>

\* A bug for the mutants: the status is asked for before the output is read.
ExecThenStatus ==
  /\ pc = "exec"
  /\ conn = "up"
  /\ StartCommand("status")
  /\ UNCHANGED <<client, output, exit, sent, inbox, got, conn, dropped, status, code, result>>

Exec ==
  /\ pc = "exec"
  /\ conn = "up"
  /\ StartCommand("stdout")
  /\ UNCHANGED <<client, output, exit, sent, inbox, got, conn, dropped, status, code, result>>

\* A bug for the mutants: the client is not closed by a finally clause.
ExecRaises ==
  /\ pc = "exec"
  /\ Refuse
  /\ UNCHANGED <<client, command, inbox, got, conn, dropped, status, code>>

\* The channel is refused, or the connection is lost before the answer: the
\* command may have been started.
ExecFails ==
  /\ pc = "exec"
  /\ Raise
  /\ proc' \in {"none"} \cup (IF conn = "up" THEN {} ELSE {"running"})
  /\ UNCHANGED <<client, output, exit, sent, inbox, got, conn, dropped, status, code>>

\* The streams that are being read.
Reading == CASE pc = "stdout" -> {"out"}
             [] pc = "stderr" -> {"err"}
             [] pc = "communicate" -> Streams
             [] OTHER -> {}

Read ==
  /\ \E s \in Reading :
       /\ inbox[s] > 0
       /\ inbox' = [inbox EXCEPT ![s] = @ - 1]
       /\ got' = [got EXCEPT ![s] = @ + 1]
  /\ UNCHANGED <<client, command, pc, conn, dropped, status, code, result>>

\* A bug for the mutants: the output ends when the command does.
EndsWithCommand ==
  /\ Reading # {}
  /\ status # "none"

\* A stream ends when the command is over, or the channel is known to be.
AtEnd ==
  /\ Reading # {}
  /\ \A s \in Reading : inbox[s] = 0
  /\ \/ proc = "exited" /\ conn = "up"
     \/ conn = "down"

EndOfOutput ==
  /\ AtEnd
  /\ CASE pc = "stdout" -> pc' = "stderr" /\ UNCHANGED code
       [] pc = "stderr" -> pc' = "status" /\ UNCHANGED code
       [] OTHER -> pc' = "result" /\ code' = IF conn = "down" THEN "255" ELSE status
  /\ UNCHANGED <<client, command, inbox, got, conn, dropped, status, result>>

\* A bug for the mutants: no exit status is taken for success.
StatusOrZero == IF status \in {"none", "-1"} THEN "zero" ELSE status

\* recv_exit_status returns -1 when the channel closed without one.
StatusOrNone == IF status = "none" THEN "-1" ELSE status

RecvExitStatus ==
  /\ pc = "status"
  /\ status # "none" \/ conn = "down"
  /\ code' = StatusOrNone
  /\ pc' = "result"
  /\ UNCHANGED <<client, command, inbox, got, conn, dropped, status, result>>

\* Those of the lines that are in S, in order: SelectSeq, for a set, and with a
\* definition that a proof can expand.
Only(lines, S) ==
  LET only[n \in 0..Len(lines)] ==
        IF n = 0 THEN <<>>
        ELSE IF lines[n] \in S THEN Append(only[n - 1], lines[n]) ELSE only[n - 1]
  IN  only[Len(lines)]
To(s) == {l \in Lines : l.to = s}

\* The lines of stream s that were read.
TextOf(s) == SubSeq(Only(output, To(s)), 1, got[s])

is_connection_closed ==
  \/ code \in {"-1", "255"}
  \/ \E k \in 1..got["err"] : k <= HeadLines /\ TextOf("err")[k].says = "closed"

MakeResult ==
  /\ pc = "result"
  /\ result' = IF runner \in {"cineca", "simple"} /\ is_connection_closed
               THEN "error" ELSE "ok"
  /\ pc' = "close"
  /\ UNCHANGED <<client, command, inbox, got, conn, dropped, status, code>>

\* text=True is strict: output that is not UTF-8 raises after the command ran.
Undecodable ==
  /\ pc = "result"
  /\ runner \in Piped
  /\ \E s \in Streams : got[s] > 0
  /\ Raise
  /\ UNCHANGED <<client, command, inbox, got, conn, dropped, status, code>>

\* finally: client.close(), or the process is reaped.
Close ==
  /\ pc = "close"
  /\ conn' = IF conn = "none" THEN "none" ELSE "closed"
  /\ pc' = IF result = "ok" THEN "returned" ELSE "failed"
  /\ UNCHANGED <<client, command, inbox, got, dropped, status, code, result>>

RunnerStep ==
  \/ CheckFiles \/ CannotStart \/ StartProcess \/ Connect \/ ConnectFails
  \/ Exec \/ ExecFails \/ Read \/ EndOfOutput \/ RecvExitStatus
  \/ MakeResult \/ Undecodable \/ Close

SshNext == Write \/ Exit \/ Die \/ Drop \/ Notice \/ RunnerStep

\* Commands end and the runner's thread runs on; nobody has to notice a loss.
SshFairness == WF_sshVars(RunnerStep) /\ WF_sshVars(Write) /\ WF_sshVars(Exit)

SshSpec == SshInit /\ [][SshNext]_sshVars /\ SshFairness

-----------------------------------------------------------------------------
(* Properties. *)

\* A return code of zero is that of the command, and comes with all it printed
\* unless the connection was lost after the status (_generic.py 167-176).
ZeroIsComplete ==
  pc = "returned" /\ code = "zero" =>
    /\ exit = "zero"
    /\ \/ dropped
       \/ \A s \in Streams : TextOf(s) = Only(output, To(s))

\* Whatever raises, no connection outlives its run (_generic.py 177-178).
ConnectionClosed == pc \in Over => conn \in {"none", "closed"}

\* stderr never fills the window, and leaves a place for what follows.
Fits == \A k \in 1..Len(output) :
  Cardinality({i \in 1..(k - 1) : output[i].to = "err"}) < Window

\* Reading before waiting for the status (_cineca.py 166-171) lets every command
\* finish and its run return: on a channel if stderr fits, through pipes always;
\* and unless the connection is lost without anyone telling.
EveryCommandReturns ==
  Fits \/ runner \in Piped ~> pc \in Over \/ conn = "lost"

Phase == CASE pc = "returned" -> IF runner = "generic" /\ code = "-1" THEN "failed" ELSE pc
           [] pc = "failed" -> pc
           [] OTHER -> "called"
Effect == CASE proc = "none" -> "none"
            [] proc = "running" -> "active"
            [] OTHER -> IF exit = "zero" THEN "success" ELSE "failure"
Said == IF Phase # "returned" THEN "none"
        ELSE IF code = "zero" THEN "success" ELSE "failure"

Contract == INSTANCE CommandRun WITH phase <- Phase, effect <- Effect, reported <- Said

\* The four runners keep the contract of _types.py 63-83, once the generic
\* runner's -1, which every caller takes for a failure, is taken for one here.
ImplementsCommandRun == Contract!CommandRunSpec

\* _cineca.py 166-168 and _generic.py 167-170: "Read output BEFORE waiting for
\* exit status to avoid deadlock".  It does not when stderr fills the window.
NoDeadlock == TRUE ~> pc \in Over \/ conn = "lost"

\* _types.py 66-69: a run "blocks until the command finishes", and any error is
\* returned as an OpError.
FinishedOrError == pc = "returned" => proc = "exited"
=============================================================================
