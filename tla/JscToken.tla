------------------------------ MODULE JscToken ------------------------------
(***************************************************************************)
(* The bearer token of the JSC runner: the file that scripts/token_jsc.py   *)
(* writes and that every run of JscUnicoreCommandRunner reads before it     *)
(* submits (_jsc.py 191-210).  The script mints a token with a password, a  *)
(* key or an older token, then truncates the file and writes it again; a    *)
(* run may read it at any moment, and the script may stop anywhere.         *)
(*                                                                         *)
(* Tokens are numbered in the order they are issued, 0 being that of an     *)
(* earlier day.  Sites and life times are left out: a token is accepted by  *)
(* every site until it expires.  A gateway that refuses to issue one, since *)
(* the older is not renewable, say, is an end of the script (ScriptStops).  *)
(***************************************************************************)
EXTENDS JscCommand

CONSTANTS
  MaxTokens,   \* bound on the tokens that are issued
  MaxExpiries, \* bound on the tokens that expire
  MaxScripts   \* bound on the calls of the script

ASSUME TokenBoundsAssumption ==
  MaxTokens \in Nat /\ MaxExpiries \in Nat /\ MaxScripts \in Nat

VARIABLES
  given,     \* the token of the context: "file", or "literal" for a str
  file,      \* a token, Empty or Absent
  issued,    \* the last token that was issued
  expired,   \* the tokens the gateway does not accept any more
  at,        \* where the script is
  cred,      \* what it authenticates with until it has a token of its own:
             \* a token or Password
  scripts,   \* how often it was called
  used,      \* the token of the run's client, NotRead before it has one
  found,     \* what the file held when the run began (history)
  torn       \* did a script stop between truncating and writing? (history)

fileVars == <<file, torn>>
gatewayVars == <<issued, expired>>
scriptVars == <<at, cred, scripts>>
clientVars == <<used, found>>
tokenVars == <<given, fileVars, gatewayVars, scriptVars, clientVars>>
allVars == <<vars, tokenVars>>

Tokens == 0..MaxTokens
Empty == -1
Absent == -2
NotRead == -3
Password == -4

JscTypeOK ==
  /\ TypeOK
  /\ given \in {"file", "literal"}
  /\ file \in Tokens \cup {Empty, Absent}
  /\ issued \in Tokens
  /\ expired \in SUBSET Tokens
  /\ at \in {"idle", "sites", "mint", "open", "write"}
  /\ cred \in Tokens \cup {Password}
  /\ scripts \in 0..MaxScripts
  /\ used \in Tokens \cup {Empty, NotRead}
  /\ found \in Tokens \cup {Empty, Absent, NotRead}
  /\ torn \in BOOLEAN

TokenInit ==
  /\ Init
  /\ given \in {"file", "literal"}
  /\ file \in {0, Absent}
  /\ issued = 0
  /\ expired = {}
  /\ at = "idle"
  /\ cred = Password
  /\ scripts = 0
  /\ used = NotRead
  /\ found = NotRead
  /\ torn = FALSE

Accepted(t) == t \in 0..issued /\ t \notin expired

-----------------------------------------------------------------------------
(* scripts/token_jsc.py, one call at a time. *)

\* main: a password, a key, or a token that is saved, pasted or an argument.
\* A call that finds its token file absent or empty ends at once.
StartScript ==
  /\ at = "idle"
  /\ scripts < MaxScripts
  /\ scripts' = scripts + 1
  /\ cred' \in {Password} \cup 0..issued
  /\ at' = "sites"
  /\ UNCHANGED <<vars, given, fileVars, gatewayVars, clientVars>>

\* A bug for the mutants: the file is opened before the token is there.
OpenFirst ==
  /\ at = "sites"
  /\ cred = Password \/ Accepted(cred)
  /\ file' = Empty
  /\ at' = "mint"
  /\ UNCHANGED <<vars, given, torn, gatewayVars, cred, scripts, clientVars>>

\* discover_sites.
DiscoverSites ==
  /\ at = "sites"
  /\ cred = Password \/ Accepted(cred)
  /\ at' = "mint"
  /\ UNCHANGED <<vars, given, fileVars, gatewayVars, cred, scripts, clientVars>>

\* create_token, then --print-only or save_token; its answer may be lost.
CreateToken ==
  /\ at = "mint"
  /\ cred = Password \/ Accepted(cred)
  /\ issued < MaxTokens
  /\ issued' = issued + 1
  /\ at' \in {"idle", "open"}
  /\ cred' = Password
  /\ UNCHANGED <<vars, given, fileVars, expired, scripts, clientVars>>

\* save_token: open(path, "w") truncates.
OpenFile ==
  /\ at = "open"
  /\ file' = Empty
  /\ at' = "write"
  /\ UNCHANGED <<vars, given, torn, gatewayVars, cred, scripts, clientVars>>

\* The file is written as a whole when it is closed.
WriteToken ==
  /\ at = "write"
  /\ file' = issued
  /\ torn' = FALSE
  /\ at' = "idle"
  /\ UNCHANGED <<vars, given, gatewayVars, cred, scripts, clientVars>>

\* A list of sites, a refusal, an error; or the script is killed.
ScriptStops ==
  /\ at # "idle"
  /\ torn' = (torn \/ at = "write")
  /\ at' = "idle"
  /\ cred' = Password
  /\ UNCHANGED <<vars, given, file, gatewayVars, scripts, clientVars>>

Expire ==
  /\ Cardinality(expired) < MaxExpiries
  /\ \E t \in 0..issued \ expired : expired' = expired \cup {t}
  /\ UNCHANGED <<vars, given, fileVars, issued, scriptVars, clientVars>>

-----------------------------------------------------------------------------
(* The run. *)

\* A bug for the mutants: the file is read when the runner is made.
TokenAtStart == 0

\* _load_token: a Path is read again by every run, a str is the token.
TokenNow == IF given = "literal" THEN 0 ELSE file

\* _make_client.
LoadToken ==
  /\ pc = "new"
  /\ used = NotRead
  /\ found' = file
  /\ IF given = "file" /\ file = Absent
     THEN /\ pc' = "failed"
          /\ result' = "error"
          /\ UNCHANGED used
     ELSE /\ used' = TokenNow
          /\ UNCHANGED <<pc, result>>
  /\ UNCHANGED <<job, deleted, exit, written, offset, stdout, code, missed, faults,
                 given, fileVars, gatewayVars, scriptVars>>

\* A request with a token that is not accepted is refused: without a job that
\* is all, else the job cannot be deleted either, and what is suppressed when
\* a request fails is suppressed now.
Refused ==
  /\ used # NotRead
  /\ ~Accepted(used)
  /\ \/ /\ pc \in {"new", "look", "poll", "code"}
        /\ pc' = IF pc = "new" THEN "failed" ELSE "delete"
        /\ result' = "error"
        /\ UNCHANGED missed
     \/ /\ pc \in {"drain", "lastdrain"}
        /\ AfterDrain
        /\ missed' = missed \cup {"drain"}
        /\ UNCHANGED result
     \/ /\ pc = "delete"
        /\ pc' = IF result = "ok" THEN "returned" ELSE "failed"
        /\ missed' = missed \cup {"delete"}
        /\ UNCHANGED result
  /\ UNCHANGED <<job, deleted, exit, written, offset, stdout, code, faults, tokenVars>>

Answered == Accepted(used) /\ Request /\ UNCHANGED tokenVars

\* The run goes on until it returns.
RunStep ==
  \/ LoadToken
  \/ Refused
  \/ Answered
  \/ ReadStderr /\ UNCHANGED tokenVars

TokenNext ==
  \/ RunStep
  \/ Failure /\ used # NotRead /\ UNCHANGED tokenVars
  \/ JobStep /\ UNCHANGED tokenVars
  \/ StartScript \/ DiscoverSites \/ CreateToken \/ OpenFile \/ WriteToken
  \/ ScriptStops \/ Expire

\* The process of the run goes on, and the job runs, writes and ends.
JscFairness ==
  /\ WF_allVars(RunStep)
  /\ WF_allVars(JobRuns /\ UNCHANGED tokenVars)
  /\ WF_allVars(Write /\ UNCHANGED tokenVars)
  /\ WF_allVars(JobEnds /\ UNCHANGED tokenVars)

JscSpec == TokenInit /\ [][TokenNext]_allVars /\ JscFairness

-----------------------------------------------------------------------------
(* Properties. *)

\* Without failed requests, a run that reads the token file ends in an error
\* only if what the file held when it began is no token, or one that is not
\* accepted any more: a rotation before that is seen (_jsc.py 108, 202-210).
RotationsAreSeen ==
  pc = "failed" /\ faults = 0 /\ given = "file" => ~Accepted(found)

\* The saved token is lost only while the script writes the next one, or if
\* one stopped just there: not when the gateway refuses to issue one, or its
\* answer is lost (token_jsc.py 344-348, 622-656).
TokenSurvives == file = Empty => at = "write" \/ torn

\* Every run ends, whatever becomes of its token on the way: an expired one
\* ends it, whichever request notices first (_jsc.py 272-295).
EveryRunEnds == (pc \notin Over) ~> (pc \in Over)

\* _jsc.py 108-109: "re-read on every submission so rotations are picked up".
\* A run that starts while the script writes meets an empty file, although the
\* old token and the new one are both accepted.
RotationIsSeamless ==
  pc = "failed" /\ faults = 0 /\ given = "file" /\ expired = {} /\ ~torn =>
    found = Absent
=============================================================================
