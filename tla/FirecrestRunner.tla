--------------------------- MODULE FirecrestRunner ---------------------------
(***************************************************************************)
(* A CscsFirecrestCommandRunner (cmd_runners/_cscs_firecrest.py) that is    *)
(* used for several commands while its credential files are replaced.  Each *)
(* run hashes the files, builds a new client if they changed, and sends the *)
(* command as a Slurm job whose output it reads back from files.            *)
(*                                                                         *)
(* A credential file holds version 1, 2, ..., or is missing or empty for a   *)
(* while.                                                                   *)
(***************************************************************************)
EXTENDS Integers

CONSTANTS
  Files,        \* credential files of the context
  MaxRotations, \* bound on changes of a file
  MaxCalls,     \* bound on commands
  MaxFaults     \* bound on failed requests

ASSUME FilesAssumption == Files # {}
ASSUME FirecrestBoundsAssumption ==
  MaxRotations \in Nat /\ MaxCalls \in Nat /\ MaxFaults \in Nat

VARIABLES
  pc,
  disk,    \* file -> its content
  changed, \* did a file change since this run began? "no" or "yes" (history)
  todo,    \* files still to hash or to read
  seen,    \* file -> the hash just computed, or the content just read
  sig,     \* _credential_signature
  client,  \* file -> what _client was built from
  rebuild, \* how the last build ended, "done" or "raised" (history)
  scratch, \* _resolved_scratch_dir: "none", or "known"
  job,     \* the wrapper job: "none", "active", "success" or "failure"
  rc,      \* the rc file: "absent", or the command's exit code
  code,    \* the return code of the result: "zero", "other", "unknown" for -1
  tries,   \* attempts of this view that failed
  calls, faults

files == <<disk, changed>>
creds == <<todo, seen, sig, client, rebuild>>
cmd == <<job, rc, scratch>>
res == <<code, tries>>
vars == <<pc, files, creds, cmd, res, calls, faults>>

Versions == 1..(MaxRotations + 1)
File(v, c) == [version |-> v, content |-> c]
Contents == [version : Versions, content : {"whole", "missing", "empty"}]
Usable(c) == c.content = "whole"

\* What stands for the content of a file: its version, or a value of its own
\* when it is missing, and one when it is empty.
NoHash == 0
Missing == -1
Empty == -2
Hash(c) == CASE c.content = "whole" -> c.version
             [] c.content = "missing" -> Missing
             [] c.content = "empty" -> Empty

Over == {"returned", "failed", "raised"}

TypeOK ==
  /\ pc \in {"new", "idle", "hash", "build", "scratch", "submit", "wait", "stdout", "stderr", "rc"}
            \cup Over
  /\ disk \in [Files -> Contents] /\ changed \in {"no", "yes"}
  /\ todo \in SUBSET Files
  /\ seen \in [Files -> {Empty, Missing, NoHash} \cup Versions]
  /\ sig \in [Files -> {Empty, Missing, NoHash} \cup Versions]
  /\ client \in [Files -> {NoHash} \cup Versions]
  /\ rebuild \in {"done", "raised"}
  /\ scratch \in {"none", "known"}
  /\ job \in {"none", "active", "success", "failure"}
  /\ rc \in {"absent", "zero", "other"}
  /\ code \in {"none", "zero", "other", "unknown"}
  /\ tries \in 0..1 /\ calls \in 0..MaxCalls /\ faults \in 0..MaxFaults

None == [f \in Files |-> NoHash]

Init ==
  /\ pc = "new"
  /\ disk = [f \in Files |-> File(1, "whole")] /\ changed = "no"
  /\ todo = {} /\ seen = None /\ sig = None /\ client = None /\ rebuild = "done"
  /\ scratch \in {"none", "known"}
  /\ job = "none" /\ rc = "absent"
  /\ code = "none" /\ tries = 0
  /\ calls = 0 /\ faults = 0

Fault == faults < MaxFaults /\ faults' = faults + 1

-----------------------------------------------------------------------------
(* Credentials. *)

\* The constructor, or a run, computes the signature of what is on disk.
Hashing ==
  /\ pc' = "hash"
  /\ changed' = "no"
  /\ todo' = Files
  /\ UNCHANGED <<disk, seen, sig, client, rebuild, faults>>

Construct ==
  /\ pc = "new"
  /\ Hashing
  /\ UNCHANGED <<cmd, res, calls>>

\* Also a run that raised may be followed by another.
Call ==
  /\ pc \in {"idle"} \cup Over
  /\ client # None
  /\ calls < MaxCalls
  /\ calls' = calls + 1
  /\ Hashing
  /\ job' = "none" /\ rc' = "absent" /\ UNCHANGED scratch
  /\ code' = "none" /\ tries' = 0

HashFile(f) ==
  /\ pc = "hash"
  /\ f \in todo
  /\ seen' = [seen EXCEPT ![f] = Hash(disk[f])]
  /\ todo' = todo \ {f}
  /\ UNCHANGED <<pc, files, sig, client, rebuild, cmd, res, calls, faults>>

\* The file is removed between is_file() and read_bytes().  The exception leaves
\* the constructor or the run as one of _build_client does, with the signature
\* and the client still those of the last run.
HashRaises(f) ==
  /\ pc = "hash"
  /\ f \in todo
  /\ disk[f].content # "missing"
  /\ disk' = [disk EXCEPT ![f].content = "missing"] /\ changed' = "yes"
  /\ pc' = "raised"
  /\ UNCHANGED <<creds, cmd, res, calls, faults>>

\* A bug for the mutants: the key decides alone whether the client is rebuilt.
CompareAny ==
  /\ pc = "hash"
  /\ todo = {}
  /\ IF \E f \in Files : seen[f] = sig[f]
     THEN pc' = "scratch" /\ UNCHANGED <<todo, sig>>
     ELSE pc' = "build" /\ sig' = seen /\ todo' = Files
  /\ UNCHANGED <<files, seen, client, rebuild, cmd, res, calls, faults>>

Compare ==
  /\ pc = "hash"
  /\ todo = {}
  /\ IF seen = sig
     THEN pc' = "scratch" /\ UNCHANGED <<todo, sig>>
     ELSE pc' = "build" /\ sig' = seen /\ todo' = Files
  /\ UNCHANGED <<files, seen, client, rebuild, cmd, res, calls, faults>>

\* _resolve_secret reads the file again.
ReadFile(f) ==
  /\ pc = "build"
  /\ f \in todo
  /\ Usable(disk[f])
  /\ seen' = [seen EXCEPT ![f] = disk[f].version]
  /\ todo' = todo \ {f}
  /\ UNCHANGED <<pc, files, sig, client, rebuild, cmd, res, calls, faults>>

\* There is nothing in it: the exception of _build_client leaves the
\* constructor, of which no runner remains, or the run.
ReadRaises(f) ==
  /\ pc = "build"
  /\ f \in todo
  /\ ~Usable(disk[f])
  /\ pc' = "raised" /\ rebuild' = "raised"
  /\ UNCHANGED <<files, todo, seen, sig, client, cmd, res, calls, faults>>

Built ==
  /\ pc = "build"
  /\ todo = {}
  /\ client' = seen /\ rebuild' = "done"
  /\ pc' = IF client = None THEN "idle" ELSE "scratch"
  /\ UNCHANGED <<files, todo, seen, sig, cmd, res, calls, faults>>

-----------------------------------------------------------------------------
(* The command: _run. *)

\* _get_scratch_dir: unless the context names it, the first run that is not
\* refused looks it up and keeps it.
GetScratchDir ==
  /\ pc = "scratch"
  /\ pc' = "submit"
  /\ scratch' = "known"
  /\ UNCHANGED <<files, creds, job, rc, res, calls, faults>>

\* The service accepts the job; its answer may be lost or hold no job id.
Submit ==
  /\ pc = "submit"
  /\ job' = "active"
  /\ \/ pc' = "wait" /\ UNCHANGED faults
     \/ pc' = "failed" /\ Fault
  /\ UNCHANGED <<files, creds, rc, scratch, res, calls>>

\* wait_for_job returns once the job is over.
WaitEnds ==
  /\ pc = "wait"
  /\ job # "active"
  /\ pc' = "stdout"
  /\ UNCHANGED <<files, creds, cmd, res, calls, faults>>

AfterView == pc' = CASE pc = "stdout" -> "stderr" [] pc = "stderr" -> "rc" [] pc = "rc" -> "returned"

\* A bug for the mutants: a missing exit code is a success.
ReturnCodeOrZero(text) == IF text = "absent" THEN "zero" ELSE text

ReturnCode(text) == IF text = "absent" THEN "unknown" ELSE text

\* _safe_view returns the text of a file, "absent" for none.
Viewed(text) ==
  /\ AfterView
  /\ code' = IF pc = "rc" THEN ReturnCode(text) ELSE code
  /\ tries' = 0

View ==
  /\ pc \in {"stdout", "stderr", "rc"}
  /\ Viewed(rc)
  /\ UNCHANGED <<files, creds, cmd, calls, faults>>

\* Any FirecrestException is taken for a missing file.
ViewRefused ==
  /\ pc \in {"stdout", "stderr", "rc"}
  /\ Fault
  /\ Viewed("absent")
  /\ UNCHANGED <<files, creds, cmd, calls>>

\* The connection was dropped: once it is tried again, on a new session.
ViewDropped ==
  /\ pc \in {"stdout", "stderr", "rc"}
  /\ Fault
  /\ IF tries = 0
     THEN tries' = 1 /\ UNCHANGED pc
     ELSE pc' = "failed" /\ UNCHANGED tries
  /\ UNCHANGED <<files, creds, cmd, code, calls>>

\* The scratch directory is to be looked up and is not found.
ScratchFails ==
  /\ pc = "scratch"
  /\ scratch = "none"
  /\ Fault
  /\ pc' = "failed"
  /\ UNCHANGED <<files, creds, cmd, res, calls>>

\* The service refuses the job, or waiting for it fails or takes too long.
RequestFails ==
  /\ pc \in {"submit", "wait"}
  /\ Fault
  /\ pc' = "failed"
  /\ UNCHANGED <<files, creds, cmd, res, calls>>

-----------------------------------------------------------------------------
(* The environment. *)

\* A file gets its next version, or is removed, emptied or restored.
Rotate(f) ==
  /\ \/ /\ disk[f].version <= MaxRotations
        /\ disk' = [disk EXCEPT ![f] = File(@.version + 1, "whole")]
     \/ \E c \in {"whole", "missing", "empty"} \ {disk[f].content} :
          disk' = [disk EXCEPT ![f].content = c]
  /\ changed' = "yes"
  /\ UNCHANGED <<pc, creds, cmd, res, calls, faults>>

\* The script of the job ends.  Its last line writes the exit code, unless the
\* command ends the shell or the job is killed before.
JobEnds ==
  /\ job = "active"
  /\ \E o \in {"success", "failure"} :
       /\ job' = o
       /\ rc' \in {"absent", IF o = "success" THEN "zero" ELSE "other"}
  /\ UNCHANGED <<pc, files, creds, scratch, res, calls, faults>>

Next ==
  \/ Construct \/ Call
  \/ \E f \in Files : HashFile(f) \/ HashRaises(f) \/ ReadFile(f) \/ ReadRaises(f) \/ Rotate(f)
  \/ Compare \/ Built
  \/ GetScratchDir \/ ScratchFails \/ Submit \/ WaitEnds \/ View \/ ViewRefused \/ ViewDropped \/ RequestFails
  \/ JobEnds

FirecrestSpec == Init /\ [][Next]_vars

-----------------------------------------------------------------------------
(* Properties. *)

InUse ==
  pc = "scratch" /\ changed = "no" /\ (\A f \in Files : Usable(disk[f]))

\* A run uses the credentials that are on disk, unless a file changes while it
\* starts: no order of rotations, hashes, reads and runs leaves an old client
\* under the signature of newer files (_cscs_firecrest.py 138-142, 165-171).
\* After a build that raised it may, see ClientAlwaysFollowsDisk.
ClientFollowsDisk ==
  InUse /\ rebuild = "done" => client = [f \in Files |-> disk[f].version]

\* _cscs_firecrest.py 140-141: "rebuild the client whenever the bytes on disk
\* change".  The code keeps the new signature of files that it then cannot
\* read, and once they can be read again takes the old client to be theirs.
ClientAlwaysFollowsDisk == InUse => client = [f \in Files |-> disk[f].version]

Run == INSTANCE CommandRun WITH
  phase <- IF pc = "returned" THEN "returned"
           ELSE IF pc \in {"failed", "raised"} THEN "failed" ELSE "called",
  effect <- job,
  reported <- IF pc # "returned" THEN "none"
              ELSE CASE code = "zero" -> "success"
                     [] code = "other" -> "failure"
                     [] code = "unknown" -> "unknown"

\* The runner keeps the contract of _types.py 63-83, if raising is failing.
ImplementsCommandRun == Run!CommandRunSpec

\* _types.py 68-69: errors are to be returned, "rather than being raised".
ErrorsAreReturned == pc # "raised"
=============================================================================
