--------------------------- MODULE FirecrestProofs ---------------------------
(***************************************************************************)
(* A FirecREST runner uses the credentials on disk, and keeps the contract   *)
(* of CommandRun, for any set of credential files and any number of their    *)
(* rotations, of commands and of failed requests.                          *)
(***************************************************************************)
EXTENDS FirecrestRunner, TLAPS

-----------------------------------------------------------------------------
(* The credentials, and the types. *)

\* What is known of a file has a version it had, and what was found since this
\* run began is what it has unless a file changed.
FoundOf(f) ==
  /\ sig[f] <= disk[f].version
  /\ pc = "hash" /\ f \notin todo =>
       /\ seen[f] # NoHash
       /\ seen[f] <= disk[f].version
       /\ changed = "no" => seen[f] = Hash(disk[f])
  /\ pc = "build" /\ f \notin todo =>
       /\ seen[f] \in Versions
       /\ sig[f] <= seen[f] /\ seen[f] <= disk[f].version
       /\ changed = "no" => seen[f] = disk[f].version

\* The client is not older than its signature.
ClientOf(f) ==
  /\ client[f] <= disk[f].version
  /\ rebuild = "done" /\ pc # "build" => sig[f] <= client[f] \/ sig[f] \notin Versions

CredInv ==
  /\ \A f \in Files : FoundOf(f) /\ ClientOf(f)
  /\ ClientFollowsDisk

LEMMA HashType ==
  ASSUME NEW c \in Contents
  PROVE  /\ Hash(c) \in {Empty, Missing} \cup Versions
         /\ Usable(c) => Hash(c) = c.version
         /\ Hash(c) <= c.version
  BY FirecrestBoundsAssumption DEF Contents, Hash, Usable, Empty, Missing, Versions

LEMMA FaultType == TypeOK /\ (Fault \/ faults' = faults) => faults' \in 0..MaxFaults
  BY FirecrestBoundsAssumption DEF Fault, TypeOK

LEMMA InitType == Init => TypeOK
<1> SUFFICES ASSUME Init PROVE TypeOK
  OBVIOUS
<1>1. 1 \in Versions /\ 0 \in 0..MaxFaults /\ 0 \in 0..MaxCalls
  BY FirecrestBoundsAssumption DEF Versions
<1>2. disk \in [Files -> Contents]
  BY <1>1 DEF Init, File, Contents
<1> QED
  BY <1>1, <1>2 DEF Init, TypeOK, None, Over

Credentials ==
  Construct \/ Call \/ Compare \/ Built
  \/ \E f \in Files : HashFile(f) \/ HashRaises(f) \/ ReadFile(f) \/ ReadRaises(f)
Command ==
  GetScratchDir \/ ScratchFails \/ Submit \/ WaitEnds \/ View \/ ViewRefused
  \/ ViewDropped \/ RequestFails
Environment == JobEnds \/ \E f \in Files : Rotate(f)

LEMMA NextCases == Next <=> Credentials \/ Command \/ Environment
  BY DEF Next, Credentials, Command, Environment

\* A file that is removed keeps its version.
LEMMA RemovalEffect ==
  ASSUME TypeOK, NEW f \in Files, HashRaises(f)
  PROVE  /\ disk' \in [Files -> Contents]
         /\ \A g \in Files : disk'[g].version = disk[g].version
<1>1. disk' = [disk EXCEPT ![f] = [disk[f] EXCEPT !.content = "missing"]]
  BY DEF HashRaises
<1>2. /\ [disk[f] EXCEPT !.content = "missing"] \in Contents
      /\ [disk[f] EXCEPT !.content = "missing"].version = disk[f].version
  BY DEF TypeOK, Contents
<1> QED
  BY <1>1, <1>2 DEF TypeOK

LEMMA CredentialsType == TypeOK /\ CredInv /\ Credentials => TypeOK'
<1> SUFFICES ASSUME TypeOK, CredInv, Credentials PROVE TypeOK'
  OBVIOUS
<1> USE DEF TypeOK, Over, files, creds, cmd, res
<1>1. CASE Construct
  BY <1>1 DEF Construct, Hashing
<1>2. CASE Call
  BY <1>2, FirecrestBoundsAssumption DEF Call, Hashing
<1>3. CASE Compare
  BY <1>3 DEF Compare
<1>4. CASE Built
  <2>1. client' = seen /\ pc' \in {"idle", "scratch"} /\ rebuild' = "done"
    BY <1>4 DEF Built
  <2>2. \A f \in Files : seen[f] \in Versions
    BY <1>4 DEF Built, CredInv, FoundOf
  <2>3. client' \in [Files -> {NoHash} \cup Versions]
    BY <2>1, <2>2
  <2> QED
    BY <1>4, <2>1, <2>3 DEF Built
<1>5. ASSUME NEW f \in Files, HashFile(f) PROVE TypeOK'
  <2>1. Hash(disk[f]) \in {Empty, Missing} \cup Versions
    BY HashType
  <2>2. seen' \in [Files -> {Empty, Missing, NoHash} \cup Versions]
    BY <1>5, <2>1 DEF HashFile
  <2> QED
    BY <1>5, <2>2 DEF HashFile
<1>6. ASSUME NEW f \in Files, ReadFile(f) PROVE TypeOK'
  <2>1. disk[f].version \in Versions
    BY DEF Contents
  <2>2. seen' \in [Files -> {Empty, Missing, NoHash} \cup Versions]
    BY <1>6, <2>1 DEF ReadFile
  <2> QED
    BY <1>6, <2>2 DEF ReadFile
<1>7. ASSUME NEW f \in Files, ReadRaises(f) PROVE TypeOK'
  BY <1>7 DEF ReadRaises
<1>8. ASSUME NEW f \in Files, HashRaises(f) PROVE TypeOK'
  <2>1. disk' \in [Files -> Contents]
    BY <1>8, RemovalEffect
  <2> QED
    BY <1>8, <2>1 DEF HashRaises
<1> QED
  BY <1>1, <1>2, <1>3, <1>4, <1>5, <1>6, <1>7, <1>8 DEF Credentials

LEMMA CommandType == TypeOK /\ Command => TypeOK'
<1> SUFFICES ASSUME TypeOK, Command PROVE TypeOK'
  OBVIOUS
<1>1. faults' \in 0..MaxFaults
  BY FaultType DEF Command, GetScratchDir, ScratchFails, Submit, WaitEnds, View, ViewRefused,
     ViewDropped, RequestFails
<1> USE <1>1 DEF TypeOK, Over, files, creds, cmd, res
<1>2. CASE GetScratchDir \/ ScratchFails \/ WaitEnds \/ RequestFails
  BY <1>2 DEF GetScratchDir, ScratchFails, WaitEnds, RequestFails
<1>3. CASE Submit
  BY <1>3 DEF Submit
<1>4. CASE View \/ ViewRefused
  BY <1>4 DEF View, ViewRefused, Viewed, AfterView, ReturnCode
<1>5. CASE ViewDropped
  BY <1>5 DEF ViewDropped
<1> QED
  BY <1>2, <1>3, <1>4, <1>5 DEF Command

\* A file changes to another version, or loses or regains its content.
LEMMA RotateEffect ==
  ASSUME TypeOK, NEW f \in Files, Rotate(f)
  PROVE  /\ disk' \in [Files -> Contents]
         /\ \A g \in Files : disk[g].version <= disk'[g].version
<1>1. CASE /\ disk[f].version <= MaxRotations
           /\ disk' = [disk EXCEPT ![f] = File(@.version + 1, "whole")]
  <2>1. disk[f].version \in Nat /\ disk[f].version + 1 \in Versions
    BY <1>1, FirecrestBoundsAssumption DEF TypeOK, Contents, Versions
  <2>2. /\ File(disk[f].version + 1, "whole") \in Contents
        /\ File(disk[f].version + 1, "whole").version = disk[f].version + 1
    BY <2>1 DEF File, Contents
  <2>3. \A g \in Files : disk[g].version \in Nat
    BY FirecrestBoundsAssumption DEF TypeOK, Contents, Versions
  <2> QED
    BY <1>1, <2>1, <2>2, <2>3 DEF TypeOK
<1>2. CASE \E c \in {"whole", "missing", "empty"} \ {disk[f].content} :
             disk' = [disk EXCEPT ![f].content = c]
  <2>1. PICK c \in {"whole", "missing", "empty"} : disk' = [disk EXCEPT ![f].content = c]
    BY <1>2
  <2>2. \A g \in Files : disk[g].version \in Nat
    BY FirecrestBoundsAssumption DEF TypeOK, Contents, Versions
  <2>3. [disk[f] EXCEPT !.content = c] \in Contents
    BY DEF TypeOK, Contents
  <2>4. disk' = [disk EXCEPT ![f] = [disk[f] EXCEPT !.content = c]]
    BY <2>1
  <2>5. [disk[f] EXCEPT !.content = c].version = disk[f].version
    BY DEF TypeOK, Contents
  <2> QED
    BY <2>2, <2>3, <2>4, <2>5 DEF TypeOK
<1> QED
  BY <1>1, <1>2 DEF Rotate

LEMMA EnvironmentType == TypeOK /\ Environment => TypeOK'
<1> SUFFICES ASSUME TypeOK, Environment PROVE TypeOK'
  OBVIOUS
<1>1. CASE JobEnds
  <2>1. /\ job' \in {"success", "failure"} /\ rc' \in {"absent", "zero", "other"}
        /\ UNCHANGED <<pc, files, creds, scratch, res, calls, faults>>
    BY <1>1 DEF JobEnds
  <2> QED
    BY <2>1 DEF TypeOK, files, creds, res
<1>2. ASSUME NEW f \in Files, Rotate(f) PROVE TypeOK'
  <2>1. disk' \in [Files -> Contents]
    BY <1>2, RotateEffect
  <2>2. changed' = "yes" /\ UNCHANGED <<pc, creds, cmd, res, calls, faults>>
    BY <1>2 DEF Rotate
  <2> QED
    BY <2>1, <2>2 DEF TypeOK, creds, cmd, res
<1> QED
  BY <1>1, <1>2 DEF Environment

LEMMA NextType == TypeOK /\ CredInv /\ [Next]_vars => TypeOK'
<1> SUFFICES ASSUME TypeOK, CredInv, [Next]_vars PROVE TypeOK'
  OBVIOUS
<1>1. CASE UNCHANGED vars
  BY <1>1 DEF vars, files, creds, cmd, res, TypeOK
<1> QED
  BY <1>1, NextCases, CredentialsType, CommandType, EnvironmentType

-----------------------------------------------------------------------------
(* Credentials. *)

LEMMA InitCred == Init => CredInv
<1> SUFFICES ASSUME Init PROVE CredInv
  OBVIOUS
<1>1. \A f \in Files : /\ sig[f] = 0 /\ client[f] = 0 /\ disk[f].version = 1
  BY DEF Init, None, NoHash, File
<1> QED
  BY <1>1, FirecrestBoundsAssumption
     DEF Init, CredInv, FoundOf, ClientOf, ClientFollowsDisk, InUse, Versions

LEMMA NextCred == TypeOK /\ CredInv /\ [Next]_vars => CredInv'
<1> SUFFICES ASSUME TypeOK, CredInv, [Next]_vars PROVE CredInv'
  OBVIOUS
<1>t. /\ \A f \in Files : /\ sig[f] \in Int /\ seen[f] \in Int /\ client[f] \in Int
                          /\ disk[f] \in Contents /\ disk[f].version \in Versions
                          /\ client[f] \in {NoHash} \cup Versions
                          /\ seen[f] \in {Empty, Missing, NoHash} \cup Versions
      /\ \A v \in Versions : v \in Nat \ {0}
  BY FirecrestBoundsAssumption
     DEF TypeOK, Contents, Versions, Empty, Missing, NoHash
\* The steps that leave what is known of files alone, and do not begin to use it.
<1>1. ASSUME UNCHANGED <<files, creds>>, pc' # "hash", pc' # "build", pc # "build",
             pc' = "scratch" => pc = "scratch"
      PROVE  CredInv'
  BY <1>1 DEF files, creds, CredInv, FoundOf, ClientOf, ClientFollowsDisk, InUse
<1>2. CASE Command
  BY <1>1, <1>2
     DEF Command, GetScratchDir, ScratchFails, Submit, WaitEnds, View, ViewRefused,
         ViewDropped, RequestFails, Viewed, AfterView
<1>3. CASE JobEnds \/ UNCHANGED vars
  BY <1>3 DEF JobEnds, vars, files, creds, CredInv, FoundOf, ClientOf, ClientFollowsDisk, InUse
<1>4. ASSUME NEW f \in Files, Rotate(f) PROVE CredInv'
  <2>1. /\ UNCHANGED <<pc, creds>> /\ changed' = "yes"
        /\ \A g \in Files : /\ disk'[g] \in Contents
                            /\ disk[g].version <= disk'[g].version
    BY <1>4, RotateEffect DEF Rotate
  <2>2. \A g \in Files : disk'[g].version \in Nat /\ disk[g].version \in Nat
    BY <2>1, <1>t DEF Contents
  <2>3. ASSUME NEW g \in Files PROVE FoundOf(g)' /\ ClientOf(g)'
    BY <1>t, <2>1, <2>2 DEF CredInv, FoundOf, ClientOf, creds
  <2> QED
    BY <2>1, <2>3 DEF CredInv, ClientFollowsDisk, InUse
<1>5. CASE Construct \/ Call
  <2>1. /\ pc' = "hash" /\ changed' = "no" /\ todo' = Files /\ pc # "build"
        /\ UNCHANGED <<disk, seen, sig, client, rebuild>>
    BY <1>5 DEF Construct, Call, Hashing, Over
  <2> QED
    BY <2>1 DEF CredInv, FoundOf, ClientOf, ClientFollowsDisk, InUse
<1>6. ASSUME NEW f \in Files, HashFile(f) PROVE CredInv'
  <2>1. /\ pc = "hash" /\ pc' = pc /\ todo' = todo \ {f} /\ f \in todo
        /\ seen' = [seen EXCEPT ![f] = Hash(disk[f])]
        /\ UNCHANGED <<disk, changed, sig, client, rebuild>>
    BY <1>6 DEF HashFile, files
  <2>2. Hash(disk[f]) <= disk[f].version /\ Hash(disk[f]) # NoHash
    BY <1>t, HashType DEF NoHash, Empty, Missing
  <2>3. ASSUME NEW g \in Files PROVE FoundOf(g)' /\ ClientOf(g)'
    <3>1. CASE g = f
      <4>1. seen'[g] = Hash(disk[f])
        BY <2>1, <3>1 DEF TypeOK
      <4> QED
        BY <2>1, <2>2, <3>1, <4>1 DEF CredInv, FoundOf, ClientOf
    <3>2. CASE g # f
      <4>1. seen'[g] = seen[g] /\ (g \in todo' <=> g \in todo)
        BY <2>1, <3>2 DEF TypeOK
      <4> QED
        BY <2>1, <4>1 DEF CredInv, FoundOf, ClientOf
    <3> QED
      BY <3>1, <3>2
  <2> QED
    BY <2>1, <2>3 DEF CredInv, ClientFollowsDisk, InUse
<1>7. CASE Compare
  <2>1. /\ pc = "hash" /\ todo = {}
        /\ UNCHANGED <<disk, changed, seen, client, rebuild>>
    BY <1>7 DEF Compare, files
  <2>2. CASE seen = sig
    <3>1. pc' = "scratch" /\ sig' = sig
      BY <1>7, <2>2 DEF Compare
    <3>2. ASSUME NEW g \in Files PROVE FoundOf(g)' /\ ClientOf(g)'
      BY <2>1, <3>1 DEF CredInv, FoundOf, ClientOf
    <3>3. ASSUME InUse', rebuild' = "done", NEW g \in Files PROVE client[g] = disk[g].version
      <4>1. changed = "no" /\ Usable(disk[g])
        BY <2>1, <3>3 DEF InUse
      <4>2. seen[g] = Hash(disk[g])
        BY <2>1, <4>1 DEF CredInv, FoundOf
      <4>3. sig[g] = disk[g].version
        BY <2>2, <4>1, <4>2, <1>t, HashType
      <4>4. sig[g] <= client[g] /\ client[g] <= disk[g].version
        BY <2>1, <3>3, <4>3, <1>t DEF CredInv, ClientOf
      <4> QED
        BY <4>3, <4>4, <1>t
    <3>4. ClientFollowsDisk'
      BY <2>1, <3>3 DEF ClientFollowsDisk, TypeOK
    <3> QED
      BY <3>2, <3>4 DEF CredInv
  <2>3. CASE seen # sig
    <3>1. pc' = "build" /\ sig' = seen /\ todo' = Files
      BY <1>7, <2>3 DEF Compare
    <3> QED
      BY <2>1, <3>1 DEF CredInv, FoundOf, ClientOf, ClientFollowsDisk, InUse
  <2> QED
    BY <2>2, <2>3
<1>8. ASSUME NEW f \in Files, ReadFile(f) PROVE CredInv'
  <2>1. /\ pc = "build" /\ pc' = pc /\ todo' = todo \ {f} /\ f \in todo
        /\ seen' = [seen EXCEPT ![f] = disk[f].version]
        /\ UNCHANGED <<disk, changed, sig, client, rebuild>>
    BY <1>8 DEF ReadFile, files
  <2>2. ASSUME NEW g \in Files PROVE FoundOf(g)' /\ ClientOf(g)'
    <3>1. CASE g = f
      <4>1. seen'[g] = disk[g].version
        BY <2>1, <3>1 DEF TypeOK
      <4> QED
        BY <2>1, <3>1, <4>1, <1>t DEF CredInv, FoundOf, ClientOf
    <3>2. CASE g # f
      <4>1. seen'[g] = seen[g] /\ (g \in todo' <=> g \in todo)
        BY <2>1, <3>2 DEF TypeOK
      <4> QED
        BY <2>1, <4>1 DEF CredInv, FoundOf, ClientOf
    <3> QED
      BY <3>1, <3>2
  <2> QED
    BY <2>1, <2>2 DEF CredInv, ClientFollowsDisk, InUse
<1>9. ASSUME NEW f \in Files, ReadRaises(f) PROVE CredInv'
  <2>1. /\ pc' = "raised" /\ rebuild' = "raised"
        /\ UNCHANGED <<disk, changed, todo, seen, sig, client>>
    BY <1>9 DEF ReadRaises, files
  <2> QED
    BY <2>1 DEF CredInv, FoundOf, ClientOf, ClientFollowsDisk, InUse
<1>10. CASE Built
  <2>1. /\ pc = "build" /\ todo = {} /\ client' = seen /\ pc' \in {"idle", "scratch"}
        /\ UNCHANGED <<disk, changed, todo, seen, sig>>
    BY <1>10 DEF Built, files
  <2>2. ASSUME NEW g \in Files PROVE FoundOf(g)' /\ ClientOf(g)'
    BY <2>1 DEF CredInv, FoundOf, ClientOf
  <2>3. ASSUME changed = "no", NEW g \in Files PROVE seen[g] = disk[g].version
    BY <2>1, <2>3 DEF CredInv, FoundOf
  <2>4. ClientFollowsDisk'
    BY <2>1, <2>3 DEF ClientFollowsDisk, InUse, TypeOK
  <2> QED
    BY <2>2, <2>4 DEF CredInv
<1>11. ASSUME NEW f \in Files, HashRaises(f) PROVE CredInv'
  <2>1. /\ pc' = "raised" /\ changed' = "yes" /\ pc = "hash"
        /\ UNCHANGED <<todo, seen, sig, client, rebuild>>
    BY <1>11 DEF HashRaises, creds
  <2>2. \A g \in Files : disk'[g].version = disk[g].version
    BY <1>11, RemovalEffect
  <2> QED
    BY <2>1, <2>2 DEF CredInv, FoundOf, ClientOf, ClientFollowsDisk, InUse
<1> QED
  BY <1>2, <1>3, <1>4, <1>5, <1>6, <1>7, <1>8, <1>9, <1>10, <1>11, NextCases
     DEF Credentials, Environment

LEMMA FirecrestInvariant == FirecrestSpec => [](TypeOK /\ CredInv)
  BY InitType, NextType, InitCred, NextCred, PTL DEF FirecrestSpec

\* The variables keep their types.
THEOREM FirecrestTypeCorrect == FirecrestSpec => []TypeOK
  BY FirecrestInvariant, PTL

\* No interleaving of rotations with the hashes, the reads and the commands
\* leaves an old client in use under the signature of newer files.
THEOREM ClientIsCurrent == FirecrestSpec => []ClientFollowsDisk
<1>1. CredInv => ClientFollowsDisk
  BY DEF CredInv
<1> QED
  BY <1>1, FirecrestInvariant, PTL

-----------------------------------------------------------------------------
(* The refinement. *)

\* What the job has done by then, and what its exit code tells.
JobInv ==
  /\ pc \in {"new", "idle", "hash", "build", "scratch", "submit"} => job = "none"
  /\ pc = "wait" => job # "none"
  /\ pc \in {"stdout", "stderr", "rc"} => job \in {"success", "failure"}
  /\ rc # "absent" =>
       \/ job = "success" /\ rc = "zero"
       \/ job = "failure" /\ rc = "other"

LEMMA InitJob == Init => JobInv
  BY DEF Init, JobInv

LEMMA NextJob == TypeOK /\ JobInv /\ [Next]_vars => JobInv'
<1> SUFFICES ASSUME TypeOK, JobInv, [Next]_vars PROVE JobInv'
  OBVIOUS
<1> USE DEF JobInv, files, creds, cmd, res
<1>1. CASE Credentials
  <2>1. CASE Call
    BY <2>1 DEF Call, Hashing
  <2>2. CASE ~Call
    <3>1. /\ UNCHANGED cmd
          /\ pc \in {"new", "hash", "build"}
          /\ pc' \notin {"wait", "stdout", "stderr", "rc"}
      BY <1>1, <2>2 DEF Credentials, Construct, Compare, Built, HashFile, HashRaises,
         ReadFile, ReadRaises, Hashing
    <3> QED
      BY <3>1
  <2> QED
    BY <2>1, <2>2
<1>2. CASE Command
  <2>1. CASE GetScratchDir \/ ScratchFails \/ Submit \/ RequestFails
    BY <2>1 DEF GetScratchDir, ScratchFails, Submit, RequestFails
  <2>2. CASE WaitEnds
    <3>1. UNCHANGED cmd /\ pc' = "stdout" /\ pc = "wait" /\ job \in {"none", "success", "failure"}
      BY <2>2 DEF WaitEnds, TypeOK
    <3> QED
      BY <3>1
  <2>3. CASE View \/ ViewRefused \/ ViewDropped
    <3>1. UNCHANGED cmd /\ pc \in {"stdout", "stderr", "rc"}
          /\ pc' \in {"stdout", "stderr", "rc", "returned", "failed"}
      BY <2>3 DEF View, ViewRefused, ViewDropped, Viewed, AfterView
    <3> QED
      BY <3>1
  <2> QED
    BY <1>2, <2>1, <2>2, <2>3 DEF Command
<1>3. CASE Environment
  BY <1>3 DEF Environment, JobEnds, Rotate
<1>4. CASE UNCHANGED vars
  BY <1>4 DEF vars
<1> QED
  BY <1>1, <1>2, <1>3, <1>4, NextCases

LEMMA InitRefines == Init => Run!Init
  BY DEF Init, Run!Init

\* The steps CommandRun does not see.
LEMMA StutterRefines ==
  ASSUME UNCHANGED <<job, code>>, pc \notin Over, pc' \notin Over
  PROVE  UNCHANGED Run!vars
  BY DEF Run!vars, Over

LEMMA FailRefines ==
  ASSUME job' = job, pc \notin Over, pc' \in {"failed", "raised"}
  PROVE  Run!Fail
  BY DEF Run!Fail, Over

LEMMA CredentialsRefines ==
  TypeOK /\ JobInv /\ Credentials => Run!Next \/ UNCHANGED Run!vars
<1> SUFFICES ASSUME TypeOK, JobInv, Credentials PROVE Run!Next \/ UNCHANGED Run!vars
  OBVIOUS
<1>1. CASE Call
  <2>1. job' = "none" /\ pc' = "hash"
    BY <1>1 DEF Call, Hashing
  <2>2. CASE pc = "idle"
    BY <2>1, <2>2 DEF JobInv, Run!vars
  <2>3. CASE pc \in Over
    <3>1. Run!Again
      BY <2>1, <2>3 DEF Run!Again, Over
    <3> QED
      BY <3>1 DEF Run!Next
  <2> QED
    BY <1>1, <2>2, <2>3 DEF Call
<1>2. ASSUME NEW f \in Files, ReadRaises(f) PROVE Run!Next \/ UNCHANGED Run!vars
  BY <1>2, FailRefines DEF ReadRaises, Run!Next, Over, cmd
<1>4. ASSUME NEW f \in Files, HashRaises(f) PROVE Run!Next \/ UNCHANGED Run!vars
  BY <1>4, FailRefines DEF HashRaises, Run!Next, Over, cmd
<1>3. CASE Construct \/ Compare \/ Built \/ \E f \in Files : HashFile(f) \/ ReadFile(f)
  <2>1. UNCHANGED <<job, code>> /\ pc \notin Over /\ pc' \notin Over
    BY <1>3 DEF Construct, Hashing, Compare, Built, HashFile, ReadFile, Over, cmd, res
  <2> QED
    BY <2>1, StutterRefines
<1> QED
  BY <1>1, <1>2, <1>3, <1>4 DEF Credentials

LEMMA CommandRefines ==
  TypeOK /\ JobInv /\ Command => Run!Next \/ UNCHANGED Run!vars
<1> SUFFICES ASSUME TypeOK, JobInv, Command PROVE Run!Next \/ UNCHANGED Run!vars
  OBVIOUS
<1> USE DEF Over, cmd, res
<1>1. CASE GetScratchDir \/ WaitEnds
  <2>1. UNCHANGED <<job, code>> /\ pc \notin Over /\ pc' \notin Over
    BY <1>1 DEF GetScratchDir, WaitEnds
  <2> QED
    BY <2>1, StutterRefines
<1>2. CASE ScratchFails \/ RequestFails
  <2>1. job' = job /\ pc \notin Over /\ pc' = "failed"
    BY <1>2 DEF ScratchFails, RequestFails
  <2> QED
    BY <2>1, FailRefines DEF Run!Next
<1>3. CASE Submit
  <2>1. pc = "submit" /\ job = "none" /\ job' = "active" /\ pc' \in {"wait", "failed"}
    BY <1>3 DEF Submit, JobInv
  <2>2. Run!Start
    BY <2>1 DEF Run!Start
  <2> QED
    BY <2>2 DEF Run!Next
<1>4. ASSUME NEW text \in {"absent", "zero", "other"}, Viewed(text), job' = job,
             pc \in {"stdout", "stderr", "rc"}, text \in {"absent", rc}
      PROVE  Run!Next \/ UNCHANGED Run!vars
  <2>1. CASE pc = "rc"
    <3>1. pc' = "returned" /\ code' = ReturnCode(text) /\ job \in {"success", "failure"}
      BY <1>4, <2>1 DEF Viewed, AfterView, JobInv
    <3>2. \/ text = "absent" /\ code' = "unknown"
          \/ text = "zero" /\ code' = "zero" /\ job = "success"
          \/ text = "other" /\ code' = "other" /\ job = "failure"
      BY <1>4, <3>1 DEF ReturnCode, JobInv
    <3>3. Run!Return
      BY <1>4, <2>1, <3>1, <3>2 DEF Run!Return
    <3> QED
      BY <3>3 DEF Run!Next
  <2>2. CASE pc # "rc"
    <3>1. pc' \in {"stderr", "rc"} /\ code' = code
      BY <1>4, <2>2 DEF Viewed, AfterView
    <3> QED
      BY <1>4, <3>1, StutterRefines
  <2> QED
    BY <2>1, <2>2
<1>5. CASE View
  BY <1>4, <1>5 DEF View, TypeOK
<1>6. CASE ViewRefused
  BY <1>4, <1>6 DEF ViewRefused
<1>7. CASE ViewDropped
  <2>1. UNCHANGED <<job, code>> /\ pc \notin Over /\ pc' \in {pc, "failed"}
    BY <1>7 DEF ViewDropped
  <2> QED
    BY <2>1, StutterRefines, FailRefines DEF Run!Next
<1> QED
  BY <1>1, <1>2, <1>3, <1>5, <1>6, <1>7 DEF Command

LEMMA NextRefines == TypeOK /\ JobInv /\ [Next]_vars => [Run!Next]_(Run!vars)
<1> SUFFICES ASSUME TypeOK, JobInv, [Next]_vars PROVE Run!Next \/ UNCHANGED Run!vars
  OBVIOUS
<1>1. CASE JobEnds
  <2>1. /\ job = "active" /\ job' \in {"success", "failure"}
        /\ pc' = pc /\ code' = code
    BY <1>1 DEF JobEnds, res
  <2>2. Run!Finish
    BY <2>1 DEF Run!Finish
  <2> QED
    BY <2>2 DEF Run!Next
<1>2. ASSUME NEW f \in Files, Rotate(f) PROVE UNCHANGED Run!vars
  BY <1>2 DEF Rotate, cmd, res, Run!vars
<1>3. CASE UNCHANGED vars
  BY <1>3 DEF vars, cmd, res, Run!vars
<1> QED
  BY <1>1, <1>2, <1>3, NextCases, CredentialsRefines, CommandRefines DEF Environment

\* Each command is run as the contract has it, if raising is failing, while the
\* runner is used again and again.
THEOREM FirecrestImplementsCommandRun == FirecrestSpec => ImplementsCommandRun
<1>1. Init => Run!Init
  BY InitRefines
<1>2. TypeOK /\ JobInv /\ [Next]_vars => [Run!Next]_(Run!vars)
  BY NextRefines
<1> QED
  BY <1>1, <1>2, FirecrestInvariant, InitJob, NextJob, PTL
     DEF FirecrestSpec, ImplementsCommandRun, Run!CommandRunSpec
=============================================================================
