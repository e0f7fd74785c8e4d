----------------------------- MODULE JscProofs -----------------------------
(***************************************************************************)
(* The safety of a run of the JSC runner for any output of its command, any *)
(* number of failed requests, of tokens and of calls of the token script,   *)
(* and its refinement of CommandRun.                                       *)
(***************************************************************************)
EXTENDS JscToken, FiniteSetTheorems, TLAPS

-----------------------------------------------------------------------------
(* Decoding. *)

LEMMA BytesType == Bytes \in Nat /\ Len(CharEnd) \in Nat
<1>1. CASE CharEnd = <<>>
  BY <1>1, OutputAssumption DEF Bytes
<1>2. CASE CharEnd # <<>>
  BY <1>2, OutputAssumption DEF Bytes
<1> QED
  BY <1>1, <1>2

\* A read holds at most as many characters as are printed, each in its place
\* or replaced.
LEMMA DecodeIsInOrder ==
  ASSUME NEW n \in Nat
  PROVE  /\ Decode(n) \in Seq(0..Len(CharEnd))
         /\ Len(Decode(n)) \in 0..Len(CharEnd)
         /\ \A k \in 1..Len(Decode(n)) : Decode(n)[k] \in {k, Cut}
<1> DEFINE m == Cardinality(Begun(n))
<1>1. /\ IsFiniteSet(1..Len(CharEnd))
      /\ Cardinality(1..Len(CharEnd)) = Len(CharEnd)
  BY BytesType, FS_Interval
<1>2. Begun(n) \in SUBSET (1..Len(CharEnd))
  BY DEF Begun
<1>3. IsFiniteSet(Begun(n)) /\ m <= Len(CharEnd)
  BY <1>1, <1>2, FS_Subset
<1>4. m \in 0..Len(CharEnd)
  BY <1>3, FS_CardinalityType, BytesType
<1> HIDE DEF m
<1>5. Decode(n) = [k \in 1..m |-> IF CharEnd[k] <= n THEN k ELSE Cut]
  BY DEF Decode, m
<1> QED
  BY <1>4, <1>5, BytesType DEF Cut

\* A read of all bytes holds all characters.
LEMMA DecodeIsComplete == Len(Decode(Bytes)) = Len(CharEnd)
<1>1. ASSUME NEW k \in 1..Len(CharEnd)  PROVE CharStart(k) <= Bytes
  <2>1. /\ CharEnd[k] \in Nat \ {0}
        /\ k # 1 => CharEnd[k - 1] \in Nat /\ CharEnd[k - 1] < CharEnd[k]
    BY BytesType, OutputAssumption
  <2>2. CharStart(k) <= CharEnd[k]
    BY <2>1 DEF CharStart
  <2>3. Bytes = CharEnd[Len(CharEnd)]
    BY <1>1, OutputAssumption DEF Bytes
  <2>4. CharEnd[k] <= CharEnd[Len(CharEnd)]
    BY <2>1, BytesType, OutputAssumption
  <2>5. CharStart(k) \in Nat
    BY <2>1 DEF CharStart
  <2> QED
    BY <2>1, <2>2, <2>3, <2>4, <2>5, BytesType
<1>2. Begun(Bytes) = 1..Len(CharEnd)
  BY <1>1 DEF Begun
<1>3. Cardinality(1..Len(CharEnd)) = Len(CharEnd)
  BY BytesType, FS_Interval
<1>4. Cardinality(Begun(Bytes)) = Len(CharEnd)
  BY <1>2, <1>3
<1> QED
  BY <1>4, BytesType DEF Decode

-----------------------------------------------------------------------------
(* The types. *)

LEMMA InitType == TokenInit => JscTypeOK
<1> SUFFICES ASSUME TokenInit PROVE JscTypeOK
  OBVIOUS
<1>1. TypeOK
  BY JscBoundsAssumption, BytesType DEF TokenInit, Init, TypeOK
<1>2. /\ given \in {"file", "literal"}
      /\ at = "idle"
      /\ torn \in BOOLEAN
      /\ expired \in SUBSET Tokens
  BY DEF TokenInit
<1>3. /\ 0 \in Tokens
      /\ 0 \in 0..MaxScripts
  BY TokenBoundsAssumption DEF Tokens
<1>4. /\ file \in Tokens \cup {Empty, Absent}
      /\ issued \in Tokens
      /\ cred \in Tokens \cup {Password}
      /\ scripts \in 0..MaxScripts
      /\ used \in Tokens \cup {Empty, NotRead}
      /\ found \in Tokens \cup {Empty, Absent, NotRead}
  BY <1>3 DEF TokenInit
<1> QED
  BY <1>1, <1>2, <1>4 DEF JscTypeOK

\* What a read adds to stdout.
LEMMA DrainType ==
  ASSUME TypeOK, Drain
  PROVE  /\ stdout' \in Seq(0..Len(CharEnd))
         /\ offset' \in 0..Len(CharEnd)
<1> DEFINE content == Decode(written)
<1>1. /\ content \in Seq(0..Len(CharEnd))
      /\ Len(content) \in 0..Len(CharEnd)
  <2>1. written \in Nat
    BY BytesType DEF TypeOK
  <2> QED
    BY <2>1, DecodeIsInOrder
<1> HIDE DEF content
<1>2. CASE Len(content) > offset
  <2>1. /\ stdout' = stdout \o SubSeq(content, offset + 1, Len(content))
        /\ offset' = Len(content)
    BY <1>2 DEF Drain, content
  <2>2. SubSeq(content, offset + 1, Len(content)) \in Seq(0..Len(CharEnd))
    BY <1>1, <1>2 DEF TypeOK
  <2> QED
    BY <1>1, <2>1, <2>2 DEF TypeOK
<1>3. CASE ~(Len(content) > offset)
  BY <1>3 DEF Drain, content, TypeOK
<1> QED
  BY <1>2, <1>3

LEMMA RequestType == TypeOK /\ Request => TypeOK'
<1> SUFFICES ASSUME TypeOK, Request PROVE TypeOK'
  OBVIOUS
<1> USE DEF Pending, TerminalStatuses, Over
<1>1. CASE NewJob
  <2>1. missed' \in SUBSET {"new", "drain", "delete"}
    BY <1>1 DEF NewJob, TypeOK
  <2>2. faults' \in 0..MaxFaults
    BY <1>1, JscBoundsAssumption DEF NewJob, Fault, TypeOK
  <2> QED
    BY <1>1, <2>1, <2>2 DEF NewJob, TypeOK
<1>2. CASE Look
  BY <1>2 DEF Look, TypeOK
<1>3. CASE PollStatus
  BY <1>3 DEF PollStatus, TypeOK
<1>4. CASE Drain
  BY <1>4, DrainType DEF Drain, AfterDrain, TypeOK
<1>5. CASE MakeResult
  BY <1>5 DEF MakeResult, JobExitCode, TypeOK
<1>6. CASE Delete
  <2>1. missed' \in SUBSET {"new", "drain", "delete"}
    BY <1>6 DEF Delete, TypeOK
  <2>2. faults' \in 0..MaxFaults
    BY <1>6, JscBoundsAssumption DEF Delete, Fault, TypeOK
  <2> QED
    BY <1>6, <2>1, <2>2 DEF Delete, TypeOK
<1> QED
  BY <1>1, <1>2, <1>3, <1>4, <1>5, <1>6 DEF Request

LEMMA FailureType == TypeOK /\ Failure => TypeOK'
<1> SUFFICES ASSUME TypeOK, Failure PROVE TypeOK'
  OBVIOUS
<1> USE JscBoundsAssumption DEF Pending, TerminalStatuses, Over, Fault, TypeOK
<1>1. CASE NewJobFails
  BY <1>1 DEF NewJobFails
<1>2. CASE DrainFails
  BY <1>2 DEF DrainFails, AfterDrain
<1>3. CASE RequestFails
  BY <1>3 DEF RequestFails
<1> QED
  BY <1>1, <1>2, <1>3 DEF Failure

LEMMA JobStepType == TypeOK /\ JobStep => TypeOK'
<1> SUFFICES ASSUME TypeOK, JobStep PROVE TypeOK'
  OBVIOUS
<1> USE DEF Pending, TerminalStatuses, Over, TypeOK
<1>1. CASE JobRuns
  BY <1>1 DEF JobRuns
<1>2. CASE Write
  BY <1>2, BytesType DEF Write
<1>3. CASE JobEnds
  BY <1>3 DEF JobEnds
<1> QED
  BY <1>1, <1>2, <1>3 DEF JobStep

\* A step of the script or of the gateway leaves the run alone.
ScriptStep ==
  \/ StartScript \/ DiscoverSites \/ CreateToken \/ OpenFile \/ WriteToken
  \/ ScriptStops \/ Expire

LEMMA ScriptLeavesRun == ScriptStep => UNCHANGED <<vars, given, clientVars>>
  BY DEF ScriptStep, StartScript, DiscoverSites, CreateToken, OpenFile, WriteToken,
     ScriptStops, Expire

LEMMA ScriptType == JscTypeOK /\ ScriptStep => JscTypeOK'
<1> SUFFICES ASSUME JscTypeOK, ScriptStep PROVE JscTypeOK'
  OBVIOUS
<1>1. TypeOK'
  BY ScriptLeavesRun DEF JscTypeOK, TypeOK, vars
<1> USE <1>1, TokenBoundsAssumption
        DEF JscTypeOK, Tokens, Password, NotRead, Empty, Absent, fileVars,
            gatewayVars, scriptVars, clientVars
<1>2. CASE StartScript
  BY <1>2 DEF StartScript
<1>3. CASE DiscoverSites
  BY <1>3 DEF DiscoverSites
<1>4. CASE CreateToken
  BY <1>4 DEF CreateToken
<1>5. CASE OpenFile
  BY <1>5 DEF OpenFile
<1>6. CASE WriteToken
  BY <1>6 DEF WriteToken
<1>7. CASE ScriptStops
  BY <1>7 DEF ScriptStops
<1>8. CASE Expire
  BY <1>8 DEF Expire
<1> QED
  BY <1>2, <1>3, <1>4, <1>5, <1>6, <1>7, <1>8 DEF ScriptStep

LEMMA LoadTokenType == JscTypeOK /\ LoadToken => JscTypeOK'
<1> SUFFICES ASSUME JscTypeOK, LoadToken PROVE JscTypeOK'
  OBVIOUS
<1>1. TypeOK'
  BY DEF LoadToken, JscTypeOK, TypeOK, Over
<1> QED
  BY <1>1, TokenBoundsAssumption
     DEF LoadToken, TokenNow, JscTypeOK, Tokens, NotRead, Empty, Absent, fileVars,
         gatewayVars, scriptVars

LEMMA RefusedType == TypeOK /\ Refused => TypeOK'
  BY DEF Refused, TypeOK, Over, AfterDrain

LEMMA NextType == JscTypeOK /\ [TokenNext]_allVars => JscTypeOK'
<1> SUFFICES ASSUME JscTypeOK, [TokenNext]_allVars PROVE JscTypeOK'
  OBVIOUS
<1>1. ASSUME TypeOK', UNCHANGED tokenVars  PROVE JscTypeOK'
  BY <1>1 DEF JscTypeOK, tokenVars, fileVars, gatewayVars, scriptVars, clientVars
<1>2. CASE LoadToken
  BY <1>2, LoadTokenType
<1>3. CASE Refused
  BY <1>3, <1>1, RefusedType DEF JscTypeOK, Refused
<1>4. CASE Answered
  BY <1>4, <1>1, RequestType DEF JscTypeOK, Answered
<1>5. CASE ReadStderr /\ UNCHANGED tokenVars
  BY <1>5, <1>1 DEF JscTypeOK, TypeOK, ReadStderr
<1>6. CASE Failure /\ UNCHANGED tokenVars
  BY <1>6, <1>1, FailureType DEF JscTypeOK
<1>7. CASE JobStep /\ UNCHANGED tokenVars
  BY <1>7, <1>1, JobStepType DEF JscTypeOK
<1>8. CASE ScriptStep
  BY <1>8, ScriptType
<1>9. CASE UNCHANGED allVars
  BY <1>9, <1>1 DEF allVars, vars, JscTypeOK, TypeOK
<1> QED
  BY <1>2, <1>3, <1>4, <1>5, <1>6, <1>7, <1>8, <1>9 DEF TokenNext, RunStep, ScriptStep

\* The variables keep their types.
THEOREM JscTypeCorrect == JscSpec => []JscTypeOK
  BY InitType, NextType, PTL DEF JscSpec

-----------------------------------------------------------------------------
(* The run and its job. *)

\* What was read is what the offset counts.
ReadInv ==
  /\ offset = Len(stdout)
  /\ \A k \in 1..Len(stdout) : stdout[k] \in {k, Cut}

\* Where the run is tells what its job has done.
ProgressInv ==
  /\ job \in TerminalStatuses => written = Bytes
  /\ pc = "new" => job = "none"
  /\ pc \notin {"new"} \cup Over => job # "none"
  /\ pc \in {"lastdrain", "stderr", "code"} => job \in TerminalStatuses

\* A result is that of a job that ended, and has all of stdout.
ResultInv ==
  /\ pc \notin {"delete"} \cup Over => result = "none"
  /\ pc = "delete" => result # "none"
  /\ pc = "returned" => result = "ok"
  /\ pc = "failed" => result = "error"
  /\ result = "ok" => job \in TerminalStatuses /\ code = JobExitCode
  /\ (pc \in {"stderr", "code"} \/ result = "ok") /\ "drain" \notin missed =>
       Len(stdout) = Len(CharEnd)

JscInv == JscTypeOK /\ ReadInv /\ ProgressInv /\ ResultInv /\ JobDeleted

LEMMA InitInv == TokenInit => JscInv
<1> SUFFICES ASSUME TokenInit PROVE JscInv
  OBVIOUS
<1>1. JscTypeOK
  BY InitType
<1>2. ReadInv
  BY DEF TokenInit, Init, ReadInv
<1>3. ProgressInv /\ ResultInv /\ JobDeleted
  BY DEF TokenInit, Init, ProgressInv, ResultInv, JobDeleted, Over, TerminalStatuses
<1> QED
  BY <1>1, <1>2, <1>3 DEF JscInv

\* A read goes on where the last one ended.
LEMMA DrainReads == TypeOK /\ ReadInv /\ Drain => ReadInv'
<1> SUFFICES ASSUME TypeOK, ReadInv, Drain PROVE ReadInv'
  OBVIOUS
<1> DEFINE content == Decode(written)
<1>1. written \in Nat
  BY BytesType DEF TypeOK
<1>2. /\ content \in Seq(0..Len(CharEnd))
      /\ Len(content) \in 0..Len(CharEnd)
      /\ \A k \in 1..Len(content) : content[k] \in {k, Cut}
  BY <1>1, DecodeIsInOrder
<1> HIDE DEF content
<1>3. CASE Len(content) > offset
  <2> DEFINE more == SubSeq(content, offset + 1, Len(content))
  <2>1. stdout' = stdout \o more /\ offset' = Len(content)
    BY <1>3 DEF Drain, content
  <2>2. /\ more \in Seq(0..Len(CharEnd))
        /\ Len(more) = Len(content) - offset
        /\ \A i \in 1..Len(more) : more[i] = content[offset + i]
    BY <1>2, <1>3 DEF TypeOK
  <2> HIDE DEF more
  <2>3. Len(stdout') = Len(content)
    BY <2>1, <2>2, <1>2 DEF TypeOK, ReadInv
  <2>4. ASSUME NEW k \in 1..Len(stdout')  PROVE stdout'[k] \in {k, Cut}
    <3>1. CASE k <= Len(stdout)
      BY <3>1, <2>1, <2>2, <2>3, <1>2 DEF ReadInv, TypeOK
    <3>2. CASE k > Len(stdout)
      <4>1. /\ k - offset \in 1..Len(more)
            /\ k \in 1..Len(content)
        BY <3>2, <2>2, <2>3, <1>2 DEF ReadInv, TypeOK
      <4>2. stdout'[k] = more[k - offset]
        BY <3>2, <4>1, <2>1, <2>2 DEF ReadInv, TypeOK
      <4>3. offset + (k - offset) = k
        BY DEF TypeOK
      <4> QED
        BY <4>1, <4>2, <4>3, <2>2, <1>2
    <3> QED
      BY <3>1, <3>2, <2>3, <1>2
  <2> QED
    BY <2>1, <2>3, <2>4 DEF ReadInv
<1>4. CASE ~(Len(content) > offset)
  BY <1>4 DEF Drain, content, ReadInv
<1> QED
  BY <1>3, <1>4

\* A read of all bytes leaves nothing out.
LEMMA LastDrainReadsAll ==
  ASSUME TypeOK, ReadInv, Drain, written = Bytes
  PROVE  Len(stdout') = Len(CharEnd)
<1> DEFINE content == Decode(written)
<1>1. Len(content) = Len(CharEnd)
  BY DecodeIsComplete
<1>2. ReadInv'
  BY DrainReads
<1> HIDE DEF content
<1>3. CASE Len(content) > offset
  BY <1>1, <1>2, <1>3 DEF Drain, ReadInv, content
<1>4. CASE ~(Len(content) > offset)
  BY <1>1, <1>4, BytesType DEF Drain, ReadInv, content, TypeOK
<1> QED
  BY <1>3, <1>4

\* What an action that reads nothing preserves.
ReadUnchanged == UNCHANGED <<offset, stdout>>

RunInv == ProgressInv /\ ResultInv /\ JobDeleted

LEMMA DrainRunInv == TypeOK /\ ReadInv /\ RunInv /\ Drain => RunInv'
<1> SUFFICES ASSUME TypeOK, ReadInv, RunInv, Drain PROVE RunInv'
  OBVIOUS
<1> USE DEF TerminalStatuses, Over
<1>1. ProgressInv'
  BY DEF RunInv, ProgressInv, Drain, AfterDrain
<1>2. CASE pc = "lastdrain"
  <2>1. Len(stdout') = Len(CharEnd)
    BY <1>2, LastDrainReadsAll DEF RunInv, ProgressInv
  <2>2. result = "none" /\ result' = "none" /\ pc' = "stderr"
    BY <1>2 DEF RunInv, ResultInv, Drain, AfterDrain
  <2> QED
    BY <1>1, <2>1, <2>2 DEF RunInv, ResultInv, JobDeleted
<1>3. CASE pc = "drain"
  <2>1. result = "none" /\ result' = "none" /\ pc' = "poll"
    BY <1>3 DEF RunInv, ResultInv, Drain, AfterDrain
  <2> QED
    BY <1>1, <2>1 DEF RunInv, ResultInv, JobDeleted
<1> QED
  BY <1>2, <1>3 DEF Drain

LEMMA RequestInv ==
  TypeOK /\ ReadInv /\ RunInv /\ Request => ReadInv' /\ RunInv'
<1> SUFFICES ASSUME TypeOK, ReadInv, RunInv, Request PROVE ReadInv' /\ RunInv'
  OBVIOUS
<1>1. CASE Drain
  BY <1>1, DrainReads, DrainRunInv
<1> USE DEF RunInv, ReadInv, ProgressInv, ResultInv, JobDeleted, TerminalStatuses, Over
<1>2. CASE NewJob
  BY <1>2 DEF NewJob
<1>3. CASE Look
  BY <1>3 DEF Look
<1>4. CASE PollStatus
  BY <1>4 DEF PollStatus
<1>5. CASE MakeResult
  BY <1>5 DEF MakeResult, JobExitCode
<1>6. CASE Delete
  BY <1>6 DEF Delete, JobExitCode, TypeOK
<1> QED
  BY <1>1, <1>2, <1>3, <1>4, <1>5, <1>6 DEF Request

LEMMA FailureInv ==
  TypeOK /\ ReadInv /\ RunInv /\ Failure => ReadInv' /\ RunInv'
<1> SUFFICES ASSUME TypeOK, ReadInv, RunInv, Failure PROVE ReadInv' /\ RunInv'
  OBVIOUS
<1> USE DEF RunInv, ReadInv, ProgressInv, ResultInv, JobDeleted, TerminalStatuses, Over
<1>1. CASE NewJobFails
  BY <1>1 DEF NewJobFails
<1>2. CASE DrainFails
  BY <1>2 DEF DrainFails, AfterDrain
<1>3. CASE RequestFails
  BY <1>3 DEF RequestFails
<1> QED
  BY <1>1, <1>2, <1>3 DEF Failure

LEMMA JobStepInv ==
  TypeOK /\ ReadInv /\ RunInv /\ JobStep => ReadInv' /\ RunInv'
<1> SUFFICES ASSUME TypeOK, ReadInv, RunInv, JobStep PROVE ReadInv' /\ RunInv'
  OBVIOUS
<1> USE DEF RunInv, ReadInv, ProgressInv, ResultInv, JobDeleted, TerminalStatuses, Over
<1>1. CASE JobRuns
  BY <1>1 DEF JobRuns
<1>2. CASE Write
  BY <1>2 DEF Write
<1>3. CASE JobEnds
  BY <1>3 DEF JobEnds
<1> QED
  BY <1>1, <1>2, <1>3 DEF JobStep

LEMMA RefusedInv ==
  TypeOK /\ ReadInv /\ RunInv /\ Refused => ReadInv' /\ RunInv'
<1> SUFFICES ASSUME TypeOK, ReadInv, RunInv, Refused PROVE ReadInv' /\ RunInv'
  OBVIOUS
<1>1. UNCHANGED <<job, deleted, exit, written, offset, stdout, code>>
  BY DEF Refused
<1>2. /\ pc \in {"new", "look", "poll", "drain", "lastdrain", "code", "delete"}
      /\ missed \subseteq missed'
  BY DEF Refused
<1> USE DEF RunInv, ReadInv, ProgressInv, ResultInv, JobDeleted, JobExitCode,
            TerminalStatuses, Over
<1>3. CASE pc \in {"new", "look", "poll", "code"}
  BY <1>1, <1>3 DEF Refused
<1>4. CASE pc \in {"drain", "lastdrain"}
  BY <1>1, <1>4 DEF Refused, AfterDrain
<1>5. CASE pc = "delete"
  <2>1. /\ pc' = IF result = "ok" THEN "returned" ELSE "failed"
        /\ missed' = missed \cup {"delete"}
        /\ result' = result
    BY <1>5 DEF Refused
  <2> QED
    BY <1>1, <1>5, <2>1 DEF TypeOK
<1> QED
  BY <1>2, <1>3, <1>4, <1>5

LEMMA LoadTokenInv ==
  TypeOK /\ ReadInv /\ RunInv /\ LoadToken => ReadInv' /\ RunInv'
  BY DEF LoadToken, RunInv, ReadInv, ProgressInv, ResultInv, JobDeleted,
     TerminalStatuses, Over, TypeOK

LEMMA NextInv == JscInv /\ [TokenNext]_allVars => JscInv'
<1> SUFFICES ASSUME JscInv, [TokenNext]_allVars PROVE JscInv'
  OBVIOUS
<1>1. TypeOK /\ ReadInv /\ RunInv
  BY DEF JscInv, JscTypeOK, RunInv
<1>2. JscTypeOK'
  BY NextType DEF JscInv
<1>3. ASSUME UNCHANGED vars  PROVE ReadInv' /\ RunInv'
  BY <1>1, <1>3 DEF vars, RunInv, ReadInv, ProgressInv, ResultInv, JobDeleted, JobExitCode
<1>4. ReadInv' /\ RunInv'
  <2>1. CASE LoadToken
    BY <2>1, <1>1, LoadTokenInv
  <2>2. CASE Refused
    BY <2>2, <1>1, RefusedInv
  <2>3. CASE Request
    BY <2>3, <1>1, RequestInv
  <2>4. CASE ReadStderr
    BY <2>4, <1>1
       DEF ReadStderr, RunInv, ReadInv, ProgressInv, ResultInv, JobDeleted, JobExitCode,
           TerminalStatuses, Over
  <2>5. CASE Failure
    BY <2>5, <1>1, FailureInv
  <2>6. CASE JobStep
    BY <2>6, <1>1, JobStepInv
  <2>7. CASE ScriptStep
    BY <2>7, <1>3, ScriptLeavesRun
  <2>8. CASE UNCHANGED allVars
    BY <2>8, <1>3 DEF allVars
  <2> QED
    BY <2>1, <2>2, <2>3, <2>4, <2>5, <2>6, <2>7, <2>8
       DEF TokenNext, RunStep, Answered, ScriptStep
<1> QED
  BY <1>2, <1>4 DEF JscInv, RunInv

LEMMA JscInvariant == JscSpec => []JscInv
  BY InitInv, NextInv, PTL DEF JscSpec

\* Reads of a growing file add up to what the command printed, in order.
THEOREM StdoutFaithful == JscSpec => []StdoutIsFaithful
<1>1. JscInv => StdoutIsFaithful
  BY DEF JscInv, ReadInv, ResultInv, StdoutIsFaithful
<1> QED
  BY <1>1, JscInvariant, PTL

\* No way out of a run leaves its job behind, unless a request failed.
THEOREM JobIsDeleted == JscSpec => []JobDeleted
<1>1. JscInv => JobDeleted
  BY DEF JscInv
<1> QED
  BY <1>1, JscInvariant, PTL

-----------------------------------------------------------------------------
(* The token. *)

\* The file holds a token that was issued, or none; a run that reads the file
\* uses what it found, and ends in an error only if that is no good.
TokenInv ==
  /\ file \in 0..issued \cup {Empty, Absent}
  /\ used \in 0..issued \cup {Empty, NotRead}
  /\ found \in 0..issued \cup {Empty, Absent, NotRead}
  /\ given = "file" /\ used # NotRead => used = found
  /\ given = "file" /\ faults = 0 /\ result = "error" => ~Accepted(found)

LEMMA TokenInitInv == TokenInit => TokenInv /\ TokenSurvives
<1> SUFFICES ASSUME TokenInit PROVE TokenInv /\ TokenSurvives
  OBVIOUS
<1>1. 0 \in 0..issued /\ file # Empty
  BY DEF TokenInit, Absent, Empty
<1> QED
  BY <1>1 DEF TokenInit, Init, TokenInv, TokenSurvives

\* A token that was not accepted is not accepted later.
LEMMA RefusedForGood ==
  ASSUME JscTypeOK, TokenInv, ScriptStep, ~Accepted(found)
  PROVE  ~Accepted(found)'
<1>1. found' = found
  BY ScriptLeavesRun DEF clientVars
<1>2. \/ issued' = issued /\ expired \subseteq expired'
      \/ issued' = issued + 1 /\ expired' = expired
  BY DEF ScriptStep, StartScript, DiscoverSites, CreateToken, OpenFile, WriteToken,
     ScriptStops, Expire, gatewayVars
<1> QED
  BY <1>1, <1>2, TokenBoundsAssumption
     DEF Accepted, TokenInv, JscTypeOK, Tokens, Empty, Absent, NotRead

LEMMA ScriptTokenInv ==
  JscTypeOK /\ TokenInv /\ TokenSurvives /\ ScriptStep => TokenInv' /\ TokenSurvives'
<1> SUFFICES ASSUME JscTypeOK, TokenInv, TokenSurvives, ScriptStep
             PROVE  TokenInv' /\ TokenSurvives'
  OBVIOUS
<1>1. UNCHANGED <<vars, given, used, found>>
  BY ScriptLeavesRun DEF clientVars
<1>2. given = "file" /\ faults = 0 /\ result = "error" => ~Accepted(found)'
  BY RefusedForGood DEF TokenInv
<1>3. issued \in Nat /\ issued' \in Nat /\ issued <= issued'
  BY TokenBoundsAssumption
     DEF JscTypeOK, Tokens, ScriptStep, StartScript, DiscoverSites, CreateToken,
         OpenFile, WriteToken, ScriptStops, Expire, gatewayVars
<1>4. 0..issued \subseteq 0..issued'
  BY <1>3
<1>5. file' \in {file, Empty, issued'}
  BY DEF ScriptStep, StartScript, DiscoverSites, CreateToken, OpenFile, WriteToken,
         ScriptStops, Expire, gatewayVars, fileVars
<1>6. file' \in 0..issued' \cup {Empty, Absent}
  BY <1>3, <1>4, <1>5 DEF TokenInv
<1>7. TokenInv'
  BY <1>1, <1>2, <1>4, <1>6 DEF TokenInv, vars
<1>8. TokenSurvives'
  <2>1. CASE OpenFile
    BY <2>1 DEF OpenFile, TokenSurvives
  <2>2. CASE WriteToken
    BY <2>2, <1>3 DEF WriteToken, TokenSurvives, Empty
  <2>3. CASE ScriptStops
    <3>1. file' = file /\ (at = "write" \/ torn => torn')
      BY <2>3 DEF ScriptStops, JscTypeOK
    <3> QED
      BY <3>1 DEF TokenSurvives
  <2>4. CASE StartScript \/ DiscoverSites \/ CreateToken \/ Expire
    <3>1. file' = file /\ torn' = torn /\ (at = "write" => at' = "write")
      BY <2>4 DEF StartScript, DiscoverSites, CreateToken, Expire, fileVars, scriptVars
    <3> QED
      BY <3>1 DEF TokenSurvives
  <2> QED
    BY <2>1, <2>2, <2>3, <2>4 DEF ScriptStep
<1> QED
  BY <1>7, <1>8

\* A step of the run of which the token knows only whether it failed.
LEMMA RunTokenInv ==
  ASSUME JscTypeOK, TokenInv, TokenSurvives, UNCHANGED tokenVars,
         \/ faults' = 0 /\ result' = "error" => faults = 0 /\ result = "error"
         \/ ~Accepted(used) /\ used # NotRead
  PROVE  TokenInv' /\ TokenSurvives'
<1>1. UNCHANGED <<given, file, torn, issued, expired, at, used, found>>
  BY DEF tokenVars, fileVars, gatewayVars, scriptVars, clientVars
<1>2. Accepted(found)' = Accepted(found) /\ Accepted(used)' = Accepted(used)
  BY <1>1 DEF Accepted
<1>3. TokenSurvives'
  BY <1>1 DEF TokenSurvives
<1>4. TokenInv'
  BY <1>1, <1>2 DEF TokenInv
<1> QED
  BY <1>3, <1>4

LEMMA LoadTokenTokenInv ==
  JscInv /\ TokenInv /\ TokenSurvives /\ LoadToken => TokenInv' /\ TokenSurvives'
<1> SUFFICES ASSUME JscInv, TokenInv, TokenSurvives, LoadToken
             PROVE  TokenInv' /\ TokenSurvives'
  OBVIOUS
<1>1. UNCHANGED <<given, file, torn, issued, expired, at, faults>> /\ found' = file
  BY DEF LoadToken, fileVars, gatewayVars, scriptVars
<1>2. TokenSurvives'
  BY <1>1 DEF TokenSurvives
<1>3. 0 \in 0..issued
  BY DEF JscInv, JscTypeOK, Tokens
<1>4. CASE given = "file" /\ file = Absent
  <2>1. used = NotRead /\ used' = NotRead
    BY <1>4 DEF LoadToken
  <2>2. ~Accepted(found)'
    BY <1>1, <1>4 DEF Accepted, Absent
  <2> QED
    BY <1>1, <1>2, <2>1, <2>2 DEF TokenInv
<1>5. CASE ~(given = "file" /\ file = Absent)
  <2>1. used' = TokenNow /\ result' = result
    BY <1>5 DEF LoadToken
  <2>2. used' \in 0..issued \cup {Empty, NotRead}
    BY <1>3, <1>5, <2>1 DEF TokenNow, TokenInv, JscInv, JscTypeOK
  <2>3. given = "file" => used' = found'
    BY <1>1, <2>1 DEF TokenNow
  <2>4. result = "none"
    BY DEF LoadToken, JscInv, ResultInv, Over
  <2> QED
    BY <1>1, <1>2, <2>1, <2>2, <2>3, <2>4 DEF TokenInv
<1> QED
  BY <1>4, <1>5

LEMMA NextTokenInv ==
  JscInv /\ TokenInv /\ TokenSurvives /\ [TokenNext]_allVars =>
    TokenInv' /\ TokenSurvives'
<1> SUFFICES ASSUME JscInv, TokenInv, TokenSurvives, [TokenNext]_allVars
             PROVE  TokenInv' /\ TokenSurvives'
  OBVIOUS
<1>1. JscTypeOK
  BY DEF JscInv
<1>2. CASE LoadToken
  BY <1>2, LoadTokenTokenInv
<1>3. CASE Refused
  <2>1. UNCHANGED tokenVars /\ ~Accepted(used) /\ used # NotRead
    BY <1>3 DEF Refused
  <2> QED
    BY <1>1, <2>1, RunTokenInv
<1>4. CASE Request /\ UNCHANGED tokenVars
  <2>1. faults' = 0 /\ result' = "error" => faults = 0 /\ result = "error"
    BY <1>1, <1>4
       DEF Request, NewJob, Look, PollStatus, Drain, MakeResult, Delete, Fault,
           JscTypeOK, TypeOK
  <2> QED
    BY <1>1, <1>4, <2>1, RunTokenInv
<1>5. CASE ReadStderr /\ UNCHANGED tokenVars
  <2>1. faults' = faults /\ result' = result
    BY <1>5 DEF ReadStderr
  <2> QED
    BY <1>1, <1>5, <2>1, RunTokenInv
<1>6. CASE Failure /\ UNCHANGED tokenVars
  <2>1. faults' # 0
    BY <1>1, <1>6
       DEF Failure, NewJobFails, DrainFails, RequestFails, Fault, JscTypeOK, TypeOK
  <2> QED
    BY <1>1, <1>6, <2>1, RunTokenInv
<1>7. CASE JobStep /\ UNCHANGED tokenVars
  <2>1. faults' = faults /\ result' = result
    BY <1>7 DEF JobStep, JobRuns, Write, JobEnds
  <2> QED
    BY <1>1, <1>7, <2>1, RunTokenInv
<1>8. CASE ScriptStep
  BY <1>1, <1>8, ScriptTokenInv
<1>9. CASE UNCHANGED allVars
  <2>1. UNCHANGED tokenVars /\ faults' = faults /\ result' = result
    BY <1>9 DEF allVars, vars
  <2> QED
    BY <1>1, <2>1, RunTokenInv
<1> QED
  BY <1>2, <1>3, <1>4, <1>5, <1>6, <1>7, <1>8, <1>9
     DEF TokenNext, RunStep, Answered, ScriptStep

LEMMA TokenInvariant == JscSpec => [](TokenInv /\ TokenSurvives)
<1>1. TokenInit => TokenInv /\ TokenSurvives
  BY TokenInitInv
<1>2. JscInv /\ (TokenInv /\ TokenSurvives) /\ [TokenNext]_allVars =>
        (TokenInv /\ TokenSurvives)'
  BY NextTokenInv
<1> QED
  BY <1>1, <1>2, JscInvariant, PTL DEF JscSpec

\* However the script and the runs interleave, a run that reads the file fails
\* for what the file held, never for a token that was replaced before it began.
THEOREM RotationsSeen == JscSpec => []RotationsAreSeen
<1>1. JscInv /\ TokenInv => RotationsAreSeen
  BY DEF JscInv, ResultInv, TokenInv, RotationsAreSeen
<1> QED
  BY <1>1, JscInvariant, TokenInvariant, PTL

\* A call of the script that fails before it writes keeps the saved token.
THEOREM TokenSurvival == JscSpec => []TokenSurvives
  BY TokenInvariant, PTL

-----------------------------------------------------------------------------
(* The refinement. *)

LEMMA InitRefines == TokenInit => Run!Init
  BY DEF TokenInit, Init, Run!Init, Over

\* What CommandRun sees of a step.
LEMMA StutterRefines ==
  ASSUME JscInv, UNCHANGED <<job, exit, code>>, pc' \in Over <=> pc \in Over,
         pc \in Over => pc' = pc
  PROVE  UNCHANGED Run!vars
  BY DEF Run!vars, Outcome, Over

LEMMA FailRefines ==
  ASSUME JscInv, UNCHANGED <<job, exit, code>>, pc \notin Over, pc' = "failed"
  PROVE  Run!Fail
  BY DEF Run!Fail, Outcome, Over

LEMMA RequestRefines ==
  JscInv /\ Request => Run!Next \/ UNCHANGED Run!vars
<1> SUFFICES ASSUME JscInv, Request PROVE Run!Next \/ UNCHANGED Run!vars
  OBVIOUS
<1>1. CASE NewJob
  <2>1. pc = "new" /\ job = "none" /\ job' = "QUEUED" /\ pc' \in {"look", "failed"}
    BY <1>1 DEF NewJob, JscInv, ProgressInv
  <2>2. Run!Start
    BY <2>1 DEF Run!Start, Over, Pending
  <2> QED
    BY <2>2 DEF Run!Next
<1>2. CASE Look \/ PollStatus \/ Drain
  <2>1. UNCHANGED <<job, exit, code>> /\ pc \notin Over /\ pc' \notin Over
    BY <1>2 DEF Look, PollStatus, Drain, AfterDrain, Over
  <2> QED
    BY <2>1, StutterRefines
<1>3. CASE MakeResult
  <2>1. UNCHANGED <<job, exit>> /\ pc = "code" /\ pc' = "delete"
    BY <1>3 DEF MakeResult
  <2>2. UNCHANGED Run!vars
    BY <2>1 DEF Run!vars, Outcome, Over
  <2> QED
    BY <2>2
<1>4. CASE Delete
  <2>1. /\ UNCHANGED <<job, exit, code, result>>
        /\ pc = "delete"
        /\ pc' = IF result = "ok" THEN "returned" ELSE "failed"
    BY <1>4 DEF Delete
  <2>2. CASE result = "ok"
    <3>1. job \in TerminalStatuses /\ code = JobExitCode
      BY <2>2 DEF JscInv, ResultInv
    <3>2. pc' = "returned"
      BY <2>1, <2>2
    <3>3. Run!Return
      BY <2>1, <3>1, <3>2
         DEF Run!Return, JobExitCode, Outcome, TerminalStatuses, Pending, Over
    <3> QED
      BY <3>3 DEF Run!Next
  <2>3. CASE result # "ok"
    BY <2>1, <2>3, FailRefines DEF Over, Run!Next
  <2> QED
    BY <2>2, <2>3
<1> QED
  BY <1>1, <1>2, <1>3, <1>4 DEF Request

LEMMA FailureRefines ==
  JscInv /\ Failure => Run!Next \/ UNCHANGED Run!vars
<1> SUFFICES ASSUME JscInv, Failure PROVE Run!Next \/ UNCHANGED Run!vars
  OBVIOUS
<1>1. CASE NewJobFails
  BY <1>1, FailRefines DEF NewJobFails, Over, Run!Next
<1>2. CASE DrainFails
  BY <1>2, StutterRefines DEF DrainFails, AfterDrain, Over
<1>3. CASE RequestFails
  BY <1>3, StutterRefines DEF RequestFails, Over
<1> QED
  BY <1>1, <1>2, <1>3 DEF Failure

LEMMA JobStepRefines ==
  JscInv /\ JobStep => Run!Next \/ UNCHANGED Run!vars
<1> SUFFICES ASSUME JscInv, JobStep PROVE Run!Next \/ UNCHANGED Run!vars
  OBVIOUS
<1>1. CASE JobRuns
  <2>1. UNCHANGED <<pc, exit, code>> /\ job = "QUEUED" /\ job' = "RUNNING"
    BY <1>1 DEF JobRuns
  <2> QED
    BY <2>1 DEF Run!vars, Outcome, Over, Pending
<1>2. CASE Write
  BY <1>2, StutterRefines DEF Write
<1>3. CASE JobEnds
  <2>1. /\ UNCHANGED <<pc, code>>
        /\ job = "RUNNING"
        /\ job' \in TerminalStatuses
        /\ exit' \in {"zero", "other", "absent"}
    BY <1>3 DEF JobEnds
  <2>2. Run!Finish
    BY <2>1 DEF Run!Finish, Outcome, TerminalStatuses, Pending
  <2> QED
    BY <2>2 DEF Run!Next
<1> QED
  BY <1>1, <1>2, <1>3 DEF JobStep

LEMMA RefusedRefines ==
  JscInv /\ Refused => Run!Next \/ UNCHANGED Run!vars
<1> SUFFICES ASSUME JscInv, Refused PROVE Run!Next \/ UNCHANGED Run!vars
  OBVIOUS
<1>1. UNCHANGED <<job, exit, code>>
  BY DEF Refused
<1>2. CASE pc \in {"new", "look", "poll", "code"}
  BY <1>1, <1>2, StutterRefines, FailRefines DEF Refused, Over, Run!Next
<1>3. CASE pc \in {"drain", "lastdrain"}
  BY <1>1, <1>3, StutterRefines DEF Refused, AfterDrain, Over
<1>4. CASE pc = "delete"
  <2>1. pc' = (IF result = "ok" THEN "returned" ELSE "failed")
    BY <1>4 DEF Refused
  <2>2. CASE result = "ok"
    <3>1. job \in TerminalStatuses /\ code = JobExitCode
      BY <2>2 DEF JscInv, ResultInv
    <3>2. Run!Return
      BY <1>1, <1>4, <2>1, <2>2, <3>1
         DEF Run!Return, JobExitCode, Outcome, TerminalStatuses, Pending, Over
    <3> QED
      BY <3>2 DEF Run!Next
  <2>3. CASE result # "ok"
    BY <1>1, <1>4, <2>1, <2>3, FailRefines DEF Over, Run!Next
  <2> QED
    BY <2>2, <2>3
<1> QED
  BY <1>2, <1>3, <1>4 DEF Refused

LEMMA NextRefines == JscInv /\ [TokenNext]_allVars => [Run!Next]_(Run!vars)
<1> SUFFICES ASSUME JscInv, [TokenNext]_allVars
             PROVE  Run!Next \/ UNCHANGED Run!vars
  OBVIOUS
<1>1. CASE LoadToken
  BY <1>1, StutterRefines, FailRefines DEF LoadToken, Over, Run!Next
<1>2. CASE Refused
  BY <1>2, RefusedRefines
<1>3. CASE Request
  BY <1>3, RequestRefines
<1>4. CASE ReadStderr
  BY <1>4, StutterRefines DEF ReadStderr, Over
<1>5. CASE Failure
  BY <1>5, FailureRefines
<1>6. CASE JobStep
  BY <1>6, JobStepRefines
<1>7. CASE UNCHANGED vars
  BY <1>7, StutterRefines DEF vars
<1> QED
  BY <1>1, <1>2, <1>3, <1>4, <1>5, <1>6, <1>7, ScriptLeavesRun
     DEF TokenNext, RunStep, Answered, ScriptStep, allVars

\* A run of the runner is a run as its contract has it, whatever becomes of
\* its token and of its requests.
THEOREM JscImplementsCommandRun == JscSpec => ImplementsCommandRun
<1>1. TokenInit => Run!Init
  BY InitRefines
<1>2. JscInv /\ [TokenNext]_allVars => [Run!Next]_(Run!vars)
  BY NextRefines
<1> QED
  BY <1>1, <1>2, JscInvariant, PTL DEF JscSpec, ImplementsCommandRun, Run!CommandRunSpec
=============================================================================
