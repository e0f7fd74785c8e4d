---------------------------- MODULE MCRerunCache ----------------------------
(* Instances of RerunCache for TLC.                                        *)
EXTENDS RerunCache, TLC

\* "r1" starts without a token, "r2" resumes it by its short id, "r3" is a
\* fresh run again.
MCTokens == {"flo1", "flo2", "flo3", "mine"}
MCShortId == [r \in Runs |-> CASE r = "r1" -> "flo1" [] r = "r2" -> "flo2" [] OTHER -> "flo3"]
ResumeThenFresh == [r \in Runs |-> CASE r = "r1" -> "None" [] r = "r2" -> "flo1" [] OTHER -> ""]
Resumed == [r \in Runs |-> IF r = "r1" THEN "None" ELSE "flo1"]

\* Flows: what each calls, and with what.
SubmitAwaitRun == <<"sbatch_submit", "sbatch_try", "sbatch", "run">>
RunTwice == <<"run", "run">>
OnlySbatch == <<"sbatch">>
RunTryAwait == <<"run_try", "sbatch_try">>
OneSpec == <<"a">>
SameSpec == <<"a", "a">>
FourTimes == <<"a", "a", "a", "a">>

IdSymmetry == Permutations(Ids)
=============================================================================
