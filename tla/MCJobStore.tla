----------------------------- MODULE MCJobStore -----------------------------
(* Model-checking instance of JobStore: two jobs of distinct priorities,   *)
(* two executors, at most one bulk retry, a retry batch of one so that the *)
(* LIMIT and the text ordering of GetRetriableJobs matter.                 *)
EXTENDS JobStore, TLC

CONSTANTS j1, j2, e1, e2

MCJobs == {j1, j2}
MCOneJob == {j1}
MCExecutors == {e1, e2}
MCPriority == (j1 :> "best_effort") @@ (j2 :> "foreground")

\* Executor ids are interchangeable; jobs are not (their priorities differ).
MCSymmetry == Permutations(MCExecutors)
=============================================================================
