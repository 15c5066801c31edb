----------------------------- MODULE MCExecutr ------------------------------
(* Model-checking instance of Executr: the jobs, executors and priorities *)
(* of MCJobStore, with workers of one slot each.                          *)
EXTENDS Executr, MCJobStore

\* One worker: enough for the retry loop, which needs no contention.
MCOneExecutor == {e1}

\* The second job's binary prints a NUL byte on every run.
MCRejectJ2 == {j2}

\* The only job's binary prints a NUL byte on every run.
MCRejectJ1 == {j1}
=============================================================================
