------------------------------ MODULE JobStore ------------------------------
(***************************************************************************)
(* The coordinator's durable job queue: the `jobs` and `job_attempts`     *)
(* rows (src/internal/db/migrations/001_initial_schema.up.sql), the HTTP   *)
(* handlers that mutate them and the three background loops of            *)
(* src/unnamed/part_009 (package server).  Every handler is one SQL        *)
(* statement whose WHERE clause encodes the prior state, so each is one    *)
(* atomic action.  A background loop that first SELECTs and then UPDATEs   *)
(* row by row is split into a scan action and one action per row, because *)
(* other handlers run between the two.                                     *)
(*                                                                         *)
(* Time is abstracted: `fresh[j]` says that last_heartbeat is younger than *)
(* the stale timeout, `retryDue[j]` that retry_after is NULL or past.      *)
(* In this module any client may call any handler (the Executr module      *)
(* replaces that environment by real workers).                             *)
(***************************************************************************)
EXTENDS Integers, FiniteSets

CONSTANTS
    Jobs,            \* job ids (UUIDs), model values
    Executors,       \* executor ids "<name>-<8 hex>", model values
    NoExecutor,      \* SQL NULL in executor_id
    Priority,        \* Priority[j]: the submitted priority string of job j
    MaxRetriesBound, \* largest max_retries a bulk submission uses
    RetryBatch,      \* LIMIT of GetRetriableJobs (10 in the code)
    MaxLapses        \* bound on heartbeat lapses the environment causes

VARIABLES
    status,       \* jobs.status, plus "none" (not submitted) and "deleted"
    executor,     \* jobs.executor_id
    fresh,        \* last_heartbeat is within the stale timeout
    createdAt,    \* jobs.created_at, as a submission counter
    clock,        \* next created_at value
    maxRetries,   \* jobs.max_retries
    retryCount,   \* jobs.retry_count
    retryDue,     \* retry_after IS NULL OR retry_after < NOW()
    resultBy,     \* the executor whose complete/fail wrote stdout/exit_code
    attempts,     \* executors with a job_attempts row of the job (all rows
                  \* keep status 'running': no code calls UpdateJobAttempt)
    staleScan,    \* rows returned by FindStaleJobs not yet reset
    retryScan,    \* rows returned by GetRetriableJobs not yet promoted
    lapses        \* heartbeat lapses so far (bounded by MaxLapses)

storeVars == <<status, executor, fresh, createdAt, clock, maxRetries,
               retryCount, retryDue, resultBy, attempts>>
loopVars  == <<staleScan, retryScan>>
vars      == <<storeVars, loopVars, lapses>>

Statuses    == {"pending", "running", "completed", "failed", "cancelled"}
Terminal    == {"completed", "failed", "cancelled"}

\* ClaimNextJob: ORDER BY CASE priority WHEN 'foreground' THEN 1 ... END.
ClaimRank == [p \in {"foreground", "background", "best_effort"} |->
                 CASE p = "foreground"  -> 1
                   [] p = "background"  -> 2
                   [] p = "best_effort" -> 3]

\* GetRetriableJobs: ORDER BY priority, i.e. by the text value.
TextRank == [p \in {"foreground", "background", "best_effort"} |->
                CASE p = "background"  -> 1
                  [] p = "best_effort" -> 2
                  [] p = "foreground"  -> 3]

\* Lexicographic order on <<rank, created_at>>.
OrderedBefore(rank, j, k) ==
    \/ rank[Priority[j]] < rank[Priority[k]]
    \/ /\ rank[Priority[j]] = rank[Priority[k]]
       /\ createdAt[j] < createdAt[k]

Pending == {j \in Jobs : status[j] = "pending"}

TypeOK ==
    /\ status \in [Jobs -> Statuses \cup {"none", "deleted"}]
    /\ executor \in [Jobs -> Executors \cup {NoExecutor}]
    /\ fresh \in [Jobs -> BOOLEAN]
    /\ createdAt \in [Jobs -> Nat]
    /\ clock \in Nat
    /\ maxRetries \in [Jobs -> 0..MaxRetriesBound]
    /\ retryCount \in [Jobs -> 0..MaxRetriesBound]
    /\ retryDue \in [Jobs -> BOOLEAN]
    /\ resultBy \in [Jobs -> Executors \cup {NoExecutor}]
    /\ attempts \in [Jobs -> SUBSET Executors]
    /\ staleScan \subseteq Jobs
    /\ retryScan \subseteq Jobs
    /\ lapses \in 0..MaxLapses

Init ==
    /\ status = [j \in Jobs |-> "none"]
    /\ executor = [j \in Jobs |-> NoExecutor]
    /\ fresh = [j \in Jobs |-> FALSE]
    /\ createdAt = [j \in Jobs |-> 0]
    /\ clock = 1
    /\ maxRetries = [j \in Jobs |-> 0]
    /\ retryCount = [j \in Jobs |-> 0]
    /\ retryDue = [j \in Jobs |-> TRUE]
    /\ resultBy = [j \in Jobs |-> NoExecutor]
    /\ attempts = [j \in Jobs |-> {}]
    /\ staleScan = {}
    /\ retryScan = {}
    /\ lapses = 0

-----------------------------------------------------------------------------
(* Job API handlers.                                                       *)

\* CreateJob / CreateJobWithRetries: INSERT with status pending, created_at
\* NOW(), retry_count 0, retry_after NULL and the given max_retries.
CreateJob(j, mr) ==
    /\ status[j] = "none"
    /\ status' = [status EXCEPT ![j] = "pending"]
    /\ createdAt' = [createdAt EXCEPT ![j] = clock]
    /\ clock' = clock + 1
    /\ maxRetries' = [maxRetries EXCEPT ![j] = mr]
    /\ UNCHANGED <<executor, fresh, retryCount, retryDue, resultBy, attempts>>

\* handleSubmitJob: CreateJob does not pass max_retries, so the column
\* default 0 applies.
SubmitJob(j) == CreateJob(j, 0)

\* handleBulkJobs: each valid item is inserted on its own (no transaction)
\* with the max_retries of the submission.
BulkSubmitJob(j, mr) == CreateJob(j, mr)

\* ClaimNextJob: the first pending row in claim order (SKIP LOCKED makes
\* concurrent claims equivalent to some serial order) becomes running,
\* owned by e, with started_at and last_heartbeat NOW().  The handler then
\* runs RecordJobAttempt as a separate statement whose failure is only
\* logged: `recorded` says whether the attempt row was inserted.
ClaimNextJob(e, j, recorded) ==
    /\ status[j] = "pending"
    /\ ~\E k \in Pending : OrderedBefore(ClaimRank, k, j)
    /\ status' = [status EXCEPT ![j] = "running"]
    /\ executor' = [executor EXCEPT ![j] = e]
    /\ fresh' = [fresh EXCEPT ![j] = TRUE]
    /\ attempts' = IF recorded
                   THEN [attempts EXCEPT ![j] = @ \cup {e}]
                   ELSE attempts
    /\ UNCHANGED <<createdAt, clock, maxRetries, retryCount, retryDue,
                   resultBy>>

\* No pending row: the handler answers 204 and changes nothing.
NoJobToClaim == Pending = {}

\* UpdateHeartbeat: WHERE id AND executor_id AND status = 'running'.
UpdateHeartbeat(j, e) ==
    /\ fresh' = IF status[j] = "running" /\ executor[j] = e
                THEN [fresh EXCEPT ![j] = TRUE]
                ELSE fresh
    /\ UNCHANGED <<status, executor, createdAt, clock, maxRetries,
                   retryCount, retryDue, resultBy, attempts>>

\* CompleteJob / FailJob: WHERE id AND status = 'running'.  The executor_id
\* of the request is not part of the condition (handleCompleteJob does not
\* even pass it); stdout, stderr and exit_code come from e's run.
FinishJob(j, e, outcome) ==
    /\ status' = IF status[j] = "running"
                 THEN [status EXCEPT ![j] = outcome] ELSE status
    /\ resultBy' = IF status[j] = "running"
                   THEN [resultBy EXCEPT ![j] = e] ELSE resultBy
    /\ UNCHANGED <<executor, fresh, createdAt, clock, maxRetries,
                   retryCount, retryDue, attempts>>

CompleteJob(j, e) == FinishJob(j, e, "completed")

FailJob(j, e) == FinishJob(j, e, "failed")

\* CancelJob: WHERE id AND status = 'pending'.
CancelJob(j) ==
    /\ status' = IF status[j] = "pending"
                 THEN [status EXCEPT ![j] = "cancelled"] ELSE status
    /\ UNCHANGED <<executor, fresh, createdAt, clock, maxRetries,
                   retryCount, retryDue, resultBy, attempts>>

-----------------------------------------------------------------------------
(* Background loops.                                                       *)

\* Variant: the staleness condition is missing from FindStaleJobs.
FindStaleJobsAll ==
    /\ staleScan = {}
    /\ staleScan' = {j \in Jobs : status[j] = "running"}
    /\ UNCHANGED <<storeVars, retryScan>>

\* checkStaleJobs, first half: FindStaleJobs selects the running rows whose
\* last_heartbeat is older than the timeout.
FindStaleJobs ==
    /\ staleScan = {}
    /\ staleScan' = {j \in Jobs : status[j] = "running" /\ ~fresh[j]}
    /\ UNCHANGED <<storeVars, retryScan>>

\* Variant: ResetStaleJob without the status = 'running' condition.
ResetStaleJobAnyStatus(j) ==
    /\ j \in staleScan
    /\ staleScan' = staleScan \ {j}
    /\ status' = [status EXCEPT ![j] = "pending"]
    /\ executor' = [executor EXCEPT ![j] = NoExecutor]
    /\ fresh' = [fresh EXCEPT ![j] = FALSE]
    /\ UNCHANGED <<createdAt, clock, maxRetries, retryCount, retryDue,
                   resultBy, attempts, retryScan>>

\* Variant: the reset clears the owner but leaves the status running.
ResetStaleJobNoRequeue(j) ==
    /\ j \in staleScan
    /\ staleScan' = staleScan \ {j}
    /\ executor' = IF status[j] = "running"
                    THEN [executor EXCEPT ![j] = NoExecutor] ELSE executor
    /\ UNCHANGED <<status, fresh, createdAt, clock, maxRetries, retryCount,
                   retryDue, resultBy, attempts, retryScan>>

\* checkStaleJobs, second half: ResetStaleJob on one selected row,
\* conditioned on status = 'running' only.
ResetStaleJob(j) ==
    /\ j \in staleScan
    /\ staleScan' = staleScan \ {j}
    /\ IF status[j] = "running"
       THEN /\ status' = [status EXCEPT ![j] = "pending"]
            /\ executor' = [executor EXCEPT ![j] = NoExecutor]
            /\ fresh' = [fresh EXCEPT ![j] = FALSE]
       ELSE UNCHANGED <<status, executor, fresh>>
    /\ UNCHANGED <<createdAt, clock, maxRetries, retryCount, retryDue,
                   resultBy, attempts, retryScan>>

\* Variant: the retry budget test is inclusive.
HasRetriesLeftInclusive(j) == retryCount[j] <= maxRetries[j]

\* retry_count < max_retries, in both GetRetriableJobs and IncrementJobRetry.
HasRetriesLeft(j) == retryCount[j] < maxRetries[j]

\* Variant: GetRetriableJobs without its retry_count < max_retries filter.
RetriableAnyCount(j) ==
    /\ status[j] = "failed"
    /\ retryDue[j]

Retriable(j) ==
    /\ status[j] = "failed"
    /\ HasRetriesLeft(j)
    /\ retryDue[j]

\* Variant: LIMIT one less than configured.
GetRetriableJobsShortLimit ==
    LET cand == {j \in Jobs : Retriable(j)}
        ahead(j) == {k \in cand : OrderedBefore(TextRank, k, j)}
    IN  /\ retryScan = {}
        /\ retryScan' = {j \in cand : Cardinality(ahead(j)) < RetryBatch - 1}
        /\ UNCHANGED <<storeVars, staleScan>>

\* retryFailedJobs, first half: GetRetriableJobs, ORDER BY priority (text),
\* created_at LIMIT RetryBatch.
GetRetriableJobs ==
    LET cand == {j \in Jobs : Retriable(j)}
        ahead(j) == {k \in cand : OrderedBefore(TextRank, k, j)}
    IN  /\ retryScan = {}
        /\ retryScan' = {j \in cand : Cardinality(ahead(j)) < RetryBatch}
        /\ UNCHANGED <<storeVars, staleScan>>

\* retryFailedJobs, second half: IncrementJobRetry on one selected row,
\* WHERE status = 'failed' AND retry_count < max_retries; it clears the
\* result and ownership and sets retry_after in the future.
IncrementJobRetry(j) ==
    /\ j \in retryScan
    /\ retryScan' = retryScan \ {j}
    /\ IF status[j] = "failed" /\ HasRetriesLeft(j)
       THEN /\ status' = [status EXCEPT ![j] = "pending"]
            /\ retryCount' = [retryCount EXCEPT ![j] = @ + 1]
            /\ retryDue' = [retryDue EXCEPT ![j] = FALSE]
            /\ executor' = [executor EXCEPT ![j] = NoExecutor]
            /\ fresh' = [fresh EXCEPT ![j] = FALSE]
            /\ resultBy' = [resultBy EXCEPT ![j] = NoExecutor]
       ELSE UNCHANGED <<status, retryCount, retryDue, executor, fresh,
                        resultBy>>
    /\ UNCHANGED <<createdAt, clock, maxRetries, attempts, staleScan>>

\* Time passes beyond retry_after = NOW() + 1 minute * 2^retry_count.
RetryBackoffElapses(j) ==
    /\ ~retryDue[j]
    /\ retryDue' = [retryDue EXCEPT ![j] = TRUE]
    /\ UNCHANGED <<status, executor, fresh, createdAt, clock, maxRetries,
                   retryCount, resultBy, attempts, loopVars>>

\* cleanupOldJobs / CleanupOldJobs: one DELETE removes every terminal row
\* whose completed_at is older than the retention; S is the set of rows
\* old enough.  job_attempts rows cascade.
CleanupOldJobs(S) ==
    /\ S # {}
    /\ \A j \in S : status[j] \in Terminal
    /\ status' = [j \in Jobs |-> IF j \in S THEN "deleted" ELSE status[j]]
    /\ attempts' = [j \in Jobs |-> IF j \in S THEN {} ELSE attempts[j]]
    /\ UNCHANGED <<executor, fresh, createdAt, clock, maxRetries,
                   retryCount, retryDue, resultBy, loopVars>>

-----------------------------------------------------------------------------
(* Environment: a running job's heartbeats stop arriving for longer than   *)
(* the stale timeout (worker slow, partitioned or gone).                   *)
HeartbeatLapses(j) ==
    /\ status[j] = "running"
    /\ fresh[j]
    /\ lapses < MaxLapses
    /\ fresh' = [fresh EXCEPT ![j] = FALSE]
    /\ lapses' = lapses + 1
    /\ UNCHANGED <<status, executor, createdAt, clock, maxRetries,
                   retryCount, retryDue, resultBy, attempts, loopVars>>

\* Any client calls any handler.
ClientNext ==
    \/ \E j \in Jobs : SubmitJob(j)
    \/ \E j \in Jobs, mr \in 0..MaxRetriesBound : BulkSubmitJob(j, mr)
    \/ \E e \in Executors, j \in Jobs, rec \in BOOLEAN : ClaimNextJob(e, j, rec)
    \/ \E j \in Jobs, e \in Executors :
          \/ UpdateHeartbeat(j, e)
          \/ CompleteJob(j, e)
          \/ FailJob(j, e)
    \/ \E j \in Jobs : CancelJob(j)

StoreNext ==
    \/ FindStaleJobs
    \/ \E j \in Jobs : ResetStaleJob(j)
    \/ GetRetriableJobs
    \/ \E j \in Jobs : IncrementJobRetry(j)
    \/ \E j \in Jobs : RetryBackoffElapses(j)
    \/ \E S \in SUBSET Jobs : CleanupOldJobs(S)

Next ==
    \/ /\ ClientNext
       /\ UNCHANGED <<loopVars, lapses>>
    \/ StoreNext /\ UNCHANGED lapses
    \/ \E j \in Jobs : HeartbeatLapses(j)

Spec == Init /\ [][Next]_vars

-----------------------------------------------------------------------------
(* Properties.                                                             *)

\* The store implements the abstract lifecycle of JobLifecycle: statuses
\* follow the DAG of spec section 3, a failed job is requeued at most
\* max_retries times, and a running job always has an owner.  It is about
\* every conditioned UPDATE of the handlers and loops, including the
\* select-then-update loops whose rows can change in between.
Lifecycle == INSTANCE JobLifecycle WITH
    owner   <- [j \in Jobs |-> IF status[j] = "running" THEN executor[j]
                                                          ELSE NoExecutor],
    retries <- retryCount,
    budget  <- maxRetries

LifecycleRefinement == Lifecycle!Spec

=============================================================================
