------------------------------ MODULE Executr ------------------------------
(***************************************************************************)
(* The coordinator's store (JobStore) driven by real workers               *)
(* (src/internal/executor/executor.go): each executor process runs one     *)
(* claim loop (pollForJobs) bounded by a semaphore of MaxJobs slots, one   *)
(* executeJob goroutine per claimed job and one heartbeat pump per job.    *)
(* HTTP calls go through a client whose requests may fail before reaching *)
(* the server or whose response may be lost after the server acted.       *)
(* Processes may be shut down (context cancelled) or crash; a restarted    *)
(* process has a fresh executor id, so it is another member of Executors. *)
(***************************************************************************)
EXTENDS JobStore

CONSTANTS
    MaxJobs,       \* --max-jobs, size of the claim semaphore
    MaxNetFaults,  \* bound on failed or lost HTTP calls
    MaxStops,      \* bound on shutdowns plus crashes
    RejectedOutput \* jobs whose binary writes a 0x00 byte to stdout or stderr

VARIABLES
    proc,       \* "up", "stopping" (root context cancelled), "exited", "crashed"
    polling,    \* the pollForJobs goroutine is still looping
    netWindow,  \* networkFailureStart is set
    phase,      \* phase[e][j]: "idle", "prep" (mkdir, GetBinary) or "exec"
    netFaults,  \* failed or lost HTTP calls so far
    stops       \* shutdowns and crashes so far

workerVars == <<proc, polling, netWindow, phase, netFaults, stops>>
sysVars    == <<vars, workerVars>>

Phases == {"idle", "prep", "exec"}

Holding(e) == {j \in Jobs : phase[e][j] # "idle"}

SysTypeOK ==
    /\ TypeOK
    /\ proc \in [Executors -> {"up", "stopping", "exited", "crashed"}]
    /\ polling \in [Executors -> BOOLEAN]
    /\ netWindow \in [Executors -> BOOLEAN]
    /\ phase \in [Executors -> [Jobs -> Phases]]
    /\ netFaults \in 0..MaxNetFaults
    /\ stops \in 0..MaxStops

ASSUME RejectedOutput \subseteq Jobs

SysInit ==
    /\ Init
    /\ proc = [e \in Executors |-> "up"]
    /\ polling = [e \in Executors |-> TRUE]
    /\ netWindow = [e \in Executors |-> FALSE]
    /\ phase = [e \in Executors |-> [j \in Jobs |-> "idle"]]
    /\ netFaults = 0
    /\ stops = 0

\* The outcomes of one HTTP call: answered, failed before the server acted,
\* or acted upon with the answer lost.  The last two use the fault budget.
CallOutcomes == IF netFaults < MaxNetFaults
                THEN {"ok", "down", "lost"} ELSE {"ok"}

CountFault(o) == netFaults' = IF o = "ok" THEN netFaults ELSE netFaults + 1

-----------------------------------------------------------------------------
(* Claim loop.                                                             *)

\* pollForJobs after a failed claim: the first failure starts the network
\* failure window; a later one, once NetworkTimeout has passed (a time we do
\* not track, so either branch), returns from the loop for good.
ClaimFailed(e) ==
    IF ~netWindow[e]
    THEN /\ netWindow' = [netWindow EXCEPT ![e] = TRUE]
         /\ UNCHANGED polling
    ELSE /\ UNCHANGED netWindow
         /\ \/ UNCHANGED polling
            \/ polling' = [polling EXCEPT ![e] = FALSE]

\* claimJob through HTTPClient.ClaimNextJob: a 200 carries the job the
\* handler promoted and the worker starts executeJob on it; a 204 means
\* none was pending; a failed call changed nothing; a lost answer is an
\* error to the worker although the handler promoted a row.
ClaimCall(e, o) ==
    CASE o = "ok" ->
           \/ \E j \in Jobs, rec \in BOOLEAN :
                 /\ ClaimNextJob(e, j, rec)
                 /\ phase' = [phase EXCEPT ![e][j] = "prep"]
           \/ NoJobToClaim /\ UNCHANGED <<storeVars, phase>>
      [] o = "down" -> UNCHANGED <<storeVars, phase>>
      [] o = "lost" ->
           /\ \E j \in Jobs, rec \in BOOLEAN : ClaimNextJob(e, j, rec)
           /\ UNCHANGED phase

\* One poll tick that found a free semaphore slot (the `default:` branch,
\* at capacity, changes nothing).  When the root context is already
\* cancelled, Go's select may still pick the ticker case, so a stopping
\* process can claim too.  claimJob uses context.Background().
PollTick(e) ==
    /\ proc[e] \in {"up", "stopping"}
    /\ polling[e]
    /\ Cardinality(Holding(e)) < MaxJobs
    /\ \E o \in CallOutcomes :
        /\ CountFault(o)
        /\ ClaimCall(e, o)
        /\ IF o = "ok" THEN /\ netWindow' = [netWindow EXCEPT ![e] = FALSE]
                           /\ UNCHANGED polling
                      ELSE ClaimFailed(e)
    /\ UNCHANGED <<loopVars, lapses, proc, stops>>

\* The loop's ctx.Done() case.
PollLoopExits(e) ==
    /\ proc[e] # "up"
    /\ polling[e]
    /\ polling' = [polling EXCEPT ![e] = FALSE]
    /\ UNCHANGED <<vars, proc, netWindow, phase, netFaults, stops>>

-----------------------------------------------------------------------------
(* executeJob.                                                             *)

\* A terminal post (CompleteJob or FailJob through the retrying client):
\* it reaches the server, or every attempt fails and it is only logged.
PostResult(j, e, outcome) ==
    \E o \in CallOutcomes \ {"lost"} :
        /\ CountFault(o)
        /\ IF o = "ok" THEN FinishJob(j, e, outcome)
                       ELSE UNCHANGED storeVars

\* failJob: the error text becomes the error message of a FailJob post
\* whose failure is only logged.
ReportFailure(j, e) == PostResult(j, e, "failed")

\* executeJob up to the runner: the job directory is created and the binary
\* obtained from the cache; if either fails the job is failed through
\* failJob and the goroutine returns, releasing its semaphore slot.
PrepareJob(e, j) ==
    /\ phase[e][j] = "prep"
    /\ \/ /\ phase' = [phase EXCEPT ![e][j] = "exec"]
          /\ UNCHANGED <<storeVars, netFaults>>
       \/ /\ phase' = [phase EXCEPT ![e][j] = "idle"]
          /\ ReportFailure(j, e)
    /\ UNCHANGED <<loopVars, lapses, proc, polling, netWindow, stops>>

\* runner.Execute(e.ctx) then the report.  exec.CommandContext kills the
\* child when the root context is cancelled (exit code -1, reported as a
\* failure), unless the child exits first.
RunOutcomes(e) == IF proc[e] = "up" THEN {"zero", "nonzero"}
                                    ELSE {"zero", "nonzero", "killed"}

\* handleCompleteJob / handleFailJob on such an output: the JSON body
\* decodes to a string holding the byte 0x00, which a PostgreSQL TEXT value
\* cannot hold, so CompleteJob or FailJob errors and the handler answers
\* 500 without touching the row.  The client's error is only logged.
ReportRejected(j) ==
    /\ j \in RejectedOutput
    /\ UNCHANGED <<storeVars, netFaults>>

RunJob(e, j) ==
    /\ phase[e][j] = "exec"
    /\ \/ ReportRejected(j)
       \/ /\ j \notin RejectedOutput
          /\ \E r \in RunOutcomes(e) :
                PostResult(j, e, IF r = "zero" THEN "completed" ELSE "failed")
    /\ phase' = [phase EXCEPT ![e][j] = "idle"]
    /\ UNCHANGED <<loopVars, lapses, proc, polling, netWindow, stops>>

\* sendHeartbeats: one delivered heartbeat of a job in flight.  The pump's
\* context derives from the root context, so it stops at shutdown.
SendHeartbeat(e, j) ==
    /\ proc[e] = "up"
    /\ phase[e][j] # "idle"
    /\ UpdateHeartbeat(j, e)
    /\ UNCHANGED <<loopVars, lapses, workerVars>>

-----------------------------------------------------------------------------
(* Process lifecycle.                                                      *)

\* SIGINT/SIGTERM cancels the root context.
Shutdown(e) ==
    /\ proc[e] = "up"
    /\ stops < MaxStops
    /\ proc' = [proc EXCEPT ![e] = "stopping"]
    /\ stops' = stops + 1
    /\ UNCHANGED <<vars, polling, netWindow, phase, netFaults>>

\* Run returns after wg.Wait(): the loop and every executeJob are done.
ProcessExits(e) ==
    /\ proc[e] = "stopping"
    /\ ~polling[e]
    /\ Holding(e) = {}
    /\ proc' = [proc EXCEPT ![e] = "exited"]
    /\ UNCHANGED <<vars, polling, netWindow, phase, netFaults, stops>>

\* The process dies; its goroutines vanish without reporting.
Crash(e) ==
    /\ proc[e] \in {"up", "stopping"}
    /\ stops < MaxStops
    /\ proc' = [proc EXCEPT ![e] = "crashed"]
    /\ polling' = [polling EXCEPT ![e] = FALSE]
    /\ phase' = [phase EXCEPT ![e] = [j \in Jobs |-> "idle"]]
    /\ stops' = stops + 1
    /\ UNCHANGED <<vars, netWindow, netFaults>>

-----------------------------------------------------------------------------
(* Time and the coordinator.                                               *)

\* No heartbeat for a running job can come: its owner does not run it or
\* no longer pumps.  After the stale timeout its last_heartbeat is old.
Unheartbeated(j) ==
    ~\E e \in Executors :
        executor[j] = e /\ proc[e] = "up" /\ phase[e][j] # "idle"

HeartbeatTimesOut(j) ==
    /\ status[j] = "running"
    /\ fresh[j]
    /\ Unheartbeated(j)
    /\ fresh' = [fresh EXCEPT ![j] = FALSE]
    /\ UNCHANGED <<status, executor, createdAt, clock, maxRetries,
                   retryCount, retryDue, resultBy, attempts, loopVars,
                   lapses, workerVars>>

\* Users submit and cancel jobs.
UserNext ==
    \/ \E j \in Jobs : SubmitJob(j)
    \/ \E j \in Jobs, mr \in 0..MaxRetriesBound : BulkSubmitJob(j, mr)
    \/ \E j \in Jobs : CancelJob(j)

SysNext ==
    \/ UserNext /\ UNCHANGED <<loopVars, lapses, workerVars>>
    \/ StoreNext /\ UNCHANGED <<lapses, workerVars>>
    \/ \E j \in Jobs : HeartbeatLapses(j) /\ UNCHANGED workerVars
    \/ \E j \in Jobs : HeartbeatTimesOut(j)
    \/ \E e \in Executors :
          \/ PollTick(e)
          \/ PollLoopExits(e)
          \/ \E j \in Jobs : PrepareJob(e, j) \/ RunJob(e, j)
                             \/ SendHeartbeat(e, j)
          \/ Shutdown(e)
          \/ ProcessExits(e)
          \/ Crash(e)

\* Tickers keep firing while their process lives, the coordinator's loops
\* tick, and time passes.  Users, crashes, shutdowns and cleanup (which
\* needs the retention to pass) are not fair.  Neither are PrepareJob and
\* RunJob: the cache's download has no deadline and no context (spec
\* section 5: "Binary download blocks without timeout") and runs under
\* the cache mutex, and the job's binary may never exit, while the
\* heartbeat pump, started before both, keeps the job fresh.
Fairness ==
    /\ \A e \in Executors :
          /\ WF_sysVars(PollTick(e))
          /\ WF_sysVars(PollLoopExits(e))
          /\ WF_sysVars(ProcessExits(e))
    /\ WF_sysVars(FindStaleJobs /\ UNCHANGED <<lapses, workerVars>>)
    /\ WF_sysVars(\E j \in Jobs : ResetStaleJob(j)
                                   /\ UNCHANGED <<lapses, workerVars>>)
    /\ WF_sysVars(GetRetriableJobs /\ UNCHANGED <<lapses, workerVars>>)
    /\ WF_sysVars(\E j \in Jobs : IncrementJobRetry(j)
                                   /\ UNCHANGED <<lapses, workerVars>>)
    /\ \A j \in Jobs :
          /\ WF_sysVars(RetryBackoffElapses(j)
                        /\ UNCHANGED <<lapses, workerVars>>)
          /\ WF_sysVars(HeartbeatTimesOut(j))

SysSpec == SysInit /\ [][SysNext]_sysVars /\ Fairness

-----------------------------------------------------------------------------
(* Properties.                                                             *)

Settled == {"completed", "failed", "cancelled", "deleted"}

\* The hypothesis of JobsSettle: every download ends and every job binary
\* exits.  The code does not guarantee it (see Fairness).
DownloadsAndRunsEnd ==
    \A e \in Executors, j \in Jobs :
        WF_sysVars(PrepareJob(e, j)) /\ WF_sysVars(RunJob(e, j))

\* Every submitted job is eventually completed, failed, cancelled or
\* deleted, through lost claim answers, lost reports, crashes and
\* shutdowns, provided downloads end and binaries exit: stale recovery
\* and the status-conditioned reports (spec sections 4.2 and 5) recover
\* every other loss.
JobsSettle ==
    DownloadsAndRunsEnd =>
        \A j \in Jobs : status[j] \in {"pending", "running"} ~> status[j] \in Settled

\* A failed job with retries left is eventually put back to pending by the
\* retry loop (spec section 4.2, retry promotion), even when a LIMIT of
\* one row and the text ordering of priorities put another failed job
\* ahead of it.  Deletion is allowed: the model has no clock to tell the
\* retention from the backoff.
RetriesHappen ==
    \A j \in Jobs :
        (status[j] = "failed" /\ retryCount[j] < maxRetries[j])
            ~> status[j] \in {"pending", "deleted"}

\* Spec section 5: after a stale reset "the original worker's eventual
\* complete/fail call will be silently dropped by the status-conditioned
\* update": the stored result of a finished job comes from its current
\* executor_id.
StaleReportDropped ==
    \A j \in Jobs :
        status[j] \in {"completed", "failed"} => resultBy[j] = executor[j]

\* Stale recovery (spec section 8.5) resets only running jobs whose last
\* heartbeat is older than the timeout: checkStaleJobs never requeues a
\* job whose heartbeat is current.
ResetOnlyStale ==
    [][\A j \in Jobs :
          (status[j] = "running" /\ status'[j] = "pending") => ~fresh[j]
      ]_sysVars

\* Spec section 4.5: once the network failure window exceeds the timeout
\* the claim loop stops and the worker "exits cleanly once in-flight jobs
\* drain".
QuiescedWorkerExits ==
    \A e \in Executors :
        (proc[e] = "up" /\ ~polling[e] /\ Holding(e) = {})
            ~> proc[e] \in {"exited", "crashed"}

=============================================================================
