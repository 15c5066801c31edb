------------------------------- MODULE Timers -------------------------------
(***************************************************************************)
(* The clocked side of one job: the flags that set the intervals           *)
(* (src/cmd/executr/main.go), the worker's heartbeat ticker                *)
(* (sendHeartbeats), and the coordinator's two tickers that act on time:   *)
(* heartbeatMonitor with FindStaleJobs/ResetStaleJob, and jobCleaner with  *)
(* CleanupOldJobs, and jobRetryWorker with GetRetriableJobs and           *)
(* IncrementJobRetry (src/unnamed/part_009 and the SQL).  Claiming the    *)
(* pending job again is left to JobStore and Executr: here it waits.       *)
(*                                                                         *)
(* Time is whole seconds in `now`.  Every ticker keeps the time of its     *)
(* next tick; time passes only when no tick is due, so ticks due at the    *)
(* same second interleave in every order.  The job was claimed at time 0   *)
(* (ClaimNextJob sets last_heartbeat = NOW()).  The retry ticker acts on *)
(* the job only while it is failed with retries left, and it is tracked   *)
(* only then: its phase is chosen when the job fails and forgotten when   *)
(* it is promoted.  This loses no behaviour; it only adds behaviours      *)
(* where two failures are not a whole number of periods apart.           *)
(*                                                                         *)
(* main.go holds two builds of the CLI: one with Duration flags converted  *)
(* by int(d.Seconds()) and one with Int flags in seconds.  Build selects   *)
(* which; a Duration flag's value is given in milliseconds.                *)
(***************************************************************************)
EXTENDS Integers

CONSTANTS
    Build,                 \* "duration_flags" or "int_flags"
    CleanupIntervalFlag,   \* --cleanup-interval
    JobRetentionFlag,      \* --job-retention
    HeartbeatTimeoutFlag,  \* --heartbeat-timeout
    HeartbeatIntervalFlag, \* the worker's --heartbeat-interval
    MaxRetries,            \* the job's max_retries
    RetryAfterAtClaim,     \* retry_after values a retried job may carry when claimed
    MaxHeartbeatDelay,     \* longest a heartbeat PUT takes to reach the row
    MaxClaimLatency,       \* longest from the claim's NOW() to the ticker's start
    MaxTime                \* the clock is explored up to this second

NoTime == -1

\* int(c.Duration(name).Seconds()): truncation of milliseconds to seconds.
DurationFlagSeconds(ms) == ms \div 1000

\* c.Int(name): the flag is already in seconds.
IntFlagSeconds(s) == s

\* server.Config as the Duration-flag serverCommand builds it.
DurationServerConfig ==
    [cleanupInterval  |-> DurationFlagSeconds(CleanupIntervalFlag),
     jobRetention     |-> DurationFlagSeconds(JobRetentionFlag),
     heartbeatTimeout |-> DurationFlagSeconds(HeartbeatTimeoutFlag)]

\* server.Config as the Int-flag serverCommand builds it.
IntServerConfig ==
    [cleanupInterval  |-> IntFlagSeconds(CleanupIntervalFlag),
     jobRetention     |-> IntFlagSeconds(JobRetentionFlag),
     heartbeatTimeout |-> IntFlagSeconds(HeartbeatTimeoutFlag)]

ServerConfig ==
    IF Build = "duration_flags" THEN DurationServerConfig ELSE IntServerConfig

\* executor.Config.HeartbeatInterval in the Duration-flag executorCommand.
DurationHeartbeatInterval == DurationFlagSeconds(HeartbeatIntervalFlag)

\* executor.Config.HeartbeatInterval in the Int-flag executorCommand.
IntHeartbeatInterval == IntFlagSeconds(HeartbeatIntervalFlag)

HeartbeatInterval ==
    IF Build = "duration_flags" THEN DurationHeartbeatInterval ELSE IntHeartbeatInterval

\* jobRetryWorker's ticker: time.NewTicker(30 * time.Second).
RetryPeriod == 30

\* IncrementJobRetry: retry_after = NOW() + INTERVAL '1 minute' *
\* POWER(2, retry_count), with retry_count before the increment.
Backoff(k) == 60 * 2^k

\* heartbeatMonitor's ticker: time.NewTicker(5 * time.Second).
MonitorPeriod == 5

\* FindStaleJobs: last_heartbeat < NOW() - INTERVAL '15 seconds'.  The
\* configured heartbeatTimeout is not used.
StaleAfter == 15

\* cleanupOldJobs: the retention in microseconds is
\* JobRetention * 3600000000, that is JobRetention * 3600 seconds.
RetentionInterval == ServerConfig.jobRetention * 3600

ASSUME /\ ServerConfig.cleanupInterval > 0
       /\ HeartbeatInterval > MaxHeartbeatDelay
       /\ RetryAfterAtClaim \subseteq 1..Backoff(0)

\* claimJob's answer reaches the worker, executeJob starts sendHeartbeats,
\* and only then does its ticker start: the first PUT is due one interval
\* after a moment up to MaxClaimLatency past the claim's NOW().
FirstHeartbeatAt == HeartbeatInterval..(HeartbeatInterval + MaxClaimLatency)

VARIABLES
    now,
    status,       \* the row: "running", "pending", "completed", "failed", "deleted"
    lastHB,       \* last_heartbeat
    completedAt,  \* completed_at
    worker,       \* the latest executeJob: "running", "done" (reported), "dead"
    retryCount,   \* retry_count
    retryAfter,   \* retry_after, or NoTime for NULL
    hbTick,       \* next tick of the job's heartbeat ticker
    hbLands,      \* when the heartbeat in flight reaches the row, or NoTime
    monitorTick,  \* next tick of heartbeatMonitor
    cleanupTick,  \* next tick of jobCleaner
    retryTick     \* next tick of jobRetryWorker, NoTime while it does not matter

vars == <<now, status, lastHB, completedAt, worker, hbTick, hbLands,
          monitorTick, cleanupTick, retryCount, retryAfter, retryTick>>

jobVars == <<retryCount, retryAfter, retryTick>>

\* Variant: the comparison includes the 15th second.
StaleInclusive(t) == lastHB <= t - StaleAfter

\* Variant: the interval is one second longer than written.
StaleLate(t) == lastHB < t - StaleAfter - 1

Stale(t) == lastHB < t - StaleAfter

\* CleanupOldJobs: status IN ('completed', 'failed', 'cancelled') AND
\* completed_at < NOW() - $1::interval.
Expired(t) ==
    /\ status \in {"completed", "failed"}
    /\ completedAt # NoTime
    /\ completedAt < t - RetentionInterval

\* Variant: a NULL retry_after is not taken as due (the IS NULL test is
\* missing, and NULL < NOW() is not true).
RetriableNullNotDue(t) ==
    /\ status = "failed"
    /\ retryCount < MaxRetries
    /\ retryAfter # NoTime /\ retryAfter < t

\* GetRetriableJobs: status = 'failed' AND retry_count < max_retries AND
\* (retry_after IS NULL OR retry_after < NOW()).
Retriable(t) ==
    /\ status = "failed"
    /\ retryCount < MaxRetries
    /\ retryAfter = NoTime \/ retryAfter < t

\* A ticker that starts to matter gets its phase: its next tick is any of
\* the next `period` seconds.
Arm(tick, period) ==
    IF tick = NoTime THEN tick' \in (now + 1)..(now + period)
                     ELSE UNCHANGED tick

\* The job claimed at time 0 is new, or was promoted once: IncrementJobRetry
\* set retry_after 60 s after the promotion, and ClaimNextJob ignores
\* retry_after, so it can still be ahead when the job is claimed.  The
\* heartbeat ticker starts only once the claim's answer has reached the
\* worker and executeJob has started sendHeartbeats.
Init ==
    /\ now = 0
    /\ status = "running"
    /\ lastHB = 0
    /\ completedAt = NoTime
    /\ worker = "running"
    /\ hbTick \in FirstHeartbeatAt
    /\ hbLands = NoTime
    /\ monitorTick \in 1..MonitorPeriod
    /\ cleanupTick \in 1..ServerConfig.cleanupInterval
    /\ \/ retryCount = 0 /\ retryAfter = NoTime
       \/ retryCount = 1 /\ retryAfter \in RetryAfterAtClaim
    /\ retryTick = NoTime

-----------------------------------------------------------------------------
(* The worker.                                                             *)

\* sendHeartbeats: on each tick, a Heartbeat PUT that reaches the row up
\* to MaxHeartbeatDelay seconds later.  The ticker stops with the job.
SendHeartbeat ==
    /\ worker = "running"
    /\ hbTick = now
    /\ hbTick' = now + HeartbeatInterval
    /\ \E d \in 0..MaxHeartbeatDelay : hbLands' = now + d
    /\ UNCHANGED <<now, status, lastHB, completedAt, worker, monitorTick,
                   cleanupTick, jobVars>>

\* handleHeartbeat / UpdateHeartbeat: WHERE status = 'running' (and the
\* executor, which is this one while the row is running).  A request sent
\* before a crash still arrives.
HeartbeatLands ==
    /\ hbLands = now
    /\ hbLands' = NoTime
    /\ lastHB' = IF status = "running" THEN now ELSE lastHB
    /\ UNCHANGED <<now, status, completedAt, worker, hbTick, monitorTick,
                   cleanupTick, jobVars>>

\* CompleteJob and FailJob: the row, if still running, takes the result
\* and completed_at = NOW(); a failure with retries left is what the retry
\* ticker waits for.
FinishRow(result) ==
    /\ status' = result
    /\ completedAt' = now
    /\ IF result = "failed" /\ retryCount < MaxRetries
       THEN Arm(retryTick, RetryPeriod)
       ELSE UNCHANGED retryTick

\* executeJob posts complete (exit code 0) or fail: CompleteJob and FailJob
\* WHERE status = 'running' set completed_at = NOW(); on a reset row they
\* match nothing.  The deferred cancelHeartbeat stops the ticker.
FinishJob ==
    /\ worker = "running"
    /\ worker' = "done"
    /\ \E result \in {"completed", "failed"} :
          IF status = "running"
          THEN FinishRow(result)
          ELSE UNCHANGED <<status, completedAt, retryTick>>
    /\ UNCHANGED <<now, lastHB, hbTick, hbLands, monitorTick, cleanupTick,
                   retryCount, retryAfter>>

\* The worker process dies; its tickers stop.
Crash ==
    /\ worker = "running"
    /\ worker' = "dead"
    /\ UNCHANGED <<now, status, lastHB, completedAt, hbTick, hbLands,
                   monitorTick, cleanupTick, jobVars>>

-----------------------------------------------------------------------------
(* The coordinator.                                                        *)

\* heartbeatMonitor tick: checkStaleJobs, FindStaleJobs then ResetStaleJob.
MonitorTick ==
    /\ monitorTick = now
    /\ monitorTick' = now + MonitorPeriod
    /\ IF status = "running" /\ Stale(now)
       THEN status' = "pending"
       ELSE UNCHANGED status
    /\ UNCHANGED <<now, lastHB, completedAt, worker, hbTick, hbLands,
                   cleanupTick, jobVars>>

\* jobCleaner tick: cleanupOldJobs deletes terminal rows whose
\* completed_at is older than the retention interval.
CleanupTick ==
    /\ cleanupTick = now
    /\ cleanupTick' = now + ServerConfig.cleanupInterval
    /\ status' = IF Expired(now) THEN "deleted" ELSE status
    /\ UNCHANGED <<now, lastHB, completedAt, worker, hbTick, hbLands,
                   monitorTick, jobVars>>

\* IncrementJobRetry: pending again, result, completed_at and last_heartbeat
\* cleared, retry_after from the count before the increment.
RetryPromote ==
    /\ status' = "pending"
    /\ retryCount' = retryCount + 1
    /\ retryAfter' = now + Backoff(retryCount)
    /\ completedAt' = NoTime
    /\ lastHB' = NoTime

\* jobRetryWorker tick: retryFailedJobs runs GetRetriableJobs and then
\* IncrementJobRetry, which puts the row back to pending, clears the
\* result, completed_at and last_heartbeat, and sets retry_after from the
\* count before the increment.
RetryTick ==
    /\ retryTick = now
    /\ IF Retriable(now)
       THEN RetryPromote
       ELSE UNCHANGED <<status, retryCount, retryAfter, completedAt, lastHB>>
    /\ retryTick' = IF status' = "failed" /\ retryCount < MaxRetries
                    THEN now + RetryPeriod ELSE NoTime
    /\ UNCHANGED <<now, worker, hbTick, hbLands, monitorTick, cleanupTick>>

\* A second passes once every tick due now has fired.
Tick ==
    /\ monitorTick # now
    /\ cleanupTick # now
    /\ retryTick # now
    /\ worker = "running" => hbTick # now
    /\ hbLands # now
    /\ now' = now + 1
    /\ UNCHANGED <<status, lastHB, completedAt, worker, hbTick, hbLands,
                   monitorTick, cleanupTick, jobVars>>

Next ==
    \/ SendHeartbeat \/ HeartbeatLands \/ FinishJob \/ Crash
    \/ MonitorTick \/ CleanupTick \/ RetryTick \/ Tick

Spec == Init /\ [][Next]_vars

\* The clock is explored up to MaxTime.
TimeBound == now <= MaxTime

-----------------------------------------------------------------------------
(* Properties.                                                             *)

\* A job whose worker is alive and heartbeating on schedule is never reset
\* as stale by checkStaleJobs: the claim latency plus the first interval
\* and PUT, and the gap between two heartbeats, stay within the 15 seconds
\* FindStaleJobs allows.
NoFalseStale ==
    [][status = "running" /\ status' = "pending" => worker # "running"]_vars

\* Spec section 8, stale recovery: the job of a crashed worker is requeued
\* no later than one monitor period after its heartbeat went stale.
StaleResetInTime ==
    (status = "running" /\ worker = "dead")
        => now <= lastHB + StaleAfter + MonitorPeriod

\* --job-retention: a finished job is deleted at the first cleanup tick
\* after it has been kept for the configured retention.
RetentionHonoured ==
    status = "completed"
        => now <= completedAt + ServerConfig.jobRetention + ServerConfig.cleanupInterval

\* The first second at which GetRetriableJobs returns the failed row.
RetryEligibleAt ==
    IF retryAfter = NoTime \/ retryAfter < completedAt THEN completedAt
                                                      ELSE retryAfter + 1

\* Spec section 4.2, retry promotion (tick about 30 s): a failed job with
\* retries left is back to pending no later than one jobRetryWorker period
\* after it became due: after its failure when retry_after is NULL, after
\* retry_after otherwise.  Takes FailJob, the lazily phased ticker, the
\* NULL test of GetRetriableJobs and the backoff set by the previous
\* promotion.
RetryPromptly ==
    (status = "failed" /\ retryCount < MaxRetries)
        => now <= RetryEligibleAt + RetryPeriod

=============================================================================
