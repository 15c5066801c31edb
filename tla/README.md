# TLA+ models of executr

These modules model the job queue of executr (draganm/executr), its
workers, and the places where they meet. They are checked with TLC.

## The system

* **Coordinator** (`src/unnamed/part_009`, package `server`). An HTTP API
  sits over a PostgreSQL table `jobs` and a table `job_attempts`. The SQL
  is in `src/internal/db/migrations/001_initial_schema.up.sql`. Every
  handler is one SQL statement, and its WHERE clause encodes the prior
  state:
  * submit and bulk submit do an INSERT;
  * claim uses `FOR UPDATE SKIP LOCKED`, followed by a separate
    best-effort `RecordJobAttempt`;
  * heartbeat updates the row WHERE id, executor and running;
  * complete and fail update it WHERE running;
  * cancel updates it WHERE pending.

  Three goroutines run beside the handlers:
  * `checkStaleJobs`, every 5 s: `FindStaleJobs`, then `ResetStaleJob`
    per row;
  * `retryFailedJobs`, every 30 s: `GetRetriableJobs LIMIT 10`, then
    `IncrementJobRetry` per row;
  * `cleanupOldJobs`: one DELETE.
* **Worker** (`src/internal/executor/executor.go`). The process runs:
  * one claim loop, `pollForJobs`. It takes a slot of a semaphore of
    `MaxJobs` before each claim and keeps a network-failure window;
  * one `executeJob` goroutine per claimed job. It makes the directory,
    gets the binary from the cache, runs it with `runner.Execute(e.ctx)`,
    then posts complete or fail;
  * one `sendHeartbeats` goroutine per job.

  Shutdown cancels the root context. `Run` then waits for the goroutines.
* **Client** (`src/pkg/client/client.go`, `src/unnamed/part_005`). Each
  call goes through a transport that retries on errors and 5xx. The
  cloned request shares a body reader that the first attempt already
  drained. The retried POST or PUT therefore sends no body bytes after
  announcing a non-zero Content-Length. Net/http fails that attempt,
  and it never reaches a handler whole. A call's
  effect is therefore one of three cases:
  * it is answered;
  * it fails before the server acted;
  * the server acted and the answer was lost.
* **Binary cache, downloader and runner** (`src/unnamed/part_007`,
  `src/unnamed/part_006`, `src/internal/executor/runner.go`). These are
  local to one worker.

The coordinator and the workers interact only through the HTTP calls.
Workers interact with each other only through the rows.

## Modules

| Module | Models | State and actions |
|---|---|---|
| `JobLifecycle` | The abstract lifecycle of a job (spec section 3) | `status`, `owner`, `retries`, `budget`; the actions Create, Start, Finish, Requeue, Cancel, Retry and Purge |
| `JobStore` | The rows and every handler and loop that writes them | One action per handler. The two select-then-update loops have a scan action (`FindStaleJobs`, `GetRetriableJobs`) and a per-row action (`ResetStaleJob`, `IncrementJobRetry`). The rows a scan returned are kept in `staleScan` and `retryScan`, because other handlers run before the per-row updates |
| `Executr` | JobStore driven by real workers | Per executor: `proc` (up, stopping, exited, crashed), `polling`, `netWindow`, and `phase[e][j]` (idle, prep, exec). The actions are `PollTick`, `PollLoopExits`, `PrepareJob`, `RunJob`, `SendHeartbeat`, `Shutdown`, `ProcessExits` and `Crash`. The constant `RejectedOutput` names the jobs whose binary prints a NUL byte; for them `RunJob` takes `ReportRejected`, the 500 that `handleCompleteJob` and `handleFailJob` answer when PostgreSQL refuses the TEXT value, and the row is unchanged |
| `BinaryCache` | One worker's binary cache (`part_007`) | Keys are `Bin(d)` (the file named by the digest) and `Tmp(d)` (its `.tmp`). `index` (the keys of `c.entries`) with `esize` and `lastAccess`; `files` on disk with `fsize` and `mtime`; `intact` (the files whose SHA-256 matches their name); and per caller `pc` and `path`. Times are kept as ranks. `GetBinary` is one step under the cache mutex: a hit, or a miss that deletes a failed entry and then either fails the download, fails `os.Stat` after the rename (file kept, no entry), or inserts and runs `evictIfNeeded` (the RECURSIVE `Evict`), whose `os.Remove` calls may fail and leave files behind. The other actions are `StartBinary` (the runner starts the returned path), `Tamper` (a file deleted or rewritten with a new size) and `Restart`. `Restart` is `loadEntries`: every file on disk becomes an entry with its current size and mtime, a `.tmp` left by a download killed with the process included, and nothing is evicted |
| `Truncate` | `truncateOutput` in `runner.go` | The algorithm is operators: `SplitLines`, `JoinLines`, `Marker` (the Sprintf line with its decimal digits), `TailScan` and `TruncateOutput`. One action applies it to a captured output |
| `Timers` | The clocked loops and the flags that set them (`main.go`, `sendHeartbeats`, `heartbeatMonitor`, `jobCleaner`, `jobRetryWorker` with `GetRetriableJobs` and `IncrementJobRetry`) | `now` in seconds; the row's `status`, `lastHB`, `completedAt`, `retryCount` and `retryAfter`; the worker state; the next tick of each ticker; a heartbeat in flight. The actions are `SendHeartbeat`, `HeartbeatLands`, `FinishJob` (with the row update `FinishRow`), `Crash`, `MonitorTick`, `CleanupTick`, `RetryTick` (with `RetryPromote`) and `Tick`. Time passes only once every due tick has fired. The retry ticker's phase is chosen when the job fails and forgotten when it is promoted; this only adds behaviours. Reclaiming a pending job is left to `JobStore` and `Executr`. `Build` picks which of the two CLI versions in `main.go` (Duration or Int flags) builds the configuration |
| `MCJobStore`, `MCExecutr`, `MCBinaryCache` | Model values and definitions for TLC | |

Time is abstracted in three ways:
* `fresh[j]` means that `last_heartbeat` is within the stale timeout.
* `retryDue[j]` means that `retry_after` has passed.
* A running job whose owner cannot heartbeat it loses freshness
  (`HeartbeatTimesOut`). This covers a crashed or stopping owner, a
  claim whose answer was lost, and a job the owner no longer holds.

A heartbeat lapse while the owner is alive and running the job is an
environment step, bounded by `MaxLapses`. HTTP faults are bounded by
`MaxNetFaults`. Shutdowns and crashes together are bounded by
`MaxStops`. A restarted process gets a new executor id, so another member
of `Executors` plays it.

`attempts[j]` is the set of executors that have an attempt row for `j`.
The claim handler inserts the row with status `running`, and no code ever
updates the row, so every row in the set is still running. Keeping the
set rather than the append-only log keeps the state space finite: a
stopping worker may claim, lose and reclaim a job without bound.

## Runs

| Run | Config | Result | What it shows |
|---|---|---|---|
| store_refines_lifecycle | `JobStore.cfg` | pass | Arbitrary clients and the three loops keep the rows within the abstract lifecycle, checked as `LifecycleRefinement` through `INSTANCE JobLifecycle WITH owner <- ..., retries <- retryCount, budget <- maxRetries`. Uses 2 jobs and 2 executors, with executor symmetry |
| workers_one_job | `Executr.cfg` | pass | Checks `JobsSettle`: every job is eventually completed, failed for good or deleted, under the hypothesis `DownloadsAndRunsEnd` (see Fairness). The bounds are 1 job, 2 workers, 1 HTTP fault (failed or lost), 1 shutdown or crash, and 1 heartbeat lapse |
| workers_two_jobs | `Executr_two_jobs.cfg` | pass | Checks `RetriesHappen` with one worker, two jobs (`best_effort` and `foreground`) and `GetRetriableJobs` limited to one row, so the text order of priorities always puts one failed job behind the other. Every failed job with retries left is still promoted again or deleted by cleanup. The second job's reports are refused (`RejectedOutput`), so it is also reset and reclaimed |
| late_report_wins | `Executr_stale_report.cfg` | violation | A late complete from a worker whose job was reset and reclaimed is accepted |
| reset_of_fresh_job | `Executr_reset_fresh.cfg` | violation | A heartbeat between `FindStaleJobs` and `ResetStaleJob` does not prevent the reset |
| report_rejected_forever | `Executr_rejected_output.cfg` | violation | `JobsSettle` fails for one job whose binary prints a NUL byte: each report gets a 500, the job goes stale, is reset without counting a retry, is reclaimed and run again, forever |
| quiesced_worker_hangs | `Executr_quiesce.cfg` | violation | With 2 faults, the claim loop gives up, and `Run`, waiting only on `ctx.Done()`, never returns |
| timers_default | `Timers.cfg` | pass | The Duration-flag build with a 10 s heartbeat interval, explored for 45 s of clock. The heartbeat ticker starts up to 2 s after the claim's `NOW()` (`MaxClaimLatency`: the claim's answer and the start of `executeJob`), and a PUT takes up to 3 s. Under these bounds a live worker's job is never reset (`NoFalseStale`): the first heartbeat lands at most 15 s after the claim, and the SQL comparison is strict. With either bound one second longer, TLC finds the live job reset, so the margin is exactly 5 s for both latencies together. A crashed worker's job is reset within 20 s of its last heartbeat. A failed job with retries left is promoted within one 30 s retry period of its failure or of the end of its backoff (`RetryPromptly`); the job starts either new or on its second try with `retry_after` 5 or 20 s ahead, because `ClaimNextJob` ignores `retry_after` |
| retention_units | `Timers_retention.cfg` | violation | With `--job-retention` of 2 s and a 3 s cleanup interval, a completed job is still there at 6 s, because `cleanupOldJobs` treats the seconds as hours |
| cache_lru | `BinaryCache.cfg` | pass | Two concurrent callers, three binaries (1, 1 and 2 MB), a 2 MB budget, one restart, one tampered file and one failed `os.Stat` or `os.Remove`. Every insertion keeps exactly the most recently used entries that fit (`LRUEviction`, against the declarative `KeptByLRU`), whatever a restart or a failed removal put in the index |
| binary_evicted_before_start | `BinaryCache_evicted.cfg` | violation | Another job's download evicts a binary after GetBinary returned it and before the runner starts it |
| truncate_output | `Truncate.cfg` | pass | Checks every output up to 11 bytes, with the cap scaled to 8 bytes and 2 head lines. The result fits the cap, and the kept tail is the longest that fits (`KeepsLongestTail`) |

Why the bounds are enough:
* One fault, one stop and one lapse reach every recovery path: a lost
  claim, a lost report, a crash mid-job, a shutdown mid-job, and a reset
  of a job still being run.
* Two workers let a job be reclaimed by a worker other than the one that
  lost it.
* The retry run needs two jobs to exercise the LIMIT and the ordering, but
  no contention. It therefore has one worker and no faults. With two jobs
  and two workers, the liveness check takes more than 5 minutes.
* `MCJobStore` defines two jobs, `j1` (`best_effort`) and `j2`
  (`foreground`).
* In the cache, sizes 1, 1 and 2 against a budget of 2 make an insertion
  evict none, one or two entries. Two callers are enough for one to hold
  a path while the other evicts it.
* For truncation, 11 bytes against a cap of 8 reach all four paths: the
  output returned whole, the byte cut with few lines, the head and marker
  overflowing the cap, and the head, marker and tail. The 2-digit byte
  count reaches the marker's width change. The marker's fixed text is
  scaled to 0 bytes, like the cap.

The clock in `Timers` is bounded by the state constraint `TimeBound`:
* 45 s covers two stale thresholds after the first heartbeats, and a
  failure followed by a whole 30 s retry period. The first backoff is 60 s,
  so a retried job starts with `retry_after` 5 or 20 s ahead
  (`RetryAfterAtClaim`). That way its expiry falls within the horizon;
  `MaxRetries = 2` leaves it one retry;
* 12 s covers the retention run's deadline of 2 + 3 s;
* the runs check only safety properties, so cutting behaviours at the
  bound is sound.

A heartbeat PUT takes 0 to 3 s to reach the row (`MaxHeartbeatDelay`).
This is less than the interval, so the ticker never drops a tick. The
ticker's start comes 0 to 2 s after the claim (`MaxClaimLatency`). Longer
delays are one of the lapses that `Executr` models.

## Fairness

The fairness assumptions follow from how the code schedules work:
* Each worker's claim loop and exit path keep running while the process
  lives (weak fairness per executor).
* Preparing a job (`PrepareJob`) and running its binary (`RunJob`) are
  not fair. The download in `GetBinary` has no timeout and no context,
  and it runs under the cache mutex; spec section 5 says it blocks
  without timeout. The binary may never exit. Meanwhile the heartbeat
  pump, started before both, keeps the job fresh. `JobsSettle` is
  therefore stated as `DownloadsAndRunsEnd => ...`: weak fairness of both
  actions is a hypothesis of the property, not an assumption of the
  specification.
* The coordinator's stale and retry loops are tickers (weak fairness on
  their scan and per-row actions).
* Retry backoff and the heartbeat timeout are the passing of time.

The following are not fair, because nothing in the code forces them:
* user calls;
* crashes and shutdowns;
* heartbeat lapses;
* cleanup, which needs the 48 h retention to pass.

## Findings

See `findings` in `PROJECT.json`. In short:
* a late report overwrites a re-run;
* the stale reset does not re-check the heartbeat;
* completed jobs are kept 3600 times longer than `--job-retention`;
* a worker whose claim loop stopped never exits;
* a job whose output contains a NUL byte is never settled: its reports
  are refused with a 500 and stale recovery re-runs it forever;
* a binary in use can be evicted by another job's download.

Hazards without a run (see `hazards`) include the following:
* attempt rows are never closed;
* a binary larger than the cache is returned after it was evicted (no
  run has one);
* after a restart the cache can stay above its budget. `loadEntries`
  indexes every file without evicting: a `.tmp` left by a killed
  download, files whose `os.Remove` or `os.Stat` failed, and files
  rewritten with a new size;
* a stalled download holds the cache mutex forever (the hypothesis of
  `JobsSettle`);
* shutdown kills the jobs in flight, and claims can happen after the
  shutdown signal. Both were shown by earlier runs. `Executr` still
  models both, but the runs were retired to make room for the clock;
* `--heartbeat-timeout` is never read, because the SQL hard-codes 15 s;
* a sub-second Duration flag becomes a 0 s ticker, which panics.

## Not modelled yet

The following are planned as their own modules:
* the retrying HTTP transport's individual attempts (spec section 4.6
  says that only reads and heartbeats are retried).

Not modelled at all:
* metrics and health: the Prometheus counters and the HTTP middleware
  (`normalizeEndpoint`, the status-capturing writer) only observe
  requests and never change what a handler does;
* the CLI's flag parsing;
* the database connection and migrations;
* the mock client and the tests.
