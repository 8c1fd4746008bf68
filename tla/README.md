# MediaFusion: a TLA+ model of its coordination protocols

MediaFusion is a Stremio/Kodi add-on server. `backend/` (Rust) is the program:
an API binary, a worker binary, PostgreSQL and Redis, any number of replicas of
each binary. `clients/` are user interfaces. `python-deprecated/` is the former
implementation, "archived and not active" (`docs/contributing.md:14`), but most
of the repository's lines; two of its parts, the task queue and the moderation
of user content, carry coordination logic of their own and are modelled too.
Most of the backend fetches, parses and upserts; what is hard
to get right, and hard to test, is how its processes coordinate through the two
stores. That is what this project models, checks with TLC and proves with
TLAPS.

All paths below are relative to `backend/src/` unless they start with
`backend/`, `docs/` or `py/`, which stands for `python-deprecated/`.

## 1. Inventory

| Component | State | Operations | Interacts with |
|---|---|---|---|
| Job queue runner (`jobs/runner.rs`, `jobs/error.rs`) | rows of `jobs`, a semaphore and spawned tasks per runner | start (reclaim, LISTEN), claim, execute, mark success / cancelled / dead / retry | enqueue, tokens, admin endpoints, every handler |
| Enqueue (`jobs/enqueue.rs`) | `dedupe_key` of the rows | release the key of finished rows, insert or skip | routes, scheduler |
| Cancellation tokens (`jobs/cancel_tokens.rs`) | process-wide map job id -> token | register, cancel, deregister | runner, NOTIFY `job_cancel` |
| Inline runs (`jobs/registry.rs`) | a `running` row owned by `inline-cli` | insert, run, mark | jobs table |
| Admin task endpoints (`routes/admin_scrapers.rs`) | none of their own | cancel, retry, close ancient running rows | jobs table |
| Cron scheduler (`jobs/scheduler.rs`) | `cron_jobs.last_enqueued_at`, a session advisory lock | acquire, tick, enqueue, stamp, verify, unlock | enqueue |
| Playback deduplication (`routes/playback_dedup.rs`, `routes/playback.rs`, `routes/usenet.rs`) | Redis keys: cached URL and lock with TTL; a guard with a refresh task per request | prepare, wait, reclaim, acquire, resolve, store, release, drop | debrid and Usenet providers |
| Keyword-blocked recompute (`state.rs`, `routes/admin_keyword_filters.rs`) | rows lease, request, marker of `keyword_sync_state`; `media.is_keyword_blocked` | schedule, claim, renew, sweep, publish, release, abort | keyword tables, process start |
| Background search (`scrapers/background_queue.rs`, `jobs/handlers/background_search.rs`) | Redis hashes of titles, set of titles in processing | enqueue, scan, take, scrape, record, unmark | stream route, job queue, orchestrator |
| Python task queue (`py/workers/task_queue.py`, `py/api/routers/admin/task_management.py`) | Redis: a stream of entries per queue, a status record per task, a set of running ids, cancellation markers, interval stamps | send, delayed send, execute, retry, redeliver, cancel | taskiq, every actor |
| Python contributions and suggestions (`py/api/routers/content/`) | rows of contributions, suggestions, streams; `contribution_points` | submit, approve automatically, review, bulk review, reject an approved import, delete | import processing, stream visibility |
| IMDb import (`jobs/handlers/imdb_dataset_import/`) | its rows of `jobs` | check for an active import, reclaim after 15 minutes | job queue |
| Contributions, suggestions, votes of the backend (`routes/content/`, `routes/moderator.rs`) | contribution rows and vote counts | submit, vote, approve, reject, apply | metadata store |
| Integration sync (`jobs/handlers/integration_syncs.rs`) | last-sync times and watch history | pull, push | job queue, Trakt, Simkl |
| Rate limiter (`rate_limit_middleware.rs`) | Redis counter per client and window | INCR, EXPIRE, compare | every route |
| Egress watchdog (`util/egress_watchdog.rs`) | health of the outgoing connection | probe, trip, recover | scrapers |
| Telegram login and bot (`services/telegram_login.rs`, `bot/`) | pending logins, wizard state | send code, verify, persist | Redis, PostgreSQL |
| Stores, scrapers, providers, parser, routes, front ends | PostgreSQL rows; otherwise stateless | upsert, merge, fetch, parse, render | external services |

The hard behaviours are of six kinds: two processes at one row or key; a process
that dies between two statements; a decision on a value read one round trip
earlier; an outcome or a DEL that arrives late; timers of two parties that
start at different moments; and a chain of waits and retries that must end.
`PROJECT.json` lists them, each at its line, with the properties that are about
them.

What makes each component correct:

* queue: a row has one execution; attempts are bounded; final statuses are
  final; a key has one holder; every job ends;
* scheduler: an occurrence fires once, and fires;
* playback: one resolve per stream at a time, no resolve for a cached URL,
  every request ends, no lock for ever;
* recompute: sweeps exclude each other as long as statements succeed, and one
  that has lost its lease ends in time; the marker is written by the latest
  claimant only, tells the truth about the rows and converges to the live
  keyword tables;
* background search: a mark has an owner, the interval is kept, every title
  gets its turn unless others fill the batch;
* Python task queue: a cancelled task does not start as long as its marker can
  be read, two runs are an interval apart, records and the running set tell the
  truth when a task is over;
* moderation: every item is settled once, points add up, a stream is visible
  when an import of it is approved, and blocked, where that is switched on, when enough users report it.

Several of these hold only with an exception, because that is what the code
does. The exception is then a named part of the property (a history variable
that says that the exceptional step has happened), never a restriction of the
model.

## 2. Modules

| Module | Models | Checked by | Proofs |
|---|---|---|---|
| `JobQueue` | runner, enqueue, tokens, inline runs, admin endpoints | `MCJobQueue` | `JobQueueProofs` |
| `JobScheduler` | cron scheduler | `MCJobScheduler` | `JobSchedulerProofs` |
| `PlaybackDedup` | playback deduplication | `MCPlaybackDedup` | `PlaybackDedupProofs` |
| `KeywordRecompute` | keyword-blocked recompute | `MCKeywordRecompute` | `KeywordRecomputeProofs` |
| `BackgroundSearch` | background search queue and handler | `MCBackgroundSearch` | `BackgroundSearchProofs` |
| `JobLifecycle` | what the job queue promises about the status of a row (abstract) | through `JobQueue` | `JobQueueProofs` |
| `TaskiqQueue` | the Python task queue and its admin endpoints | `MCTaskiqQueue` | `TaskiqQueueProofs` |
| `Moderation` | the Python contribution, import and suggestion routers | `MCModeration` | `ModerationProofs` |

`CountingLemmas` holds what the proofs need to know about cardinalities and is
used by the proofs of JobQueue, JobScheduler and Moderation.

An MC module adds to its module the symmetry set, where a run without liveness
uses one, and the values of constants that are functions; the other constants
are given in the `.cfg` files. Definitions marked *Variant* are plausible wrong versions of
the definition that follows them: replacing it by the variant must break the
property named in `PROJECT.json`. They are not part of any specification.

### JobQueue

One queue of the table. A row keeps status, attempts, max_attempts, worker_id,
cancel_requested and dedupe_key; `due` stands for `scheduled_at <= now()` and
`age` for the class of `now() - started_at` (under 30 minutes, beyond,
beyond the limit of the admin page). `execs` holds the executions alive in some
process with the phase each is in. Every SQL statement is a step of its own:

* `ReleaseKey`, then `InsertKeyed` or `InsertSkipped`: `enqueue` with a key;
  `InsertPlain`: without one, also `retry_task`;
* `Start`, `StartFails`, `Crash`: the life of `run_loop`. `Start` includes
  `reclaim_stale_jobs`; a graceful stop is a `Crash`, since spawned tasks are
  dropped where they are;
* `ClaimAndDispatch`, `Register`, `HandlerReturns`: `claim_jobs` and the spawned
  task, up to `deregister`;
* `MarkSuccess`, `MarkCancelled`, `ReadAttempts` followed by `MarkDead` or
  `MarkRetry`, and `MarkLost` for a statement whose error is dropped;
* `InlineStart`, `InlineEnd`, `InlineLost`; `NotifyCancel`; `CancelPending`,
  `CancelRunning`, `ReclaimAncient`; `BecomeDue`, `GrowOld` (the clock).

Left out: priority and order of the claim (any subset of the claimable rows may
be claimed), payloads, messages, the length of the backoff (never due at once).
Claim and spawn are one step: a claim whose answer is lost leaves the rows as a
crash right after it does.

### JobLifecycle

The abstract specification `JobQueue` implements: a row appears once, waits,
runs, may return to waiting, and ends; an end is final. Nothing is said about
processes, executions or statements. A row that a reclaim took from a running
execution leaves this regime (`Taken`, `Disputed`) and only never disappears.
`JobQueue` instantiates it as `Life` with the status column as `state` and the
reclaimed rows as `taken`; `LifecycleKept` is `Life!Spec`.

### JobScheduler

One enabled cron job, because `tick_once` treats them one after another.
Time is counted in ticks; the cron expression is a period. The clock of the
process (`scheduler.rs:111`) and `now()` of the database (176, 188) are one:
clock skew is not modelled. `ReadCron` takes the clock and the row, `Enqueue` inserts under the minute key, `Stamp` writes the
database clock, `StillHoldsLock` ends the tick. A check of the lock that fails
counts as a lost lock (`CheckFails`); when the second check or the unlock fails
too, the connection returns to the pool with the lock, where it stays until the
replica meets it again (an advisory lock is re-entrant, so `TryAcquireLock` then
succeeds) or the pool closes it (`CloseIdle`, external). `fires` counts the jobs
enqueued for an occurrence, `late` what a replica enqueued since it lost the
lock. A failed SELECT of `tick_once` is a tick that did nothing and is not an
action of its own.

### PlaybackDedup

One cache key. The unit of time is the refresh interval of 10 s, so a tick is
also a refresh of every live guard: TTL 3, holder budget 9, stale age 9, client
wait 10. A DEL - of a reclaim, a release or a Drop - is on its way for up to
`MaxDelay` and then hits whatever lock is there. `Drop` may happen at every
await, `AcquireDropped` between SET and guard, `Crash` anywhere; at the start the lock
may be one that a request of a dead process (`Earlier`) left. The resolve at
the provider is one nondeterministic answer. The stub metadata of the stream is
`stub`: a resolve spawns the task that replaces it, and `UpdateMetadata` is that
task's write, which may come after the lock is gone. Redis is assumed to answer;
refresh errors and the expiry of a cached URL are left out; a DEL takes less
than a TTL. `routes/usenet.rs` follows the same protocol and is not modelled
twice.

### KeywordRecompute

A task is one call of `schedule_kind_recompute` and the run it spawns. The media
table is a sequence of batches, each with the version it was last computed
from. `Schedule` and `SingleFlight` list the steps in the order of the code.
`StatementFails` and `ReadFails` say what the code does at each label when a
statement fails: give up, retry, treat the row as absent, or count a sweep as not
superseded. Sleeps between attempts are arbitrary delays.

The unit of time is the renewal interval of 60 s. A renewal is an UPDATE
(`ConfirmLease`, `RenewLease`), which refreshes the lease, and a reply
(`StartSweep`, `RenewConfirmed`, `RenewLost`), which is what sets
`last_confirmed` or ends the sweep. `quiet` counts the ticks since then. The age
of `last_confirmed` is looked at only where a renewal fails (`RenewFails`,
`state.rs:934-943`), before or after its UPDATE took effect; since the reply
came somewhere between two ticks, `Abort` ticks later the limit may or may not
have been reached, one tick later it has. Ticks missed while a statement was
under way are made up for at once. Without faults a reply comes before the
next tick; with them, tokio's timeout ends it when what is left of the limit has
passed (`MayWait`). Other statements that fail have had no effect.

### BackgroundSearch

A time stamp is an age, counted up to the re-scrape interval. The two hashes are
read in one step. `Scan` looks at one due entry at a time, all movies before the
series (`Upcoming`), in any order within a hash, and stops when the batch is
full (`Onward`). `Take` is the SADD that follows the SISMEMBER of `Scan` and the
lookup of the media row. Every Redis command of the handler may fail and the
code goes on: a hash that cannot be read is empty (`Begin`), a mark that cannot
be looked up is absent (`Free`), and a failing SADD, HSET, HDEL or SREM does nothing
(`Take`, `Record`, `Remove`, `Unmark`). `slipped` and `kept` remember for which titles
a mark or a time was lost and for which a mark was left.

### TaskiqQueue

Tasks of one actor kind with one interval key. `actor` says whether it is an
actor with `max_retries` or one that polls its marker (no actor does both). The
stream is `msg`: an entry waits, is pending at the executions that hold it, and is
acknowledged. An execution runs `_execute_actor` step by step:
`CheckCancelled` (marker; SADD and status "running"), `Prepare` and `SetStamp`
(GET and SET of the stamp), `ActorEnds`, `Finalize` (stamp again), `RecordResult`,
`Clear` (SREM, DEL of the marker), then taskiq's `Retry` and `Ack`, which are
external. `Redeliver` hands an idle entry to another execution although the
first may live. A cancellation is `SetMarker`, `UpsertReads`, `UpsertWrites`.
Redis calls fail where the code catches it; a failing EXISTS counts as no
marker (`CheckFails`, `task_queue.py:175-179`), so the task starts. A timeout cancels the coroutine, and
since CancelledError is no Exception the code records it as a success. Left
out: the expiry of markers (24 h) and records (7 days), the list of recent
tasks, memory metrics, and that the thread of a synchronous actor goes on after
its timeout.

### Moderation

One content with its stream, imported any number of times, and suggestions of
three kinds. A request is a transaction (`txn`) that reads, computes and commits;
`Commit` writes absolute values of the changed columns, `Rollback` is a commit
that fails as a whole (a row that is gone, a second stream of the content).
`LoadAuthor` is the identity map of the session: a user is read once. The torrent
routers and the NZB URL import open a session of their own (`NewSession`).
`raced` records rows and users that a commit wrote although another commit had
changed them since they were read. `AutoBlock` is
`auto_block_on_broken_reports`: off by default in the code, on in the runs, since
a stream is never blocked without it; the theorems hold for both. It is assumed
that `allow_auto_approval` is on. Left out: imports without a unique key (HTTP,
AceStream, Telegram), stream suggestions other than reports, pending limits,
levels, edit counters, admin flags, triage and notifications. In a submission
the look at the stream and the count of the reports are one step.

## 3. Runs

All pass runs explore their whole state space. `CHECK_DEADLOCK FALSE` stands
where the bounded supply of jobs, tasks or requests is used up in the end.

| Run | Instance | Shows |
|---|---|---|
| `job` | 1 job, 2 workers of 1 permit, 3 attempts, 1 death | `SoleExecution`, `OverlapBounded`, `AttemptsBounded`, `TokenReachable`, `FinalStatusKept`, `LifecycleKept`, `JobsSettle`, `DueJobsClaimed` |
| `job_keys` | 2 jobs, 2 callers of `enqueue` with 1 key, 1 worker, 1 attempt, 1 death | `KeyHolders` |
| `scheduler` | 2 replicas, 2 occurrences, 2 faults | `FiresAccounted`, `DeposedStops`, `SoleOwner`, `DueIsStamped` |
| `playback` | 2 requests and the lock of a dead one, the code's ratios of time limits | `HolderOwnsLock`, `NoRedundantResolve`, `RequestsEnd`, `LockIsFreed` |
| `keyword_safety` | 2 tasks of 1 attempt, 2 batches, all faults, reverted and racing edits | `LostSweepEnds`, `PublishedByLatest`, `PublishedWasSwept` |
| `keyword_liveness` | 2 tasks of 3 attempts, 3 versions, no faults | `SweepsExclusive`, `MarkerConverges` |
| `keyword_revert` | 2 tasks, 2 versions, edits may restore a version | violates `KeepsConverging` |
| `keyword_overlap` | 2 tasks, the code's limits, all faults | violates `SweepsExclusive` |
| `search` | a movie and a series, batch of 1, 2 executions, 1 fault | `MarksOwned`, `SpacedOrExcused`, `Periodic` |
| `taskiq` | 2 tasks, 2 executions, 2 attempts, budget 3 | `CancelledNeverStarts`, `RecordSettles`, `RunningSettles`, `IntervalKept` |
| `moderation` | 7 items, 2 users, 2 requests at a time, 3 in all | `PointsAccounted`, `SettledOnce`, `VisibleIffApproved`, `BlockedByReports` |
| `moderation_threshold` | the same | violates `BlockedAtThreshold` |

The first run of each module also checks its `TypeOK`.

Bounds and why they are enough:

* *Jobs, workers, tasks.* The rows of a queue interact only through keys and
  permits, hence one row for executions; overlap needs two workers, and each has
  the one permit it can use. `job_keys` has what a key is about: two rows that
  compete for it, two callers between their two statements, and a row that
  is reclaimed and put back. The theorems of section 4 remove the bounds of this
  list for every invariant and every action property (any number of jobs, keys,
  clients, permits, requests, tasks); for liveness the bounds are what the result
  rests on.
* *Two requests in PlaybackDedup.* One holds the lock while the other waits,
  reclaims or finds it gone. With the lock that a dead process left, a waiter also
  meets a second, younger lock at the end of its wait. `HolderOwnsLock` and `NoRedundantResolve` are proved
  for any number.
* *`MaxCrashes`, `MaxFaults`.* One fault reaches every half-done state; two let a
  fault hit the recovery from the first. In `search` the fault is a death, a
  cancellation or any one failing Redis command.
* *Titles, `BatchSize`.* A batch of one and a movie beside a series are the
  smallest instance in which a batch is full and the movie keeps the series
  waiting. The code has 10.
* *`MaxAttempts`.* Two attempts of a job are the first with a retry and a dead
  end, three let both workers lose a permit. The code has 5 (jobs) and 48
  (recompute). In `keyword_safety` a task has one attempt: its safety properties
  are about one sweep and its successor's, and are proved for any number.
* *`Retries` = 2 in PlaybackDedup* instead of 10: the loop body is the same each
  time; two passes reach "retry" and "give up".
* *`Stale`, `Abort`.* 3 and 2 renewal intervals, as in the code; 2 and 1 in
  `keyword_safety`, where late replies multiply the states (the theorems have any
  `Abort < Stale`).
* *`Budget` in TaskiqQueue* counts tasks sent, cancellations, deaths, failed
  Redis calls and redeliveries from a live execution together: three allow a
  second task and one disturbance, or one task with two. Retries and
  redeliveries after a death are not counted, time always may pass.
* *`MaxRequests`, `Submitted` in Moderation.* Three requests from nothing, from
  two imports, a report and an episode edit that wait, or from two edits that
  wait; the starts are states that anonymous imports, `create_contribution` and
  suggestions of a new user lead to. Two requests overlap in every way and the
  third meets what they left. Award, penalty and thresholds are the smallest at
  which an award, a penalty at zero and the limit of reports matter.
* *Scheduler clock.* A tick is a minute and the job is due every two; all steps
  of the replicas take place between ticks, so two ticks of the scheduler in
  one minute, and one that straddles a boundary, are both reached.

### Fairness

* JobQueue: the database clock advances; a supervisor restarts a dead worker
  until it listens (`run_loop` itself returns after a failed start, so that this is
  not the code's own promise); `run_loop` polls every 2 s; handlers return, since each works
  under HTTP and statement timeouts; a CLI run ends, if only by being killed.
  Crashes, cancellations and the admin page are never required.
* JobScheduler: `tick_loop` runs on a timer; and the replica that owns the lock is
  not shut down for ever before it can read the table (strong fairness of
  `ReadCron`); the pool closes a connection that idles with the lock (`CloseIdle`).
* PlaybackDedup: Redis answers and time passes. The provider need not answer.
* KeywordRecompute: spawned tasks run, renewals are sent and answered. `MarkerConverges`
  assumes no faults, reverts or racing schedules, because with them the marker
  need not converge (see section 5).
* BackgroundSearch: the cron job (every three minutes) starts executions, which
  run to their end; time passes. Requests need not come, and which of the due
  titles an execution looks at first is left open.

## 4. Theorems

Proved for every value of the constants that satisfies the named assumption of
the module. The assumptions say that sentinel values differ from members, that
bounds are positive or natural numbers, and:

* `JobQueueAssumption`: the set of jobs is finite;
* `KeywordRecomputeAssumption`: `Abort < Stale` (120 s and 180 s);
* `PlaybackDedupAssumption`: `MaxDelay < TTL`: a DEL takes less than the 30 s a
  lock lives without a refresh; and the order of the code's time limits,
  `Holder <= Stale` and `Holder <= Wait`;
* `ModerationAssumption`: contributions and the kinds of suggestions are
  different tables, the tables are finite, an item, a user and the stream are
  different rows, every suggestion has an author, and a state in which reports
  already wait has an anonymous import that made the stream they are about.

Constants that cap a run (`MaxCrashes`, `MaxFaults`, `Budget`, `MaxRequests`)
occur in guards only and may have any value.

`JobQueueProofs`

* `TypeCorrect`: `TypeOK` is inductive. Lemmas type the rows and executions each
  statement builds; one lemma per group of actions.
* `ExecutionIsSole`: `SoleExecution` is inductive relative to `TypeOK`. It says
  not only that a row which was never reclaimed has one execution but that the
  row describes it (`running`, same attempts, same worker); that is what makes
  it inductive, because a claim needs a `pending` row, which then has none. The
  frame lemmas `SoleFrame`, `SoleReplace`, `SoleEnd` and `SoleMove` carry the
  actions that move or end one execution.
* `KeysAreHeld`: from `KeyInv`, the conjunction of `KeyHolders`, "an inline run
  has no key" and `OpenHoldsKey` (a row that has not ended and was never reclaimed
  still holds the key it was enqueued with). An insert under a key finds the
  unique index free, so the new holder is the only one; every statement that
  ends a row gives its key up in the same UPDATE, `ReclaimAncient` excepted.
* `KeysDeduplicate`: two open rows that were never reclaimed and were enqueued
  with one key both hold it, by `OpenHoldsKey`, so `KeyHolders` makes them one.
* `LifecycleIsKept`: the refinement. A row that was never reclaimed has only the
  execution it describes, so outcomes apply to `running` rows (`SoleExecution`); a
  row that does not exist was never reclaimed (`AbsentUntouched`).
  One lemma per group of actions shows that the step moves each row along `Moves`,
  takes it, or leaves it.
* `FinalStatusIsKept`: an action property. A final row that was never reclaimed
  has no execution, by `SoleExecution`, so no late outcome can reach it.
* `OverlapIsBounded`, `AttemptsAreBounded`: from `BoundInv`. As a statement about
  what exists, neither is inductive: a row that is queued may be claimed and an
  execution that has decided to retry will queue it. `RetryBudget` counts these
  in advance: attempts, the executions that hold a decision to retry
  (`Retries`) and the row if it waits (`Queued`) are together at most
  `max_attempts` plus the reclaims. Every action is classified by what it does
  to a row (inserted, claimed, requeued, reclaimed, decided to retry, kept), and
  the budget is shown for each class.
* `CancelIsFinal`: `CancelAsked(j, n, m)` - the flag is set, `attempts` is `n` and
  over all workers and execution slots at most `m` executions of the row exist -
  stays true for ever once it is. From `RowMove`, the classification of what a
  step does to a row: neither an outcome nor a reclaim nor a retry clears the
  flag, the claim alone adds an execution or an attempt, and it does not find
  the row (lemma `RequestStays`).
* `TokensReach`: from `SoleExecution`: whoever registers or deregisters a token of
  a row that was never reclaimed is its only execution.

`KeywordRecomputeProofs`

* `TypeCorrect`, from `Inv1` = `TypeOK` and three facts: an existing lease
  belongs to the latest claimant (`LeaseIsLatest`), a sweeping task has a batch
  left (`BatchLeft`), which keeps batch numbers in range, and one that waits for
  its next tick has not waited beyond the limit (`IdleInTime`), which does the same
  for `quiet`.
* `MarkerIsFenced`: only `PublishMarker` changes the marker, only for the owner,
  which `LeaseIsLatest` makes the latest claimant.
* `SweepsAreExclusive`, for `~Faulty` and from `SweepOwned`: unless a lease was
  deleted under a sweep, a sweeping task owns the lease, whose age is at most one
  while a renewal is asked for and zero otherwise. It cannot expire under a
  sweep, so nobody else claims it. With failing statements the property is
  false (`keyword_overlap`).
* `LostSweepsEnd`, with every fault and from `LostTimed`: the ticks a sweep has
  passed without its lease are bounded by `quiet` and by what the renewal under
  way may still be told, so that the end comes with the next failing renewal,
  or with the reply that says "0 rows". The lemma `StepShape` sorts the steps by
  what they do to a sweep (beginning it, renewing, taking the reply,
  ending it or leaving it alone), and each kind is proved once.
* `MarkerIsTruthful`, from `SweptRows`: unless a batch was written without the
  lease, the owner of the lease has swept the batches it believes to have
  swept.
* `TasksGoOn`: `StepsLeft` is a natural number that every move of a task lowers,
  whatever the task's peers do: the attempts that are left, each at the cost of a
  complete sweep (two steps for each batch and seven more), and the rest of
  the present one. The renewals beside a sweep and the passing of time are
  the exceptions, and change nothing but the sweep's timer, which `Abort`
  bounds.

`JobSchedulerProofs`

* `TypeCorrect`; `OwnerIsSole`: `SoleOwner` is inductive.
* `DeposedReplicasStop`, from `LateInv`: a replica that enqueued without the lock
  is past the enqueue of its tick and `StillHoldsLock` lies before the next one.
* `FiresAreAccounted`, from `FireInv`. `FireBudget` counts an occurrence's
  enqueues and those that may still come without a further fault: one for each
  deposed replica that has found the occurrence due or may when it reads
  the row (`Threats`), one for the owner of the lock likewise. `DeposedCounted`
  says that there are at most as many deposed replicas as faults, `DueSeen` and
  `FutureUnfired` that nobody fires an occurrence that is not due.

`BackgroundSearchProofs`

* `TypeCorrect`; `MarksAreOwned`, from `ItemInv` (an execution holds an item
  exactly between SADD and SREM): a mark that two executions set has an owner
  until the first SREM, and the property names who is at work on the title. A
  failed SREM puts the title into `kept`, where nobody takes it out.
* `ScrapesAreSpaced`, an action property, from `SpaceInv`: as long as two
  executions have not met, there is at most one (`Alone`), the age a hash entry
  tells is not larger than the true one unless a request changed it
  (`QueueHonest`), and the titles an execution has collected are still due when
  it comes to them (`RunHonest`), each for the titles whose mark and time Redis
  has not lost (`slipped`).

`PlaybackDedupProofs`

* `TypeCorrect`; `HolderKeepsLock`, from `LockInv`: until a lock reaches the stale
  age, the lock of a live guard has its full TTL and that of a guard which is
  being released has more TTL left than its DEL will take (`Keeps`); hence it
  neither expires nor can be reclaimed, and nobody else's DEL is on its way.
* `ResolvesAreNeeded`: the request that holds the lock looked at the cache after
  it acquired the lock, and only the holder stores.
* `RequestsGoOn`, `TimeIsBounded`: the variants behind `RequestsEnd`. `Advance`
  lists the paths of a request; each of them leads to a lower `Level` (steps to
  the end) and to no higher `Budget` (intervals it may still spend waiting,
  resolving and deleting), and an interval in which it does one of these lowers
  `Budget`. The first theorem combines steps and time in one number, the
  second gives the bound a client can count on: one wait, one resolve and a DEL
  for each of the `Retries + 4` moments at which it may have found a stale lock
  or let its guard go.
* `AbandonedLockExpires`: the core of `LockIsFreed`. A lock that exists has an
  expiry (`Expires`); when all requests have ended, `Advance` leaves none of them
  a step, so nobody takes or extends the lock and every interval costs it TTL.

`TaskiqQueueProofs`

* `TypeCorrect`, with `FlowInv`: an execution has an entry, a finished actor has
  a result, an entry has a task.
* `CancelledStayOut`, from `DoomInv`: the marker of a task that was cancelled
  before anybody had it is never deleted, because only an execution past the
  check deletes it, and none gets there before a look at the marker has failed
  (`unseen`).
* `IntervalIsKept`, an action property, from `StampInv`: the stamp is never older
  than the last run, and who waits to write it has read an old one unless
  another run passed in between.
* `RecordsSettle`, `RunningSetSettles`, from `RecordInv` and `RunningInv`: a record
  that is not final, or an id in the running set, always has somebody left who
  will correct it (an entry that will be delivered, an execution that is not
  past the write) or one of the excepted disturbances has happened.

`ModerationProofs`

* Every action but `Commit` changes one transaction; lemmas classify what it does
  to it (`SubmitOpened`, `ReviewOpened`, `WriteOpened`, `Advanced`, `Settled`,
  `Hidden`, or back to idle), and the invariants are proved per class and for
  `Commit`, which also has to mark the copies of others as stale.
* `TypeCorrect` and `ItemsAreSettledOnce`, from `FlowInv`: what a transaction is
  going to write about an item agrees with what it read (`SubmitOK`, `ReviewOK`,
  `VerdictOK`), it credits an item once and only one it settles (`CreditOK`),
  and two submissions never carry the same item (`SoleSubmit`). A review that
  commits from a fresh copy therefore finds an item that waits and for which
  nothing was given yet. The property also ties the points to the verdict (what
  cost points is rejected, what brought some approved), so that a deleted
  suggestion has neither brought nor cost any.
* `VisibilityFollowsApproval`, from `LookInv`: what a transaction decided about the
  flags of the stream still fits the stream at its commit or the stream is in
  its stale set (`LookOK`), and the stream is active until it is struck, and
  public exactly when something was published (`StreamInv`).
* `ReportsBlock`, for either value of `AutoBlock` and from `BlockInv`: the transaction that approves a report has
  counted the reporters as they will be after its commit (`BlockOK`, over the
  table overlaid with its own writes), unless its copy of the stream or of a
  report is stale.
* `PointsAreAccounted`, from `PayInv`: what a transaction is going to add for a
  user is what the items it credits are worth, it has loaded every user it
  credits, and the points it starts from are those of the table unless its copy
  is stale (`Balanced`); an item that is still to be looked at has not been
  credited (`Uncredited`, `Ready`). The sum over the items of a user is written
  as a cardinality (`Times`), so that a commit adds the cardinality of what it
  credits and no induction over data is needed; the floor at zero only ever
  takes less than the penalty (`FloorBounds`).

Only model-checked: the liveness properties (`JobsSettle`, `DueJobsClaimed`,
`DueIsStamped`, `RequestsEnd`, `LockIsFreed`, `MarkerConverges`, `Periodic`),
because fairness and ENABLED are beyond the prover. For `RequestsEnd`,
`LockIsFreed` and the tasks of `MarkerConverges` the variants above prove, for
every value of the constants, that only finitely many steps are possible
(renewals and time during a sweep aside); what rests on TLC is that the fair
ones stay enabled until the end.

## 5. What the checks show about the code

Statements of the repository that a run refutes:

* `keyword_revert`. `state.rs:973-978`: the loop "exits only when they agree,
  otherwise we keep converging", written for an edit that is reverted to a
  recorded version. In that case `schedule_kind_recompute` returns early and
  leaves the request at the reverted version; every attempt then backs out at
  `state.rs:880` without a sleep, and the run gives up after 48 of them.
* `keyword_overlap`. `state.rs:799-801`: the sweep is aborted "BEFORE the lease can
  go stale under us - so two sweeps never overlap" (673-675 says the same of the
  constant). The age of `last_confirmed` is looked at only when a renewal fails,
  on a tick; a failure just short of 120 s is followed by the next look one tick
  later, and `last_confirmed` is the time of the reply, not that of the UPDATE the
  lease records. By then the lease is stale for the others and one of them sweeps.
  What the limits do give is proved: such a sweep ends within a fixed number of
  ticks (`LostSweepEnds`) and cannot publish (`PublishedByLatest`).
* `moderation_threshold`. `contributions.py:223`: "Number of unique users required
  to report a stream as broken before it's blocked". A review sets the status of
  the report, the query for approved reports flushes it
  (`stream_suggestions.py:1041-1046`), and 1049 adds one for the report under
  review, which is among them already: the stream is blocked by one user fewer.

The exceptions of the other properties are behaviours of the code as well:

* `jobs/enqueue.rs:10` says "if another pending/running job with same key exists,
  this insert is silently skipped"; `OneActivePerKey` is proved for jobs that were
  never reclaimed and is not true without that condition. A job that outlives 30
  minutes is reclaimed by a starting worker; the pending row is cancelled (or
  finished by a second execution) and gives its key up; a new job is enqueued
  under the key; then the first execution fails and its unconditional UPDATE puts
  the old row back to pending;
* a reclaim grants an execution and an attempt beyond `max_attempts`
  (`OverlapBounded`, `AttemptsBounded`);
* a running row whose execution died stays running unless some worker starts
  when it is older than 30 minutes, and a job whose cancellation was requested
  while it ran and which then fails stays pending for ever with its key
  (`JobsSettle`);
* `JobError::is_transient` ("permanent ones go straight to dead",
  `jobs/error.rs:26`) is never called: all failures are retried alike;
* no code sends NOTIFY `job_cancel`; cancelling a running job only keeps it from
  starting again;
* a crash between enqueue and stamp fires an occurrence again, in the same minute
  if the first job has finished, else in the next (`FiresAccounted`);
* a failed check of the scheduler's lock can leave the lock with a connection of
  the pool: nobody ticks until this replica meets it again or the pool closes it;
* a playback lock is stale 90 s after its SET, while the holder's 90 s begin after
  its second look at the cache; and a reclaim's DEL does not compare the value.
  From the moment a lock reaches that age, a live holder can lose it
  (`HolderOwnsLock`);
* an edit deletes the lease of a live sweep, which overlaps its successor until
  its next check (`SweepsExclusive`) and may write one more batch
  (`PublishedWasSwept`);
* a stream request resets the re-scrape interval of its title and two
  executions may scrape one title (`SpacedOrExcused`); the mark of a dead worker
  or of a failed SREM keeps its title out for good, and ten due movies, scanned
  first, keep every series waiting (`Periodic`);
* in the Python task queue a failing EXISTS lets a cancelled task start
  (`CancelledNeverStarts`); a failed run deletes the interval stamp of whichever
  run wrote it, and two runs that read the stamp before either wrote it both
  start (`IntervalKept`); the upsert of a cancellation can put "running" back over
  a final status (`RecordSettles`); an id stays in the running set when the
  worker died and the redelivered entry meets the marker (`RunningSettles`); a run
  that timed out is recorded as a success;
* in the Python moderation routers points, statuses and counts are read without
  a lock: two commits for one author lose points (`PointsAccounted`), two
  reviews settle one item twice (`SettledOnce`), two reports approved at once do
  not block the stream (`BlockedByReports`); after
  `reject_approved` another approved import of the content makes the stream
  public but not active, so it stays hidden (`VisibleIffApproved`).

## 6. Not modelled

Scrapers, spiders, providers, parser, poster and NSFW pipelines: clients of
external services and pure transformations. Metadata and stream stores: they
would need the relational schema. Read-only routes, authentication, encryption,
front ends, deployment. The backend's own moderation routes, which the Python
routers preceded. The rest of `python-deprecated/`: about 140,000 lines of
providers, scrapers, spiders, the Telegram bot, queries, pages and migrations,
nearly all of them straight-line code around an external service or a database,
without a protocol to check. Counted over the Python files alone the models cover
a small share of the repository for this reason; what they are about is the
coordination logic, and most of that is in the Rust sources. `PROJECT.json` gives
a reason for each part.

## 7. Plan

Done, in this order: JobQueue and its first theorems, JobScheduler,
PlaybackDedup, KeywordRecompute and its theorems, BackgroundSearch; then
JobLifecycle and the proof that JobQueue implements it, the key theorems,
TaskiqQueue and Moderation.

Then the proofs of the safety properties: the bounds of JobQueue, JobScheduler,
BackgroundSearch, PlaybackDedup, TaskiqQueue and Moderation, and the variants
of PlaybackDedup and KeywordRecompute. Last, a revision of what the models leave
to chance: renewals of KeywordRecompute with late and lost replies, the failing
commands of BackgroundSearch and its two hashes, the failing checks of
JobScheduler and TaskiqQueue, two rows under one key in JobQueue, and the switch
for automatic blocking in Moderation.

Next, in order of importance:

1. A composition of JobScheduler with JobQueue in which the key is released by the
   row's outcome rather than by `JobFinishes`.
2. IMDb import on top of JobQueue (check-then-insert, 15-minute reclaim).
3. KeywordRecompute: a claim or a publication whose reply is lost (renewals are
   done).
4. The backend's contributions and votes; Telegram login; rate limiter;
   integration sync.
