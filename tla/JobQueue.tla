------------------------------ MODULE JobQueue ------------------------------
(***************************************************************************)
(* The durable job queue of the worker binary: the rows of one queue of    *)
(* the PostgreSQL table `jobs`, the QueueRunner of every worker process    *)
(* (backend/src/jobs/runner.rs), the executions it spawns, the process     *)
(* wide cancellation tokens (jobs/cancel_tokens.rs), the callers of        *)
(* enqueue (jobs/enqueue.rs), the inline `--run-job` mode                  *)
(* (jobs/registry.rs) and the admin endpoints that change a row            *)
(* (routes/admin_scrapers.rs).                                             *)
(*                                                                         *)
(* Every SQL statement is one atomic step; whatever the code does in       *)
(* several statements, or around an await, is several steps.  Clocks are   *)
(* abstracted to what the statements compare: `due` is                     *)
(* scheduled_at <= now(), `age` is the class of now() - started_at.        *)
(***************************************************************************)
EXTENDS Integers, FiniteSets

CONSTANTS
    Jobs,         \* the ids the BIGSERIAL can hand out
    Workers,      \* worker processes, each with one runner for this queue
    Keys,         \* dedupe keys the callers of enqueue use
    Clients,      \* callers of enqueue with a key (requests, the scheduler)
    NoKey,        \* dedupe_key IS NULL
    NoWorker,     \* worker_id IS NULL
    InlineCli,    \* the worker_id 'inline-cli' of a --run-job process
    Concurrency,  \* permits of the runner's semaphore
    MaxAttempts,  \* max_attempts of an enqueued job
    MaxCrashes    \* bound: how many process deaths and failed starts are explored

ASSUME JobQueueAssumption ==
    /\ IsFiniteSet(Jobs)
    /\ NoKey \notin Keys
    /\ InlineCli \notin Workers /\ NoWorker \notin Workers \cup {InlineCli}
    /\ Concurrency \in Nat \ {0}
    /\ MaxAttempts \in Nat \ {0}
    /\ MaxCrashes \in Nat

VARIABLES
    jobs,      \* the rows of the table
    execs,     \* executions alive in some process: spawned tasks and CLI runs
    tokens,    \* TOKENS of each process: job -> attempt whose token is mapped, 0 if none
    up,        \* is the runner of this process listening and claiming
    asking,    \* key a client has released and not yet inserted, NoKey if none
    crashes,   \* process deaths and failed starts so far
    reclaims,  \* history: how often a running row was taken from its execution
    wanted     \* history: the key the row was enqueued with

vars == <<jobs, execs, tokens, up, asking, crashes, reclaims, wanted>>

-----------------------------------------------------------------------------

Terminal == {"success", "cancelled", "dead", "error"}
Active == {"pending", "running"}
Status == {"absent"} \cup Active \cup Terminal

(* now() - started_at: "none" is NULL, "stale" is beyond                   *)
(* IDLE_CLAIM_TIMEOUT_MINS, "ancient" beyond ANCIENT_RUNNING_DAYS.         *)
Ages == {"none", "fresh", "stale", "ancient"}

Owners == Workers \cup {InlineCli}

Row == [status : Status, attempts : Nat, max_attempts : Nat, due : BOOLEAN,
        age : Ages, worker_id : Owners \cup {NoWorker},
        cancel_requested : BOOLEAN, dedupe_key : Keys \cup {NoKey}]

(* Where an execution is: "spawned" before its token is registered,        *)
(* "running" in the handler, then the handler's result, then what          *)
(* mark_error decided from the attempts it read.  A failure is a failure:  *)
(* JobError::is_transient is never asked.                                  *)
Failures == {"error"}
Results == {"ok", "cancelled"} \cup Failures
Phases == {"spawned", "running", "retry", "dead"} \cup Results

Execution == [job : Jobs, attempt : Nat, worker : Owners, phase : Phases,
              cancelled : BOOLEAN]

Absent == [status |-> "absent", attempts |-> 0, max_attempts |-> 0,
           due |-> FALSE, age |-> "none", worker_id |-> NoWorker,
           cancel_requested |-> FALSE, dedupe_key |-> NoKey]

TypeOK ==
    /\ jobs \in [Jobs -> Row]
    /\ execs \in SUBSET Execution
    /\ tokens \in [Workers -> [Jobs -> Nat]]
    /\ up \in [Workers -> BOOLEAN]
    /\ asking \in [Clients -> Keys \cup {NoKey}]
    /\ crashes \in Nat
    /\ reclaims \in [Jobs -> Nat]
    /\ wanted \in [Jobs -> Keys \cup {NoKey}]

Init ==
    /\ jobs = [j \in Jobs |-> Absent]
    /\ execs = {}
    /\ tokens = [w \in Workers |-> [j \in Jobs |-> 0]]
    /\ up = [w \in Workers |-> FALSE]
    /\ asking = [c \in Clients |-> NoKey]
    /\ crashes = 0
    /\ reclaims = [j \in Jobs |-> 0]
    /\ wanted = [j \in Jobs |-> NoKey]

ExecsOf(w) == {e \in execs : e.worker = w}
ExecutionsOfJob(j) == {e \in execs : e.job = j}

(***************************************************************************)
(* enqueue                                                                 *)
(***************************************************************************)

NewRow(k) == [Absent EXCEPT !.status = "pending", !.max_attempts = MaxAttempts,
                            !.dedupe_key = k]

(* INSERT of a row that is due at once or after delay_secs.                *)
InsertRow(j, k) ==
    /\ jobs[j].status = "absent"
    /\ \E due \in BOOLEAN :
          jobs' = [jobs EXCEPT ![j] = [NewRow(k) EXCEPT !.due = due]]
    /\ wanted' = [wanted EXCEPT ![j] = k]

(* First statement of enqueue with a key: rows that are neither pending    *)
(* nor running give the key up.                                            *)
ReleaseKey(c, k) ==
    /\ asking[c] = NoKey
    /\ asking' = [asking EXCEPT ![c] = k]
    /\ jobs' = [j \in Jobs |->
                  IF jobs[j].dedupe_key = k /\ jobs[j].status \notin Active
                  THEN [jobs[j] EXCEPT !.dedupe_key = NoKey]
                  ELSE jobs[j]]
    /\ UNCHANGED <<execs, tokens, up, crashes, reclaims, wanted>>

(* Variant: only pending rows hold their key against a second insert.      *)
KeyFreeOfPending(k) ==
    \A j \in Jobs : ~(jobs[j].dedupe_key = k /\ jobs[j].status = "pending")

KeyFree(k) == \A j \in Jobs : jobs[j].dedupe_key # k

(* Second statement: INSERT ... ON CONFLICT (dedupe_key) DO NOTHING.       *)
InsertKeyed(c, j) ==
    /\ asking[c] # NoKey
    /\ KeyFree(asking[c])
    /\ InsertRow(j, asking[c])
    /\ asking' = [asking EXCEPT ![c] = NoKey]
    /\ UNCHANGED <<execs, tokens, up, crashes, reclaims>>

InsertSkipped(c) ==
    /\ asking[c] # NoKey
    /\ ~KeyFree(asking[c])
    /\ asking' = [asking EXCEPT ![c] = NoKey]
    /\ UNCHANGED <<jobs, execs, tokens, up, crashes, reclaims, wanted>>

(* enqueue without a key, from a request or from retry_task and            *)
(* bulk_retry_tasks (which copy queue and payload of an existing row).     *)
InsertPlain(j) ==
    /\ InsertRow(j, NoKey)
    /\ UNCHANGED <<execs, tokens, up, asking, crashes, reclaims>>

(***************************************************************************)
(* The runner of one worker process                                        *)
(***************************************************************************)

Reclaimable(j) == jobs[j].status = "running" /\ jobs[j].age \in {"stale", "ancient"}

(* reclaim_stale_jobs: the only UPDATE that hands an abandoned row back.   *)
ReclaimStaleJobs ==
    /\ jobs' = [j \in Jobs |->
                  IF Reclaimable(j)
                  THEN [jobs[j] EXCEPT !.status = "pending", !.age = "none",
                                       !.worker_id = NoWorker]
                  ELSE jobs[j]]
    /\ reclaims' = [j \in Jobs |->
                      IF Reclaimable(j) THEN reclaims[j] + 1 ELSE reclaims[j]]

(* Process start: reclaim once, then LISTEN.                               *)
Start(w) ==
    /\ ~up[w]
    /\ ReclaimStaleJobs
    /\ up' = [up EXCEPT ![w] = TRUE]
    /\ UNCHANGED <<execs, tokens, asking, crashes, wanted>>

(* The listener cannot connect: the runner has reclaimed, returns, and     *)
(* never claims.                                                           *)
StartFails(w) ==
    /\ ~up[w]
    /\ crashes < MaxCrashes
    /\ crashes' = crashes + 1
    /\ ReclaimStaleJobs
    /\ UNCHANGED <<execs, tokens, up, asking, wanted>>

(* The process dies, or is told to stop: run_loop breaks, main returns and *)
(* the runtime drops the spawned tasks where they are.                     *)
Crash(w) ==
    /\ up[w]
    /\ crashes < MaxCrashes
    /\ crashes' = crashes + 1
    /\ up' = [up EXCEPT ![w] = FALSE]
    /\ execs' = execs \ ExecsOf(w)
    /\ tokens' = [tokens EXCEPT ![w] = [j \in Jobs |-> 0]]
    /\ UNCHANGED <<jobs, asking, reclaims, wanted>>

(* Variants of the claim: the status or attempts test written wrongly.     *)
ClaimableRunning(j) ==
    jobs[j].status \in Active /\ ~jobs[j].cancel_requested /\ jobs[j].due
ClaimableWithinMax(j) ==
    /\ jobs[j].status = "pending" /\ ~jobs[j].cancel_requested /\ jobs[j].due
    /\ jobs[j].attempts < jobs[j].max_attempts

(* The WHERE clause of claim_jobs.                                         *)
Claimable(j) ==
    /\ jobs[j].status = "pending"
    /\ ~jobs[j].cancel_requested
    /\ jobs[j].due

ClaimedRow(w, row) ==
    [row EXCEPT !.status = "running", !.age = "fresh", !.worker_id = w,
                !.attempts = @ + 1]

Spawned(w, j) ==
    [job |-> j, attempt |-> jobs[j].attempts + 1, worker |-> w,
     phase |-> "spawned", cancelled |-> jobs[j].cancel_requested]

(* claim_and_dispatch: at most as many rows as the semaphore has permits.  *)
(* Which rows, of those SKIP LOCKED leaves, is priority and time order.    *)
ClaimAndDispatch(w) ==
    /\ up[w]
    /\ \E batch \in SUBSET {j \in Jobs : Claimable(j)} :
          /\ batch # {}
          /\ Cardinality(batch) + Cardinality(ExecsOf(w)) <= Concurrency
          /\ jobs' = [j \in Jobs |-> IF j \in batch THEN ClaimedRow(w, jobs[j])
                                                    ELSE jobs[j]]
          /\ execs' = execs \cup {Spawned(w, j) : j \in batch}
    /\ UNCHANGED <<tokens, up, asking, crashes, reclaims, wanted>>

(* Variant: the token is never put in the map.                             *)
RegisterNothing(e) ==
    /\ e.phase = "spawned"
    /\ execs' = (execs \ {e}) \cup {[e EXCEPT !.phase = "running"]}
    /\ UNCHANGED <<jobs, tokens, up, asking, crashes, reclaims, wanted>>

(* The spawned task registers its token and enters the handler.            *)
Register(e) ==
    /\ e.phase = "spawned"
    /\ tokens' = [tokens EXCEPT ![e.worker][e.job] = e.attempt]
    /\ execs' = (execs \ {e}) \cup {[e EXCEPT !.phase = "running"]}
    /\ UNCHANGED <<jobs, up, asking, crashes, reclaims, wanted>>

(* The handler returns and deregister drops whatever token the map holds.  *)
(* Handlers return Cancelled only when they saw their token cancelled.     *)
HandlerReturns(e, result) ==
    /\ e.phase = "running"
    /\ e.worker # InlineCli
    /\ result = "cancelled" => e.cancelled
    /\ tokens' = [tokens EXCEPT ![e.worker][e.job] = 0]
    /\ execs' = (execs \ {e}) \cup {[e EXCEPT !.phase = result]}
    /\ UNCHANGED <<jobs, up, asking, crashes, reclaims, wanted>>

(* handle_cancel_notification.  No code sends NOTIFY job_cancel, so the    *)
(* notification comes from outside (an operator's SQL session).            *)
NotifyCancel(w, j) ==
    /\ up[w]
    /\ tokens[w][j] # 0
    /\ execs' = {IF e.worker = w /\ e.job = j /\ e.attempt = tokens[w][j]
                 THEN [e EXCEPT !.cancelled = TRUE] ELSE e : e \in execs}
    /\ UNCHANGED <<jobs, tokens, up, asking, crashes, reclaims, wanted>>

(***************************************************************************)
(* The outcome.  Every UPDATE is WHERE id = $1, whatever the row has       *)
(* become in the meantime; the task ends and drops its permit.             *)
(***************************************************************************)

EndWith(e, row) ==
    /\ jobs' = [jobs EXCEPT ![e.job] = row]
    /\ execs' = execs \ {e}
    /\ UNCHANGED <<tokens, up, asking, crashes, reclaims, wanted>>

MarkSuccess(e) ==
    /\ e.phase = "ok"
    /\ EndWith(e, [jobs[e.job] EXCEPT !.status = "success", !.dedupe_key = NoKey])

MarkCancelled(e) ==
    /\ e.phase = "cancelled"
    /\ EndWith(e, [jobs[e.job] EXCEPT !.status = "cancelled", !.dedupe_key = NoKey])

(* Variant: attempts > max_attempts.                                       *)
ReadAttemptsOffByOne(e) ==
    /\ e.phase \in Failures
    /\ LET verdict == IF jobs[e.job].attempts > jobs[e.job].max_attempts
                      THEN "dead" ELSE "retry"
       IN  execs' = (execs \ {e}) \cup {[e EXCEPT !.phase = verdict]}
    /\ UNCHANGED <<jobs, tokens, up, asking, crashes, reclaims, wanted>>

(* mark_error, first statement: SELECT attempts, max_attempts.             *)
ReadAttempts(e) ==
    /\ e.phase \in Failures
    /\ LET verdict == IF jobs[e.job].attempts >= jobs[e.job].max_attempts
                      THEN "dead" ELSE "retry"
       IN  execs' = (execs \ {e}) \cup {[e EXCEPT !.phase = verdict]}
    /\ UNCHANGED <<jobs, tokens, up, asking, crashes, reclaims, wanted>>

MarkDead(e) ==
    /\ e.phase = "dead"
    /\ EndWith(e, [jobs[e.job] EXCEPT !.status = "dead", !.dedupe_key = NoKey])

(* Variant: the row is put back before the handler is done with it.        *)
MarkRetryEarly(e) ==
    /\ e.phase = "retry"
    /\ jobs' = [jobs EXCEPT ![e.job] = [@ EXCEPT !.status = "pending", !.due = FALSE]]
    /\ execs' = (execs \ {e}) \cup {[e EXCEPT !.phase = "ok"]}
    /\ UNCHANGED <<tokens, up, asking, crashes, reclaims, wanted>>

(* Variant: the permit is not dropped.                                     *)
MarkRetryLeaky(e) ==
    /\ e.phase = "retry"
    /\ jobs' = [jobs EXCEPT ![e.job] = [@ EXCEPT !.status = "pending", !.due = FALSE]]
    /\ execs' = (execs \ {e}) \cup {[e EXCEPT !.phase = "leaked"]}
    /\ UNCHANGED <<tokens, up, asking, crashes, reclaims, wanted>>

(* The retry is never due at once: the backoff is at least 30 seconds.     *)
MarkRetry(e) ==
    /\ e.phase = "retry"
    /\ EndWith(e, [jobs[e.job] EXCEPT !.status = "pending", !.due = FALSE,
                                      !.worker_id = NoWorker])

(* `let _ =`: a statement of the outcome fails and the row stays as it is. *)
MarkLost(e) ==
    /\ e.phase \in Results \cup {"dead", "retry"}
    /\ EndWith(e, jobs[e.job])

(***************************************************************************)
(* Inline CLI runs (JobRegistry::run_once)                                 *)
(***************************************************************************)

InlineStart(j) ==
    /\ jobs[j].status = "absent"
    /\ jobs' = [jobs EXCEPT ![j] =
                  [Absent EXCEPT !.status = "running", !.attempts = 1,
                                 !.max_attempts = 1, !.due = TRUE,
                                 !.age = "fresh", !.worker_id = InlineCli]]
    /\ execs' = execs \cup {[job |-> j, attempt |-> 1, worker |-> InlineCli,
                             phase |-> "running", cancelled |-> FALSE]}
    /\ UNCHANGED <<tokens, up, asking, crashes, reclaims, wanted>>

(* mark_job_success, mark_job_cancelled (Ctrl+C) or mark_job_failed.       *)
InlineEnd(e, status) ==
    /\ e.worker = InlineCli
    /\ EndWith(e, [jobs[e.job] EXCEPT !.status = status])

(* The CLI process is killed, or its last UPDATE fails.                    *)
InlineLost(e) ==
    /\ e.worker = InlineCli
    /\ EndWith(e, jobs[e.job])

(***************************************************************************)
(* Admin endpoints                                                         *)
(***************************************************************************)

(* request_job_cancellation: an UPDATE of the pending row or, when that    *)
(* one matched nothing, an UPDATE of the running row.                      *)
CancelPending(j) ==
    /\ jobs[j].status = "pending"
    /\ jobs' = [jobs EXCEPT ![j] = [@ EXCEPT !.status = "cancelled",
                                             !.cancel_requested = TRUE,
                                             !.dedupe_key = NoKey]]
    /\ UNCHANGED <<execs, tokens, up, asking, crashes, reclaims, wanted>>

(* Variant: the running row is closed although its handler still runs.     *)
CancelRunningAtOnce(j) ==
    /\ jobs[j].status = "running"
    /\ jobs' = [jobs EXCEPT ![j] = [@ EXCEPT !.status = "cancelled",
                                             !.cancel_requested = TRUE]]
    /\ UNCHANGED <<execs, tokens, up, asking, crashes, reclaims, wanted>>

CancelRunning(j) ==
    /\ jobs[j].status = "running"
    /\ jobs' = [jobs EXCEPT ![j].cancel_requested = TRUE]
    /\ UNCHANGED <<execs, tokens, up, asking, crashes, reclaims, wanted>>

Ancient(j) == jobs[j].status = "running" /\ jobs[j].age = "ancient"

(* Variant: the admin UI's display status is written to the table.         *)
ReclaimAncientStale ==
    /\ \E j \in Jobs : Ancient(j)
    /\ jobs' = [j \in Jobs |-> IF Ancient(j)
                               THEN [jobs[j] EXCEPT !.status = "stale"]
                               ELSE jobs[j]]
    /\ reclaims' = [j \in Jobs |-> IF Ancient(j) THEN reclaims[j] + 1
                                                 ELSE reclaims[j]]
    /\ UNCHANGED <<execs, tokens, up, asking, crashes, wanted>>

(* reclaim_ancient_running_jobs, on every admin task stream.               *)
ReclaimAncient ==
    /\ \E j \in Jobs : Ancient(j)
    /\ jobs' = [j \in Jobs |->
                  IF Ancient(j) THEN [jobs[j] EXCEPT !.status = "error",
                                                     !.worker_id = NoWorker]
                                ELSE jobs[j]]
    /\ reclaims' = [j \in Jobs |-> IF Ancient(j) THEN reclaims[j] + 1
                                                 ELSE reclaims[j]]
    /\ UNCHANGED <<execs, tokens, up, asking, crashes, wanted>>

(***************************************************************************)
(* The database clock                                                      *)
(***************************************************************************)

BecomeDue(j) ==
    /\ jobs[j].status = "pending"
    /\ ~jobs[j].due
    /\ jobs' = [jobs EXCEPT ![j].due = TRUE]
    /\ UNCHANGED <<execs, tokens, up, asking, crashes, reclaims, wanted>>

GrowOld(j) ==
    /\ jobs[j].status = "running"
    /\ \/ jobs[j].age = "fresh" /\ jobs' = [jobs EXCEPT ![j].age = "stale"]
       \/ jobs[j].age = "stale" /\ jobs' = [jobs EXCEPT ![j].age = "ancient"]
    /\ UNCHANGED <<execs, tokens, up, asking, crashes, reclaims, wanted>>

-----------------------------------------------------------------------------

Outcome(e) ==
    \/ MarkSuccess(e) \/ MarkCancelled(e) \/ ReadAttempts(e)
    \/ MarkDead(e) \/ MarkRetry(e)

ClientStep ==
    \/ \E c \in Clients : \/ \E k \in Keys : ReleaseKey(c, k)
                          \/ \E j \in Jobs : InsertKeyed(c, j)
                          \/ InsertSkipped(c)
    \/ \E j \in Jobs : InsertPlain(j)

RunnerStep ==
    \/ \E w \in Workers : \/ Start(w) \/ StartFails(w)
                          \/ Crash(w)
                          \/ ClaimAndDispatch(w)
                          \/ \E j \in Jobs : NotifyCancel(w, j)
    \/ \E e \in execs : \/ Register(e)
                        \/ \E result \in Results : HandlerReturns(e, result)
                        \/ Outcome(e)
                        \/ MarkLost(e)

InlineStep ==
    \/ \E j \in Jobs : InlineStart(j)
    \/ \E e \in execs : \/ \E status \in {"success", "cancelled", "dead"} :
                              InlineEnd(e, status)
                        \/ InlineLost(e)

AdminStep ==
    \/ \E j \in Jobs : CancelPending(j) \/ CancelRunning(j)
    \/ ReclaimAncient

ClockStep == \E j \in Jobs : BecomeDue(j) \/ GrowOld(j)

Next == ClientStep \/ RunnerStep \/ InlineStep \/ AdminStep \/ ClockStep

Spec == Init /\ [][Next]_vars

(***************************************************************************)
(* Fairness.  The database clock advances; the supervisor restarts a dead  *)
(* worker until it listens; run_loop polls every POLL_FALLBACK_SECS;       *)
(* handlers return and their outcome is written (every handler works under *)
(* its own HTTP and statement timeouts); a CLI run ends, if only by being  *)
(* killed.  Nobody has to cancel, crash, enqueue, or open the admin page.  *)
(***************************************************************************)
Fairness ==
    /\ \A j \in Jobs : WF_vars(BecomeDue(j)) /\ WF_vars(GrowOld(j))
    /\ \A w \in Workers : WF_vars(Start(w)) /\ WF_vars(ClaimAndDispatch(w))
    /\ WF_vars(\E e \in execs :
                  \/ Register(e)
                  \/ \E result \in Results : HandlerReturns(e, result)
                  \/ Outcome(e))
    /\ WF_vars(\E e \in execs : InlineLost(e))

FairSpec == Spec /\ Fairness

-----------------------------------------------------------------------------
(***************************************************************************)
(* Properties                                                              *)
(***************************************************************************)

(* As long as no reclaim has taken a row from its execution, the row has   *)
(* at most one execution in all processes together, and that execution is  *)
(* the one the row's status, attempts and worker_id describe (claim_jobs,  *)
(* SKIP LOCKED and the WHERE status = 'pending').                          *)
SoleExecution ==
    \A j \in Jobs : reclaims[j] = 0 =>
        \A e \in ExecutionsOfJob(j) :
            /\ jobs[j].status = "running"
            /\ jobs[j].attempts = e.attempt
            /\ jobs[j].worker_id = e.worker
            /\ \A f \in ExecutionsOfJob(j) : f = e

(* Executions of one row overlap only as often as the row was reclaimed:   *)
(* the unconditional outcome UPDATEs add no further copies, even when they *)
(* put a row back to pending that another execution is working on.         *)
OverlapBounded ==
    \A j \in Jobs :
        Cardinality(ExecutionsOfJob(j))
            + (IF jobs[j].status = "pending" THEN 1 ELSE 0) <= 1 + reclaims[j]

(* max_attempts bounds the claims of a row up to one extra claim for every *)
(* reclaim (reclaim_stale_jobs does not look at attempts), although        *)
(* mark_error decides on attempts it read one statement earlier.           *)
AttemptsBounded ==
    \A j \in Jobs : jobs[j].attempts <= jobs[j].max_attempts + reclaims[j]

(* A dedupe_key has one holder, and a holder is unfinished, except a row   *)
(* that reclaim_ancient_running_jobs set to 'error' (it keeps its key until*)
(* the next enqueue releases it).                                          *)
KeyHolders ==
    \A i, j \in Jobs : jobs[i].dedupe_key # NoKey =>
        /\ jobs[i].status \in Active \cup {"error"}
        /\ jobs[j].dedupe_key = jobs[i].dedupe_key => i = j

(* The handler of a row that was never reclaimed can always be cancelled:  *)
(* its own token is the one mapped (register and deregister by job id).    *)
TokenReachable ==
    \A e \in execs :
        e.phase = "running" /\ e.worker # InlineCli /\ reclaims[e.job] = 0
            => tokens[e.worker][e.job] = e.attempt

(* A row that reached a final status keeps it unless it was reclaimed from *)
(* a running execution before: late outcomes of claims, retries and        *)
(* cancellations never revive or relabel it.                               *)
FinalStatusKept ==
    [][\A j \in Jobs : jobs[j].status \in Terminal /\ reclaims[j] = 0
          => jobs'[j].status = jobs[j].status]_vars

Orphaned(j) == jobs[j].status = "running" /\ ExecutionsOfJob(j) = {}
CancelStuck(j) == jobs[j].status = "pending" /\ jobs[j].cancel_requested

(* Every enqueued job settles in a final status, and there are exactly two *)
(* ways in which it may not: its execution is gone and nobody reclaims the *)
(* running row, or it was put back to pending after a cancel request.      *)
JobsSettle ==
    \A j \in Jobs :
        jobs[j].status \in Active
            ~> \/ jobs[j].status \in Terminal
               \/ Orphaned(j)
               \/ CancelStuck(j)

(* A job that nobody cancels is claimed: permits come back after every     *)
(* outcome and the runner's poll finds the row (claim_and_dispatch).       *)
DueJobsClaimed ==
    \A j \in Jobs :
        jobs[j].status = "pending" /\ ~jobs[j].cancel_requested
            ~> jobs[j].status # "pending"

-----------------------------------------------------------------------------
(***************************************************************************)
(* Refinement                                                              *)
(***************************************************************************)

Life == INSTANCE JobLifecycle
          WITH state <- [j \in Jobs |-> jobs[j].status],
               taken <- {j \in Jobs : reclaims[j] > 0}

(* The queue implements the life cycle: whatever claims, outcomes, crashes *)
(* and cancellations interleave, the status of a row that no reclaim took  *)
(* goes from pending to running to its end, a retry back to pending and a  *)
(* cancellation only from pending or by the execution; a row never         *)
(* disappears.                                                             *)
LifecycleKept == Life!Spec

-----------------------------------------------------------------------------
(***************************************************************************)
(* Two jobs of one key                                                     *)
(***************************************************************************)

(* A row that has not ended and was never reclaimed still holds the key it *)
(* was enqueued with.                                                      *)
OpenHoldsKey ==
    \A j \in Jobs :
        jobs[j].status \notin Terminal /\ reclaims[j] = 0
            => jobs[j].dedupe_key = wanted[j]

(* Two jobs enqueued with one key and never reclaimed are never pending or *)
(* running together: enqueue skips the second insert.  (After a reclaim    *)
(* they can be: the outcome of the first execution gives up the key while  *)
(* the row is queued or running again.)                                    *)
OneActivePerKey ==
    \A i, j \in Jobs :
        /\ jobs[i].status \in Active /\ jobs[j].status \in Active
        /\ wanted[i] # NoKey /\ wanted[i] = wanted[j]
        /\ reclaims[i] = 0 /\ reclaims[j] = 0
        => i = j
=============================================================================
