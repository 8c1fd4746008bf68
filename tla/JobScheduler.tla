---------------------------- MODULE JobScheduler ----------------------------
(***************************************************************************)
(* The cron scheduler of the worker binary (backend/src/jobs/scheduler.rs):*)
(* replicas compete for a PostgreSQL advisory lock held by a dedicated     *)
(* connection; the owner ticks, enqueues a cron job that is due under a    *)
(* dedupe key with a minute bucket, stamps last_enqueued_at, and then      *)
(* checks that its connection still owns the lock.                         *)
(*                                                                         *)
(* One enabled row of cron_jobs is modelled (tick_once treats the rows one *)
(* after the other and they share nothing).  Time is counted in ticks of   *)
(* a fraction of a minute.                                                 *)
(***************************************************************************)
EXTENDS Integers, FiniteSets

CONSTANTS
    Replicas,        \* worker processes that run the scheduler
    NoOne,           \* the advisory lock is free
    TicksPerMinute,  \* resolution of the model's clock
    Period,          \* the cron expression fires every Period ticks
    MaxNow,          \* bound: the clock stops here
    FaultKinds,      \* which of "crash", "lock", "enqueue", "stamp" may go wrong
    MaxFaults        \* bound: how many faults are explored

ASSUME JobSchedulerAssumption ==
    /\ NoOne \notin Replicas
    /\ TicksPerMinute \in Nat \ {0} /\ Period \in Nat \ {0}
    /\ MaxNow \in Nat /\ MaxFaults \in Nat

Null == -1
Times == 0..MaxNow

VARIABLES
    now,      \* the clock, the same for the replicas and the database
    last,     \* cron_jobs.last_enqueued_at
    holder,   \* owner of the advisory lock
    pc,       \* where tick_loop of a replica is, "out" if it has no connection
    seen,     \* the clock and last_enqueued_at tick_once has read
    active,   \* minutes whose dedupe key a pending or running job holds
    fires,    \* history: jobs enqueued for an occurrence of the schedule
    late,     \* history: jobs a replica enqueued since it lost the lock
    faults    \* crashes, lost connections and failed statements so far

vars == <<now, last, holder, pc, seen, active, fires, late, faults>>

Minute(t) == t \div TicksPerMinute
Minutes == 0..Minute(MaxNow)

(* schedule.after(&last).next()                                            *)
NextAfter(t) == ((t \div Period) + 1) * Period
Occurrences == 0..NextAfter(MaxNow)

PCs == {"out", "idle", "first", "due", "stamp", "verify"}

TypeOK ==
    /\ now \in Times
    /\ last \in Times \cup {Null}
    /\ holder \in Replicas \cup {NoOne}
    /\ pc \in [Replicas -> PCs]
    /\ seen \in [Replicas -> [now : Times, last : Times \cup {Null}]]
    /\ active \in SUBSET Minutes
    /\ fires \in [Occurrences -> Nat]
    /\ late \in [Replicas -> Nat]
    /\ faults \in 0..MaxFaults

Init ==
    /\ now = 0
    /\ last \in {Null, 0}
    /\ holder = NoOne
    /\ pc = [r \in Replicas |-> "out"]
    /\ seen = [r \in Replicas |-> [now |-> 0, last |-> Null]]
    /\ active = {}
    /\ fires = [o \in Occurrences |-> 0]
    /\ late = [r \in Replicas |-> 0]
    /\ faults = 0

Goto(r, label) == pc' = [pc EXCEPT ![r] = label]
Fault(kind) ==
    /\ kind \in FaultKinds
    /\ faults < MaxFaults
    /\ faults' = faults + 1

(***************************************************************************)
(* Ownership                                                               *)
(***************************************************************************)

(* Variant: a busy lock is not respected.                                  *)
TryAcquireLockBusy(r) ==
    /\ pc[r] = "out"
    /\ holder' = r
    /\ Goto(r, "idle")
    /\ late' = [late EXCEPT ![r] = 0]
    /\ UNCHANGED <<now, last, seen, active, fires, faults>>

(* try_acquire_lock: pg_try_advisory_lock on a connection of the pool, also*)
(* on one whose session still has the lock.                                *)
TryAcquireLock(r) ==
    /\ pc[r] = "out"
    /\ holder \in {NoOne, r}
    /\ holder' = r
    /\ Goto(r, "idle")
    /\ late' = [late EXCEPT ![r] = 0]
    /\ UNCHANGED <<now, last, seen, active, fires, faults>>

(* Variant: the tick loop does not look at the lock again.                 *)
StillHoldsLockUnchecked(r) ==
    /\ pc[r] = "verify"
    /\ Goto(r, "idle")
    /\ UNCHANGED <<now, last, holder, seen, active, fires, late, faults>>

(* still_holds_lock after every tick; otherwise tick_loop breaks.          *)
StillHoldsLock(r) ==
    /\ pc[r] = "verify"
    /\ Goto(r, IF holder = r THEN "idle" ELSE "out")
    /\ UNCHANGED <<now, last, holder, seen, active, fires, late, faults>>

(* `unwrap_or(false)`: the check fails and counts as a lost lock.  If the  *)
(* second check fails too, or the unlock after it, the connection goes back*)
(* to the pool with the lock.                                              *)
CheckFails(r) ==
    /\ pc[r] = "verify"
    /\ Goto(r, "out")
    /\ holder' \in {holder, IF holder = r THEN NoOne ELSE holder}
    /\ Fault("lock")
    /\ UNCHANGED <<now, last, seen, active, fires, late>>

(* The pool closes such a connection (idle_timeout, max_lifetime).         *)
CloseIdle(r) ==
    /\ pc[r] = "out"
    /\ holder = r
    /\ holder' = NoOne
    /\ UNCHANGED <<now, last, pc, seen, active, fires, late, faults>>

(* Cancellation between two ticks: break and pg_advisory_unlock.           *)
Shutdown(r) ==
    /\ pc[r] = "idle"
    /\ Goto(r, "out")
    /\ holder' = IF holder = r THEN NoOne ELSE holder
    /\ UNCHANGED <<now, last, seen, active, fires, late, faults>>

(* The lock's connection dies; its session lock goes with it.              *)
LoseLock(r) ==
    /\ holder = r
    /\ holder' = NoOne
    /\ Fault("lock")
    /\ UNCHANGED <<now, last, pc, seen, active, fires, late>>

Crash(r) ==
    /\ pc[r] # "out"
    /\ Goto(r, "out")
    /\ holder' = IF holder = r THEN NoOne ELSE holder
    /\ Fault("crash")
    /\ UNCHANGED <<now, last, seen, active, fires, late>>

(***************************************************************************)
(* tick_once                                                               *)
(***************************************************************************)

(* Utc::now(), then SELECT ... FROM cron_jobs.  A NULL is stamped and      *)
(* skipped; a job whose next time is in the future is skipped.             *)
ReadCron(r) ==
    /\ pc[r] = "idle"
    /\ seen' = [seen EXCEPT ![r] = [now |-> now, last |-> last]]
    /\ \/ last = Null /\ Goto(r, "first")
       \/ last # Null /\ NextAfter(last) > now /\ Goto(r, "verify")
       \/ last # Null /\ NextAfter(last) <= now /\ Goto(r, "due")
    /\ UNCHANGED <<now, last, holder, active, fires, late, faults>>

(* The dedupe key: cron:<name>:<%Y%m%d%H%M>.                               *)
Key(r) == Minute(seen[r].now)

(* enqueue_simple under the key cron:<name>:<minute>.                      *)
Insert(r) ==
    IF Key(r) \in active
    THEN UNCHANGED <<active, fires, late>>
    ELSE /\ active' = active \cup {Key(r)}
         /\ fires' = [fires EXCEPT ![NextAfter(seen[r].last)] = @ + 1]
         /\ late' = [late EXCEPT ![r] = IF holder = r THEN 0 ELSE @ + 1]

Enqueue(r) ==
    /\ pc[r] = "due"
    /\ Insert(r)
    /\ Goto(r, "stamp")
    /\ UNCHANGED <<now, last, holder, seen, faults>>

(* enqueue_simple returns an error, before or after the row is committed:  *)
(* nothing is stamped.                                                     *)
EnqueueError(r) ==
    /\ pc[r] = "due"
    /\ Insert(r) \/ UNCHANGED <<active, fires, late>>
    /\ Goto(r, "verify")
    /\ Fault("enqueue")
    /\ UNCHANGED <<now, last, holder, seen>>

(* Variant: only a job seen for the first time is stamped.                 *)
StampNothing(r) ==
    /\ pc[r] \in {"first", "stamp"}
    /\ last' = IF pc[r] = "first" THEN now ELSE last
    /\ Goto(r, "verify")
    /\ UNCHANGED <<now, holder, seen, active, fires, late, faults>>

(* Variant: the next time is stamped, not the time of the enqueue.         *)
StampNext(r) ==
    /\ pc[r] \in {"first", "stamp"}
    /\ last' = NextAfter(now)
    /\ Goto(r, "verify")
    /\ UNCHANGED <<now, holder, seen, active, fires, late, faults>>

(* UPDATE cron_jobs SET last_enqueued_at = now(), by the database clock.   *)
Stamp(r) ==
    /\ pc[r] \in {"first", "stamp"}
    /\ last' = now
    /\ Goto(r, "verify")
    /\ UNCHANGED <<now, holder, seen, active, fires, late, faults>>

(* `let _ =`: the UPDATE fails silently.                                   *)
StampLost(r) ==
    /\ pc[r] \in {"first", "stamp"}
    /\ Goto(r, "verify")
    /\ Fault("stamp")
    /\ UNCHANGED <<now, last, holder, seen, active, fires, late>>

(***************************************************************************)
(* Around the scheduler                                                    *)
(***************************************************************************)

(* The job of that minute ends and its row gives the key up (mark_success).*)
JobFinishes(m) ==
    /\ m \in active
    /\ active' = active \ {m}
    /\ UNCHANGED <<now, last, holder, pc, seen, fires, late, faults>>

Tick ==
    /\ now < MaxNow
    /\ now' = now + 1
    /\ UNCHANGED <<last, holder, pc, seen, active, fires, late, faults>>

-----------------------------------------------------------------------------

TickLoop(r) ==
    TryAcquireLock(r) \/ ReadCron(r) \/ Enqueue(r) \/ Stamp(r) \/ StillHoldsLock(r)

Next ==
    \/ \E r \in Replicas : \/ TickLoop(r) \/ Shutdown(r)
                           \/ CheckFails(r) \/ CloseIdle(r)
                           \/ LoseLock(r) \/ Crash(r)
                           \/ EnqueueError(r) \/ StampLost(r)
    \/ \E m \in Minutes : JobFinishes(m)
    \/ Tick

Spec == Init /\ [][Next]_vars

(* A replica that can take its next step takes it.  Shutdowns are finitely *)
(* many only if the operator lets the workers run, so the last one to own  *)
(* the lock is not stopped for ever: strong fairness of reading the table. *)
FairSpec ==
    /\ Spec
    /\ \A r \in Replicas : WF_vars(TickLoop(r)) /\ SF_vars(ReadCron(r)) /\ WF_vars(CloseIdle(r))
    /\ WF_vars(Tick)

-----------------------------------------------------------------------------
(***************************************************************************)
(* Properties                                                              *)
(***************************************************************************)

(* An occurrence of the schedule is enqueued once, and once more at most   *)
(* for every crash, lost lock or failed statement: neither missed periods, *)
(* nor a change of owner, nor ticks a second apart enqueue it again.       *)
FiresAccounted == \A o \in Occurrences : fires[o] <= 1 + faults

(* A replica whose lock connection died finishes the tick it is in and     *)
(* enqueues nothing after that (the still_holds_lock guard of tick_loop).  *)
DeposedStops == \A r \in Replicas : late[r] <= 1

(* Without a fault one replica at most is inside tick_loop, and it is the  *)
(* one that owns the advisory lock.                                        *)
SoleOwner ==
    faults = 0 => \A r \in Replicas : pc[r] # "out" => holder = r

(* A job that is due is stamped: it does not stay due for ever, whatever   *)
(* replica crashes, loses the lock or fails a statement in between.        *)
DueIsStamped ==
    \A t \in Times : last = t /\ NextAfter(t) <= now ~> last # t
=============================================================================
