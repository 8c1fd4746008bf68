---------------------------- MODULE TaskiqQueue ----------------------------
(***************************************************************************)
(* The task queue of the former Python implementation                      *)
(* (python-deprecated/workers/task_queue.py): actors run by taskiq workers *)
(* from a Redis stream, a status record per task, the set of running       *)
(* tasks, cancellation markers and the minimum interval between two runs,  *)
(* with the admin endpoints over them (api/routers/admin/                  *)
(* task_management.py, scheduler_management.py).                           *)
(*                                                                         *)
(* All tasks that have a minimum interval share one interval key.  A time  *)
(* stamp is represented by its age up to Interval (the required interval   *)
(* less the 10 s buffer), where "no key" is as good as old.  A record is   *)
(* its status: every other field is written and never read by the code.    *)
(* Writing a status is one step although the upsert is a GET and a SET,    *)
(* because the status it writes does not depend on what it read; only the  *)
(* upsert of a cancellation, which puts the status it read back, is two.   *)
(***************************************************************************)
EXTENDS Integers

CONSTANTS
    Tasks,       \* task ids
    Slots,       \* executions the workers run at a time
    Msgs,        \* entries of the stream that exist at a time (bound)
    NoTask,      \* no task
    NoMsg,       \* the execution slot is free
    Interval,    \* the minimum interval, in ticks
    MaxRetries,  \* max_retries of an actor that has it
    Budget       \* bound: tasks sent, cancellations requested, processes that die,
                 \* Redis calls that fail and entries redelivered from a live
                 \* execution, all together

ASSUME TaskiqQueueAssumption ==
    /\ NoTask \notin Tasks
    /\ NoMsg \notin Msgs
    /\ Interval \in Nat \ {0}
    /\ MaxRetries \in Nat \ {0}
    /\ Budget \in Nat

VARIABLES
    actor,    \* the kind of actor the tasks are of
    record,   \* status in the record of each task
    forced,   \* tasks without the interval guard: sent with force_run, or a later
              \* page of a chain, which has no crontab_expression
    sender,   \* coroutine that sends the task
    msg,      \* the stream
    exec,     \* the executions
    stamp,    \* age of the last-run stamp under the interval key
    marker,   \* tasks with a cancellation marker
    running,  \* the Redis set of running task ids
    admin,    \* a cancellation request on its way
    since,    \* history: age of the last start behind the interval guard, or
              \* Interval if a failed run has deleted the stamp since then
    lost,     \* history: tasks whose sender died, or one of whose two executions
              \* of a redelivered entry
    raced,    \* history: tasks whose status a cancellation has put back
    doomed,   \* history: tasks cancelled while no execution had them
    orphaned, \* history: tasks whose execution died
    unseen,   \* history: marked tasks that a failed look at the marker let start
    spent     \* how much of Budget is used

vars == <<actor, record, forced, sender, msg, exec, stamp, marker, running,
          admin, since, lost, raced, doomed, orphaned, unseen, spent>>

-----------------------------------------------------------------------------

Terminal == {"success", "error", "cancelled", "skipped", "enqueue_failed"}
Retryable == Terminal \ {"success"}
Active == {"scheduled", "queued", "running"}
Statuses == {"none"} \cup Active \cup Terminal

Ages == 0..Interval
Older(age) == IF age < Interval THEN age + 1 ELSE age

(* An actor with max_retries (run_background_search,                       *)
(* update_torrent_seeders) does not look at its marker while it runs; the  *)
(* one that polls its marker (run_spider) has no max_retries.              *)
Actors == {"retried", "polling"}
Polls == actor = "polling"
RetryOnError == actor = "retried"

Message == [task : Tasks \cup {NoTask}, retries : 0..(MaxRetries - 1),
            state : {"absent", "waiting", "pending", "acked"}]

PCs == {"free", "check", "prepare", "stamp", "run", "finalize",
        "record", "clear", "skip", "end", "ack"}
Results == {"none", "success", "error", "cancelled", "timeout"}
Execution == [pc : PCs, msg : Msgs \cup {NoMsg},
              guarded : BOOLEAN,   \* there is a _TaskExecutionContext
              passed : BOOLEAN,    \* history: another run set the stamp after the GET
              result : Results]

Free == [pc |-> "free", msg |-> NoMsg, guarded |-> FALSE, passed |-> FALSE,
         result |-> "none"]
NoMessage == [task |-> NoTask, retries |-> 0, state |-> "absent"]
Quiet == [task |-> NoTask, pc |-> "idle", seen |-> "none"]

TypeOK ==
    /\ actor \in Actors
    /\ record \in [Tasks -> Statuses]
    /\ forced \subseteq Tasks
    /\ sender \in [Tasks -> {"none", "delay", "kiq", "done"}]
    /\ msg \in [Msgs -> Message]
    /\ exec \in [Slots -> Execution]
    /\ stamp \in Ages /\ since \in Ages
    /\ marker \subseteq Tasks /\ running \subseteq Tasks
    /\ admin \in [task : Tasks \cup {NoTask},
                  pc : {"idle", "mark", "read", "write"}, seen : Statuses]
    /\ lost \subseteq Tasks /\ raced \subseteq Tasks /\ doomed \subseteq Tasks
    /\ orphaned \subseteq Tasks /\ unseen \subseteq Tasks
    /\ spent \in 0..Budget

Init ==
    /\ actor \in Actors
    /\ record = [t \in Tasks |-> "none"]
    /\ forced = {}
    /\ sender = [t \in Tasks |-> "none"]
    /\ msg = [m \in Msgs |-> NoMessage]
    /\ exec = [s \in Slots |-> Free]
    /\ stamp = Interval /\ since = Interval
    /\ marker = {} /\ running = {}
    /\ admin = Quiet
    /\ lost = {} /\ raced = {} /\ doomed = {} /\ orphaned = {} /\ unseen = {}
    /\ spent = 0

At(s, label) == exec[s].pc = label
TaskOf(s) == msg[exec[s].msg].task
Holders(m) == {s \in Slots : exec[s].msg = m}
Executing(t) == {s \in Slots : exec[s].msg # NoMsg /\ TaskOf(s) = t}
Become(s, e) == exec' = [exec EXCEPT ![s] = e]
Goto(s, label) == Become(s, [exec[s] EXCEPT !.pc = label])
SetStatus(t, status) == record' = [record EXCEPT ![t] = status]
Spend == spent < Budget /\ spent' = spent + 1

(* XADD of a new entry.                                                    *)
Unused == {m \in Msgs : msg[m].state \in {"absent", "acked"} /\ Holders(m) = {}}
Add(t, retries) ==
    /\ Unused # {}
    /\ LET m == CHOOSE m \in Unused : TRUE
       IN  msg' = [msg EXCEPT ![m] = [task |-> t, retries |-> retries,
                                      state |-> "waiting"]]

(***************************************************************************)
(* Sending                                                                 *)
(***************************************************************************)

(* Variables of the sending side and of the execution side.                *)
sending == <<record, forced, sender>>
history == <<since, lost, raced, doomed, orphaned, unseen>>

(* async_send, the scheduler's async_send and run_scheduler_job: the       *)
(* record is written first, with a delay as "scheduled".  Only the next    *)
(* page of update_torrent_seeders is sent with a delay.                    *)
Send(t) ==
    /\ sender[t] = "none"
    /\ Spend
    /\ \E delayed \in BOOLEAN, force \in BOOLEAN :
         /\ delayed => RetryOnError /\ force
         /\ SetStatus(t, IF delayed THEN "scheduled" ELSE "queued")
         /\ sender' = [sender EXCEPT ![t] = IF delayed THEN "delay" ELSE "kiq"]
         /\ forced' = IF force THEN forced \cup {t} ELSE forced
    /\ UNCHANGED <<actor, msg, exec, stamp, marker, running, admin, history>>

(* retry_task and bulk_retry_tasks: a new task with the payload of the old.*)
RetryTask(t, u) ==
    /\ record[t] \in Retryable
    /\ sender[u] = "none"
    /\ Spend
    /\ SetStatus(u, "queued")
    /\ sender' = [sender EXCEPT ![u] = "kiq"]
    /\ forced' = IF t \in forced THEN forced \cup {u} ELSE forced
    /\ UNCHANGED <<actor, msg, exec, stamp, marker, running, admin, history>>

(* _delayed_send after its sleep.                                          *)
DelayedSend(t) ==
    /\ sender[t] = "delay"
    /\ SetStatus(t, "queued")
    /\ sender' = [sender EXCEPT ![t] = "kiq"]
    /\ UNCHANGED <<actor, forced, msg, exec, stamp, marker, running, admin,
                   history, spent>>

Kiq(t) ==
    /\ sender[t] = "kiq"
    /\ Add(t, 0)
    /\ sender' = [sender EXCEPT ![t] = "done"]
    /\ UNCHANGED <<actor, record, forced, exec, stamp, marker, running, admin,
                   history, spent>>

(* kiq raises: the record says so.                                         *)
KiqFails(t) ==
    /\ sender[t] = "kiq"
    /\ Spend
    /\ SetStatus(t, "enqueue_failed")
    /\ sender' = [sender EXCEPT ![t] = "done"]
    /\ UNCHANGED <<actor, forced, msg, exec, stamp, marker, running, admin, history>>

(* The sending process dies in its sleep or before the XADD.               *)
SenderDies(t) ==
    /\ sender[t] \in {"delay", "kiq"}
    /\ Spend
    /\ sender' = [sender EXCEPT ![t] = "done"]
    /\ lost' = lost \cup {t}
    /\ UNCHANGED <<actor, record, forced, msg, exec, stamp, marker, running, admin,
                   since, raced, doomed, orphaned, unseen>>

(***************************************************************************)
(* The worker: taskiq around _execute_actor                                *)
(***************************************************************************)

Deliver(s, m) ==
    /\ At(s, "free")
    /\ msg[m].state = "waiting"
    /\ msg' = [msg EXCEPT ![m].state = "pending"]
    /\ Become(s, [Free EXCEPT !.pc = "check", !.msg = m])
    /\ UNCHANGED <<actor, sending, stamp, marker, running, admin, history, spent>>

(* An entry that stays unacknowledged longer than the broker's idle time   *)
(* goes to another execution: its own has died, or its actor runs long.    *)
Redeliver(s, m) ==
    /\ At(s, "free")
    /\ msg[m].state = "pending"
    /\ \A h \in Holders(m) : At(h, "run")
    /\ IF Holders(m) = {} THEN UNCHANGED spent ELSE Spend
    /\ Become(s, [Free EXCEPT !.pc = "check", !.msg = m])
    /\ UNCHANGED <<actor, sending, msg, stamp, marker, running, admin, history>>

(* SADD and the status "running".                                          *)
BeginRun(s) ==
    /\ SetStatus(TaskOf(s), "running")
    /\ running' = running \cup {TaskOf(s)}
    /\ Goto(s, "prepare")

(* Variant: the marker is tidied up as at the end of a run.                *)
CheckCancelledTidy(s) ==
    /\ At(s, "check")
    /\ IF TaskOf(s) \in marker
       THEN /\ SetStatus(TaskOf(s), "cancelled")
            /\ Become(s, [exec[s] EXCEPT !.pc = "end", !.result = "error"])
            /\ UNCHANGED running
       ELSE BeginRun(s)
    /\ marker' = marker \ {TaskOf(s)}
    /\ UNCHANGED <<actor, forced, sender, msg, stamp, admin, history, spent>>

(* A marked task is recorded as cancelled and TaskCancelledError raised;   *)
(* the marker stays.  Nobody else's step between the EXISTS and the SADD   *)
(* makes a difference, so they are one.                                    *)
CheckCancelled(s) ==
    /\ At(s, "check")
    /\ IF TaskOf(s) \in marker
       THEN /\ SetStatus(TaskOf(s), "cancelled")
            /\ Become(s, [exec[s] EXCEPT !.pc = "end", !.result = "error"])
            /\ UNCHANGED running
       ELSE BeginRun(s)
    /\ UNCHANGED <<actor, forced, sender, msg, stamp, marker, admin, history, spent>>

(* The EXISTS fails, which counts as "not cancelled".                      *)
CheckFails(s) ==
    /\ At(s, "check")
    /\ TaskOf(s) \in marker
    /\ Spend
    /\ BeginRun(s)
    /\ unseen' = unseen \cup {TaskOf(s)}
    /\ UNCHANGED <<actor, forced, sender, msg, stamp, marker, admin, since, lost,
                   raced, doomed, orphaned>>

(* _prepare_task_execution up to the GET of the stamp.                     *)
Prepare(s) ==
    /\ At(s, "prepare")
    /\ Goto(s, CASE TaskOf(s) \in forced -> "run"
                 [] TaskOf(s) \notin forced /\ stamp < Interval -> "skip"
                 [] OTHER -> "stamp")
    /\ UNCHANGED <<actor, sending, msg, stamp, marker, running, admin, history, spent>>

(* Variant: the stamp is only written when the run is over.                *)
SetStampLate(s) ==
    /\ At(s, "stamp")
    /\ since' = 0
    /\ exec' = [exec EXCEPT ![s] = [@ EXCEPT !.pc = "run", !.guarded = TRUE]]
    /\ UNCHANGED <<actor, sending, msg, stamp, marker, running, admin, lost, raced,
                   doomed, orphaned, unseen, spent>>

(* SET of the stamp: the actor is about to start behind the guard.         *)
SetStamp(s) ==
    /\ At(s, "stamp")
    /\ stamp' = 0
    /\ since' = 0
    /\ exec' = [x \in Slots |->
                  IF x = s THEN [exec[s] EXCEPT !.pc = "run", !.guarded = TRUE,
                                                !.passed = FALSE]
                  ELSE [exec[x] EXCEPT !.passed = @ \/ At(x, "stamp")]]
    /\ UNCHANGED <<actor, sending, msg, marker, running, admin, lost, raced, doomed,
                   orphaned, unseen, spent>>

(* The GET or the SET fails: the actor runs without a context.             *)
PrepareFails(s) ==
    /\ exec[s].pc \in {"prepare", "stamp"}
    /\ TaskOf(s) \notin forced
    /\ Spend
    /\ Become(s, [exec[s] EXCEPT !.pc = "run", !.passed = FALSE])
    /\ UNCHANGED <<actor, sending, msg, stamp, marker, running, admin, history>>

(* Status "skipped" and SREM; the actor function returns None.             *)
Skip(s) ==
    /\ At(s, "skip")
    /\ SetStatus(TaskOf(s), "skipped")
    /\ running' = running \ {TaskOf(s)}
    /\ Become(s, [exec[s] EXCEPT !.pc = "end", !.result = "success"])
    /\ UNCHANGED <<actor, forced, sender, msg, stamp, marker, admin, history, spent>>

(* The actor function ends.  taskiq's timeout cancels the coroutine, and   *)
(* CancelledError is no Exception: the finally block sees exception = None.*)
ActorEnds(s, result) ==
    /\ At(s, "run")
    /\ result = "cancelled" => Polls /\ TaskOf(s) \in marker
    /\ Become(s, [exec[s] EXCEPT !.pc = "finalize", !.result = result])
    /\ UNCHANGED <<actor, sending, msg, stamp, marker, running, admin, history, spent>>

(* _finalize_task_execution: whoever fails deletes the stamp, whoever set  *)
(* it; otherwise the stamp is set again.                                   *)
Finalize(s) ==
    /\ At(s, "finalize")
    /\ LET failed == exec[s].result \in {"error", "cancelled"}
       IN  IF exec[s].guarded
           THEN /\ stamp' = IF failed THEN Interval ELSE 0
                /\ since' = IF failed THEN Interval ELSE since
           ELSE UNCHANGED <<stamp, since>>
    /\ Become(s, [exec[s] EXCEPT !.pc = "record", !.guarded = FALSE])
    /\ UNCHANGED <<actor, sending, msg, marker, running, admin, lost, raced,
                   doomed, orphaned, unseen, spent>>

FinalizeFails(s) ==
    /\ At(s, "finalize")
    /\ exec[s].guarded
    /\ Spend
    /\ Become(s, [exec[s] EXCEPT !.pc = "record", !.guarded = FALSE])
    /\ UNCHANGED <<actor, sending, msg, stamp, marker, running, admin, history>>

(* What is left of the result: whether an exception goes on to taskiq.     *)
Raised(result) == IF result = "success" THEN "success" ELSE "error"

(* Variant: a run that fails keeps the status it began with.               *)
RecordOnlySuccess(s) ==
    /\ At(s, "record")
    /\ IF exec[s].result \in {"success", "timeout"}
       THEN SetStatus(TaskOf(s), "success") ELSE UNCHANGED record
    /\ Become(s, [exec[s] EXCEPT !.pc = "clear", !.result = Raised(@)])
    /\ UNCHANGED <<actor, forced, sender, msg, stamp, marker, running, admin,
                   history, spent>>

(* Variant: a run that timed out gets a status of its own.                 *)
RecordTimeout(s) ==
    /\ At(s, "record")
    /\ SetStatus(TaskOf(s), exec[s].result)
    /\ Become(s, [exec[s] EXCEPT !.pc = "clear", !.result = Raised(@)])
    /\ UNCHANGED <<actor, forced, sender, msg, stamp, marker, running, admin,
                   history, spent>>

(* The final status; a run that timed out counts as a success.             *)
RecordResult(s) ==
    /\ At(s, "record")
    /\ SetStatus(TaskOf(s), IF exec[s].result = "timeout" THEN "success"
                            ELSE exec[s].result)
    /\ Become(s, [exec[s] EXCEPT !.pc = "clear", !.result = Raised(@)])
    /\ UNCHANGED <<actor, forced, sender, msg, stamp, marker, running, admin,
                   history, spent>>

(* Variant: the id is only removed after a success.                        *)
ClearOnSuccess(s) ==
    /\ At(s, "clear")
    /\ running' = IF exec[s].result = "success" THEN running \ {TaskOf(s)} ELSE running
    /\ marker' = marker \ {TaskOf(s)}
    /\ Goto(s, "end")
    /\ UNCHANGED <<actor, sending, msg, stamp, admin, history, spent>>

(* SREM, then DEL of the marker.                                           *)
Clear(s) ==
    /\ At(s, "clear")
    /\ running' = running \ {TaskOf(s)}
    /\ marker' = marker \ {TaskOf(s)}
    /\ Goto(s, "end")
    /\ UNCHANGED <<actor, sending, msg, stamp, admin, history, spent>>

(* The DEL fails, which is logged.                                         *)
ClearKeepsMarker(s) ==
    /\ At(s, "clear")
    /\ Spend
    /\ running' = running \ {TaskOf(s)}
    /\ Goto(s, "end")
    /\ UNCHANGED <<actor, sending, msg, stamp, marker, admin, history>>

(* SimpleRetryMiddleware.on_error: the same task id is sent again, without *)
(* a record, if the actor has max_retries and they are not used up.        *)
Retry(s) ==
    /\ At(s, "end")
    /\ LET m == exec[s].msg
           again == /\ exec[s].result # "success"
                    /\ RetryOnError
                    /\ msg[m].retries + 1 < MaxRetries
       IN  IF again THEN Add(TaskOf(s), msg[m].retries + 1) ELSE UNCHANGED msg
    /\ Become(s, [exec[s] EXCEPT !.pc = "ack", !.result = "none"])
    /\ UNCHANGED <<actor, sending, stamp, marker, running, admin, history, spent>>

(* The result is saved and the entry acknowledged.                         *)
Ack(s) ==
    /\ At(s, "ack")
    /\ msg' = [msg EXCEPT ![exec[s].msg] =
                 IF Holders(exec[s].msg) = {s} THEN NoMessage
                 ELSE [@ EXCEPT !.state = "acked"]]
    /\ Become(s, Free)
    /\ UNCHANGED <<actor, sending, stamp, marker, running, admin, history, spent>>

(* The worker process dies; its entry stays unacknowledged.                *)
WorkerDies(s) ==
    /\ ~At(s, "free")
    /\ Spend
    /\ orphaned' = orphaned \cup {TaskOf(s)}
    /\ lost' = IF msg[exec[s].msg].state = "acked" \/ Holders(exec[s].msg) # {s}
               THEN lost \cup {TaskOf(s)} ELSE lost
    /\ msg' = [msg EXCEPT ![exec[s].msg] =
                 IF @.state = "acked" /\ Holders(exec[s].msg) = {s} THEN NoMessage ELSE @]
    /\ Become(s, Free)
    /\ UNCHANGED <<actor, sending, stamp, marker, running, admin, since, raced,
                   doomed, unseen>>

(***************************************************************************)
(* Cancellation by an administrator                                        *)
(***************************************************************************)

(* cancel_task and bulk_cancel_tasks refuse a terminal status.             *)
RequestCancel(t) ==
    /\ admin.pc = "idle"
    /\ record[t] \in Active
    /\ Spend
    /\ admin' = [task |-> t, pc |-> "mark", seen |-> "none"]
    /\ UNCHANGED <<actor, sending, msg, exec, stamp, marker, running, since, lost,
                   raced, doomed, orphaned, unseen>>

(* request_task_cancellation: SET of the marker, then an upsert.           *)
SetMarker ==
    /\ admin.pc = "mark"
    /\ marker' = marker \cup {admin.task}
    /\ admin' = [admin EXCEPT !.pc = "read"]
    /\ doomed' = IF Executing(admin.task) = {} THEN doomed \cup {admin.task} ELSE doomed
    /\ UNCHANGED <<actor, sending, msg, exec, stamp, running, since, lost,
                   raced, orphaned, unseen, spent>>

UpsertReads ==
    /\ admin.pc = "read"
    /\ admin' = [admin EXCEPT !.pc = "write", !.seen = record[admin.task]]
    /\ UNCHANGED <<actor, sending, msg, exec, stamp, marker, running, history, spent>>

UpsertWrites ==
    /\ admin.pc = "write"
    /\ SetStatus(admin.task, admin.seen)
    /\ raced' = IF record[admin.task] # admin.seen THEN raced \cup {admin.task} ELSE raced
    /\ admin' = Quiet
    /\ UNCHANGED <<actor, forced, sender, msg, exec, stamp, marker, running, since,
                   lost, doomed, orphaned, unseen, spent>>

(* Time passes; the GET and the SET of the stamp are one round trip apart. *)
Tick ==
    /\ \A s \in Slots : ~At(s, "stamp")
    /\ stamp' = Older(stamp)
    /\ since' = Older(since)
    /\ UNCHANGED <<actor, sending, msg, exec, marker, running, admin, lost,
                   raced, doomed, orphaned, unseen, spent>>

-----------------------------------------------------------------------------

SenderStep(t) ==
    \/ Send(t) \/ DelayedSend(t) \/ Kiq(t) \/ KiqFails(t) \/ SenderDies(t)
    \/ \E u \in Tasks : RetryTask(t, u)

(* What a live execution does next.                                        *)
Proceed(s) ==
    \/ CheckCancelled(s) \/ Prepare(s) \/ SetStamp(s) \/ Skip(s)
    \/ \E result \in Results \ {"none"} : ActorEnds(s, result)
    \/ Finalize(s) \/ RecordResult(s) \/ Clear(s) \/ Retry(s) \/ Ack(s)

WorkerStep(s) ==
    \/ \E m \in Msgs : Deliver(s, m) \/ Redeliver(s, m)
    \/ Proceed(s)
    \/ CheckFails(s) \/ PrepareFails(s) \/ FinalizeFails(s)
    \/ ClearKeepsMarker(s) \/ WorkerDies(s)

AdminStep ==
    \/ \E t \in Tasks : RequestCancel(t)
    \/ SetMarker \/ UpsertReads \/ UpsertWrites

Next ==
    \/ \E t \in Tasks : SenderStep(t)
    \/ \E s \in Slots : WorkerStep(s)
    \/ AdminStep
    \/ Tick

Spec == Init /\ [][Next]_vars

-----------------------------------------------------------------------------
(***************************************************************************)
(* Properties                                                              *)
(***************************************************************************)

(* A task that was cancelled while no execution had it never starts, until *)
(* a look at its marker fails: the marker outlives the retries that taskiq *)
(* makes of the raised TaskCancelledError, redeliveries and delayed sends  *)
(* (_execute_actor, is_task_cancel_requested).                             *)
CancelledNeverStarts ==
    \A s \in Slots : ~At(s, "free") /\ TaskOf(s) \in doomed \ unseen =>
        exec[s].pc \in {"check", "end", "ack"}

(* Two starts behind the interval guard are Interval apart unless a failed *)
(* run, whichever it was, deleted the stamp in between, or both runs had   *)
(* read the stamp before either wrote it (_prepare_task_execution,         *)
(* _finalize_task_execution).                                              *)
IntervalKept ==
    [][\A s \in Slots : At(s, "stamp") /\ exec'[s].guarded =>
          since = Interval \/ exec[s].passed]_vars

(* Nothing in the system will work on the task any more.                   *)
Over(t) ==
    /\ sender[t] = "done"
    /\ Executing(t) = {}
    /\ \A m \in Msgs : msg[m].task = t => msg[m].state \in {"absent", "acked"}
    /\ admin.pc = "idle" \/ admin.task # t

(* When everything about a task is over its record says so, except when    *)
(* its sender died, when a second execution of its entry died, which the   *)
(* first had acknowledged, or when the upsert of a cancellation put an     *)
(* older status back (_upsert_task_record).                                *)
RecordSettles ==
    \A t \in Tasks : Over(t) => record[t] \in Terminal \/ t \in lost \cup raced

(* When everything about a task is over it is not listed as running,       *)
(* except when an execution died and either its entry was acknowledged by  *)
(* another, or the redelivered entry found the cancellation marker, which  *)
(* leaves the set alone (_execute_actor).                                  *)
RunningSettles ==
    \A t \in Tasks : Over(t) /\ t \in running => t \in lost \cup (orphaned \cap marker)
=============================================================================
