-------------------------- MODULE KeywordRecompute --------------------------
(***************************************************************************)
(* The single-flight recompute of media.is_keyword_blocked                 *)
(* (backend/src/state.rs): every change of the keyword tables, and every   *)
(* start of a process, calls schedule_kind_recompute, which may spawn      *)
(* kw_recompute_single_flight.  The runs coordinate through three rows of  *)
(* keyword_sync_state - the lease, the requested version and the           *)
(* completion marker - each touched by single autocommit statements.       *)
(*                                                                         *)
(* A task is one call of schedule_kind_recompute and the run it spawns; it *)
(* is its own owner token.  A version is the hash of the keyword tables.   *)
(* The media table is a sequence of batches, each with the version its     *)
(* flags were last computed from.  The unit of time is the renewal         *)
(* interval RECOMPUTE_LEASE_RENEW_SECS.                                    *)
(***************************************************************************)
EXTENDS Integers, FiniteSets

CONSTANTS
    Tasks,        \* calls of schedule_kind_recompute, over all processes
    Nobody,       \* no lease row
    MaxVersion,   \* bound: versions are 1..MaxVersion, 0 is an absent row
    Batches,      \* number of batches of the media table
    Stale,        \* RECOMPUTE_LEASE_STALE_SECS
    Abort,        \* RECOMPUTE_RENEW_ABORT_SECS
    MaxAttempts,  \* RECOMPUTE_MAX_ATTEMPTS
    Faulty,       \* statements may fail and processes may die
    Reverts,      \* an edit may restore an earlier keyword table
    Racing        \* an edit may happen while a task is still scheduling

ASSUME KeywordRecomputeAssumption ==
    /\ Nobody \notin Tasks
    /\ {MaxVersion, Batches, Stale, Abort, MaxAttempts} \subseteq Nat \ {0}
    /\ Abort < Stale
    /\ {Faulty, Reverts, Racing} \subseteq BOOLEAN

VARIABLES
    live,      \* version of the keyword tables
    request,   \* the requested version, 0 without a row
    marker,    \* the completion marker, 0 without a row
    lease,     \* owner and time since synced_at of the lease row
    rows,      \* the version each batch was last computed from
    task,      \* the tasks
    latest,    \* history: the task that claimed the lease last
    aborted,   \* history: a schedule has deleted a lease somebody held
    late       \* history: a batch was written by a task without the lease

vars == <<live, request, marker, lease, rows, task, latest, aborted, late>>
db == <<live, request, marker, lease, rows>>
history == <<latest, aborted, late>>

-----------------------------------------------------------------------------

Versions == 1..MaxVersion
Scheduling == {"start", "check", "request", "abort", "active"}
Sweeping == {"sweep", "batched"}
PCs == {"idle", "loop", "claim", "claimed", "renew", "confirm", "swept",
        "publish", "back", "leave", "ended"} \cup Scheduling \cup Sweeping

(* renew_until_lost beside a sweep: it waits for its next tick, or its     *)
(* UPDATE is under way, or is executed - on the lease or on no row - and   *)
(* the reply is under way.                                                 *)
Asks == {"idle", "asked", "done", "lost"}
MaxLost == 2 * Abort + 2     \* bound of the history "lost"

Task == [pc : PCs,
         ver : 0..MaxVersion,      \* kf: the version being worked on
         changed : BOOLEAN,        \* version_changed
         batch : 0..Batches,       \* batches done
         ok : BOOLEAN,             \* swept_ok; at "confirm": the reply
         quiet : 0..(Abort + 1),   \* ticks since last_confirmed
         ask : Asks,               \* the renewal
         missed : BOOLEAN,         \* a tick passed during the renewal
         lost : 0..MaxLost,        \* history: ticks swept without the lease
         tries : 0..MaxAttempts]

NoLease == [owner |-> Nobody, age |-> 0]

TypeOK ==
    /\ live \in Versions
    /\ request \in 0..MaxVersion
    /\ marker \in 0..MaxVersion
    /\ lease \in [owner : Tasks \cup {Nobody}, age : 0..Stale]
    /\ rows \in [1..Batches -> 0..MaxVersion]
    /\ task \in [Tasks -> Task]
    /\ latest \in Tasks \cup {Nobody}
    /\ aborted \in BOOLEAN /\ late \in BOOLEAN

At(t, labels) == task[t].pc \in labels
Become(t, r) == task' = [task EXCEPT ![t] = r]
Goto(t, label) == Become(t, [task[t] EXCEPT !.pc = label])

(* Between two attempts, and when it ends, a task keeps only its attempts. *)
Fresh(label, n) ==
    [pc |-> label, ver |-> 0, changed |-> FALSE, batch |-> 0, ok |-> FALSE,
     quiet |-> 0, ask |-> "idle", missed |-> FALSE, lost |-> 0, tries |-> n]
Loop(t) == Become(t, Fresh("loop", task[t].tries))
End(t) == Become(t, Fresh("ended", 0))

(* A converged deployment, or a fresh one where nothing was ever swept.    *)
Init ==
    /\ live = 1
    /\ \/ marker = 1 /\ request \in {0, 1} /\ rows = [b \in 1..Batches |-> 1]
       \/ marker = 0 /\ request = 0 /\ rows = [b \in 1..Batches |-> 0]
    /\ lease = NoLease
    /\ task = [t \in Tasks |-> Fresh("idle", 0)]
    /\ latest = Nobody
    /\ aborted = FALSE
    /\ late = FALSE

Owns(t) == lease.owner = t
Held == lease.owner # Nobody
Expired == lease.age >= Stale

(* recompute_superseded: a newer version has been requested or, if nobody  *)
(* requested one, is live.                                                 *)
Superseded(ver) == IF request # 0 THEN request # ver ELSE live # ver

(***************************************************************************)
(* Triggers                                                                *)
(***************************************************************************)

Trigger(t) == At(t, {"idle"}) /\ Goto(t, "start")

(* An admin edits the keyword tables, or a process syncs the keyword file; *)
(* both then schedule a recompute.                                         *)
EditKeywords(t) ==
    /\ Trigger(t)
    /\ Racing \/ \A u \in Tasks : ~At(u, Scheduling)
    /\ live' \in IF Reverts THEN Versions \ {live} ELSE Versions \cap {live + 1}
    /\ UNCHANGED <<request, marker, lease, rows, history>>

(* A process starts, or an admin reloads the cache: nothing has changed.   *)
Startup(t) == Trigger(t) /\ UNCHANGED <<db, history>>

(***************************************************************************)
(* schedule_kind_recompute                                                 *)
(***************************************************************************)

LoadLive(t) ==
    /\ At(t, {"start"})
    /\ Become(t, [task[t] EXCEPT !.pc = "check", !.ver = live])
    /\ UNCHANGED <<db, history>>

(* Nothing to do when the marker already has the version; otherwise the    *)
(* previous request is read.                                               *)
CheckMarker(t) ==
    /\ At(t, {"check"})
    /\ IF marker = task[t].ver THEN End(t)
       ELSE Become(t, [task[t] EXCEPT !.pc = "request", !.changed = request # task[t].ver])
    /\ UNCHANGED <<db, history>>

(* Variant: the request is not recorded.                                   *)
SetRequestForgotten(t) ==
    /\ At(t, {"request"})
    /\ Goto(t, IF task[t].changed THEN "abort" ELSE "active")
    /\ UNCHANGED <<db, history>>

SetRequest(t) ==
    /\ At(t, {"request"})
    /\ request' = task[t].ver
    /\ Goto(t, IF task[t].changed THEN "abort" ELSE "active")
    /\ UNCHANGED <<live, marker, lease, rows, history>>

(* abort_recompute_lease deletes the lease row, whoever owns it.           *)
AbortRecomputeLease(t) ==
    /\ At(t, {"abort"})
    /\ lease' = NoLease
    /\ aborted' = (aborted \/ Held)
    /\ Loop(t)
    /\ UNCHANGED <<live, request, marker, rows, latest, late>>

(* is_recompute_lease_active: somebody is already at this version.         *)
CheckActive(t) ==
    /\ At(t, {"active"})
    /\ IF Held /\ ~Expired THEN End(t) ELSE Loop(t)
    /\ UNCHANGED <<db, history>>

(***************************************************************************)
(* kw_recompute_single_flight                                              *)
(***************************************************************************)

(* The top of the loop: reload the live version, compare it to the marker. *)
Attempt(t) ==
    /\ At(t, {"loop"})
    /\ IF task[t].tries = MaxAttempts \/ marker = live THEN End(t)
       ELSE Become(t, [task[t] EXCEPT !.pc = "claim", !.ver = live, !.tries = @ + 1])
    /\ UNCHANGED <<db, history>>

(* INSERT ... ON CONFLICT DO UPDATE WHERE the lease is stale.              *)
ClaimLease(t) ==
    /\ At(t, {"claim"})
    /\ IF ~Held \/ Expired
       THEN lease' = [owner |-> t, age |-> 0] /\ latest' = t /\ Goto(t, "claimed")
       ELSE UNCHANGED <<lease, latest>> /\ Loop(t)
    /\ UNCHANGED <<live, request, marker, rows, aborted, late>>

(* Recheck the marker and the request under the lease.                     *)
Recheck(t) ==
    /\ At(t, {"claimed"})
    /\ Goto(t, IF marker = task[t].ver THEN "leave"
               ELSE IF request # 0 /\ request # task[t].ver THEN "back"
               ELSE "renew")
    /\ UNCHANGED <<db, history>>

(* renew_lease_fenced right before the sweep: the UPDATE is executed ...   *)
ConfirmLease(t) ==
    /\ At(t, {"renew"})
    /\ lease' = IF Owns(t) THEN [lease EXCEPT !.age = 0] ELSE lease
    /\ Become(t, [task[t] EXCEPT !.pc = "confirm", !.ok = Owns(t)])
    /\ UNCHANGED <<live, request, marker, rows, history>>

Begin(t) ==
    [Fresh("sweep", task[t].tries) EXCEPT !.ver = task[t].ver, !.ask = "asked"]

(* ... and its reply, after however long a time, starts the sweep and,     *)
(* beside it, renew_until_lost, whose first tick is immediate.             *)
StartSweep(t) ==
    /\ At(t, {"confirm"})
    /\ IF task[t].ok THEN Become(t, Begin(t)) ELSE Loop(t)
    /\ UNCHANGED <<db, history>>

(* One batch UPDATE of recompute_keyword_blocked.                          *)
SweepBatch(t) ==
    /\ At(t, {"sweep"})
    /\ rows' = [rows EXCEPT ![task[t].batch + 1] = task[t].ver]
    /\ late' = (late \/ ~Owns(t))
    /\ Become(t, [task[t] EXCEPT !.pc = "batched", !.batch = @ + 1])
    /\ UNCHANGED <<live, request, marker, lease, latest, aborted>>

Swept(t, success) ==
    [Fresh("swept", task[t].tries) EXCEPT !.ver = task[t].ver, !.ok = success]

(* Variant: the loop ends one batch early.                                 *)
AfterBatchShort(t) ==
    /\ At(t, {"batched"})
    /\ IF Superseded(task[t].ver) THEN Become(t, Swept(t, FALSE))
       ELSE IF task[t].batch + 1 >= Batches THEN Become(t, Swept(t, TRUE))
       ELSE Goto(t, "sweep")
    /\ UNCHANGED <<db, history>>

(* Variant: the loop ends one batch late.                                  *)
AfterBatchLong(t) ==
    /\ At(t, {"batched"})
    /\ IF Superseded(task[t].ver) THEN Become(t, Swept(t, FALSE))
       ELSE IF task[t].batch > Batches THEN Become(t, Swept(t, TRUE))
       ELSE Goto(t, "sweep")
    /\ UNCHANGED <<db, history>>

(* The sweep ends if it is superseded or has no batch left.                *)
BatchDone(t, superseded) ==
    IF superseded THEN Become(t, Swept(t, FALSE))
    ELSE IF task[t].batch = Batches THEN Become(t, Swept(t, TRUE))
    ELSE Goto(t, "sweep")

AfterBatch(t) ==
    /\ At(t, {"batched"})
    /\ BatchDone(t, Superseded(task[t].ver))
    /\ UNCHANGED <<db, history>>

(* renew_until_lost, beside the sweep: the fenced UPDATE is executed ...   *)
RenewLease(t) ==
    /\ At(t, Sweeping) /\ task[t].ask = "asked"
    /\ lease' = IF Owns(t) THEN [lease EXCEPT !.age = 0] ELSE lease
    /\ Become(t, [task[t] EXCEPT !.ask = IF Owns(t) THEN "done" ELSE "lost"])
    /\ UNCHANGED <<live, request, marker, rows, history>>

(* The next tick.  The interval makes up for the ticks it missed at once:  *)
(* one or more of them.                                                    *)
NextRenewal(t, q) ==
    \E m \in {FALSE, task[t].missed} :
        Become(t, [task[t] EXCEPT !.quiet = q, !.missed = m,
                                  !.ask = IF task[t].missed THEN "asked" ELSE "idle"])

(* ... and only its reply sets last_confirmed;                             *)
RenewConfirmed(t) ==
    /\ At(t, Sweeping) /\ task[t].ask = "done"
    /\ NextRenewal(t, 0)
    /\ UNCHANGED <<db, history>>

(* a reply of 0 rows ends the sweep.                                       *)
RenewLost(t) ==
    /\ At(t, Sweeping) /\ task[t].ask = "lost"
    /\ Become(t, Swept(t, FALSE))
    /\ UNCHANGED <<db, history>>

(* Variant: an unconfirmed holder sweeps on.                               *)
SweepOn(t) ==
    /\ Faulty
    /\ At(t, Sweeping) /\ task[t].ask # "idle"
    /\ NextRenewal(t, IF task[t].quiet > Abort THEN Abort ELSE task[t].quiet)
    /\ UNCHANGED <<db, history>>

(* The renewal fails or times out, before or after its UPDATE.  The test   *)
(* of RECOMPUTE_RENEW_ABORT_SECS follows; last_confirmed lies somewhere    *)
(* after a tick, so that Abort ticks later the limit may or may not have   *)
(* been reached, and one tick later it has.                                *)
RenewFails(t) ==
    /\ Faulty
    /\ At(t, Sweeping) /\ task[t].ask # "idle"
    /\ \/ task[t].quiet >= Abort /\ Become(t, Swept(t, FALSE))
       \/ task[t].quiet <= Abort /\ NextRenewal(t, task[t].quiet)
    /\ UNCHANGED <<db, history>>

Renew(t) == RenewLease(t) \/ RenewConfirmed(t) \/ RenewLost(t)

(* What follows a sweep: publication, if it is complete and still wanted.  *)
AfterSweep(t, superseded) ==
    Goto(t, IF task[t].ok /\ ~superseded THEN "publish" ELSE "back")

Judge(t) ==
    /\ At(t, {"swept"})
    /\ AfterSweep(t, Superseded(task[t].ver))
    /\ UNCHANGED <<db, history>>

(* Variant: the marker is written without looking at the lease.            *)
PublishUnfenced(t) ==
    /\ At(t, {"publish"})
    /\ marker' = task[t].ver
    /\ Goto(t, "back")
    /\ UNCHANGED <<live, request, lease, rows, history>>

(* publish_marker_fenced                                                   *)
PublishMarker(t) ==
    /\ At(t, {"publish"})
    /\ IF Owns(t) THEN marker' = task[t].ver /\ lease' = [lease EXCEPT !.age = 0]
                  ELSE UNCHANGED <<marker, lease>>
    /\ Goto(t, "back")
    /\ UNCHANGED <<live, request, rows, history>>

(* Variant: the lease is deleted without looking at its owner.             *)
ReleaseAnyLease(t) ==
    /\ At(t, {"back", "leave"})
    /\ lease' = NoLease
    /\ IF At(t, {"leave"}) THEN End(t) ELSE Loop(t)
    /\ UNCHANGED <<live, request, marker, rows, history>>

(* release_lease, then back to the loop or home.                           *)
ReleaseLease(t) ==
    /\ At(t, {"back", "leave"})
    /\ lease' = IF Owns(t) THEN NoLease ELSE lease
    /\ IF At(t, {"leave"}) THEN End(t) ELSE Loop(t)
    /\ UNCHANGED <<live, request, marker, rows, history>>

(***************************************************************************)
(* Faults: a statement fails, a process dies                               *)
(***************************************************************************)

(* What the code does when the statement at its label fails: give up, try  *)
(* again, or go on as if it had done nothing.                              *)
StatementFails(t) ==
    /\ Faulty
    /\ \/ At(t, {"start", "leave"}) /\ End(t)
       \/ At(t, {"abort", "active", "claim", "renew", "confirm", "back"}) /\ Loop(t)
       \/ At(t, {"request"}) /\ Goto(t, IF task[t].changed THEN "abort" ELSE "active")
       \/ At(t, {"sweep"}) /\ Become(t, Swept(t, FALSE))
       \/ At(t, {"publish"}) /\ Goto(t, "back")
       \/ /\ At(t, {"loop"}) /\ task[t].tries < MaxAttempts
          /\ Become(t, Fresh("loop", task[t].tries + 1))
    /\ UNCHANGED <<db, history>>

(* A failed read of a marker or request counts as an absent row, and a     *)
(* recompute_superseded that can read neither the request nor the keyword  *)
(* tables as "not superseded".                                             *)
ReadFails(t) ==
    /\ Faulty
    /\ \/ /\ At(t, {"check"})
          /\ \E c \in {TRUE, request # task[t].ver} :
               Become(t, [task[t] EXCEPT !.pc = "request", !.changed = c])
       \/ /\ At(t, {"loop"}) /\ task[t].tries < MaxAttempts
          /\ Become(t, [task[t] EXCEPT !.pc = "claim", !.ver = live, !.tries = @ + 1])
       \/ /\ At(t, {"claimed"})
          /\ \/ Goto(t, "renew")
             \/ request \notin {0, task[t].ver} /\ Goto(t, "back")
       \/ /\ At(t, {"batched"})
          /\ \E s \in {FALSE, live # task[t].ver} : BatchDone(t, s)
       \/ /\ At(t, {"swept"})
          /\ \E s \in {FALSE, live # task[t].ver} : AfterSweep(t, s)
    /\ UNCHANGED <<db, history>>

Die(t) ==
    /\ Faulty
    /\ ~At(t, {"idle", "ended"})
    /\ End(t)
    /\ UNCHANGED <<db, history>>

(***************************************************************************)
(* Time.  A renewal is answered before the next tick, unless statements    *)
(* fail: then tokio's timeout ends it when what is left of                 *)
(* RECOMPUTE_RENEW_ABORT_SECS, or a second, has passed.  Everything else   *)
(* may take arbitrarily long.                                              *)
(***************************************************************************)
MayWait(t) ==
    /\ At(t, Sweeping) => task[t].ask = "idle" \/ (Faulty /\ task[t].quiet < Abort)
    /\ At(t, {"confirm"}) => Faulty

Ticked(t) ==
    [task[t] EXCEPT !.quiet = @ + 1,
                    !.ask = IF @ = "idle" THEN "asked" ELSE @,
                    !.missed = @ \/ task[t].ask # "idle",
                    !.lost = IF Owns(t) \/ @ = MaxLost THEN @ ELSE @ + 1]

Tick ==
    /\ Held \/ \E t \in Tasks : At(t, Sweeping)
    /\ \A t \in Tasks : MayWait(t)
    /\ lease' = [lease EXCEPT !.age = IF Held /\ @ < Stale THEN @ + 1 ELSE @]
    /\ task' = [t \in Tasks |-> IF At(t, Sweeping) THEN Ticked(t) ELSE task[t]]
    /\ UNCHANGED <<live, request, marker, rows, history>>

-----------------------------------------------------------------------------

Schedule(t) ==
    \/ LoadLive(t) \/ CheckMarker(t) \/ SetRequest(t)
    \/ AbortRecomputeLease(t) \/ CheckActive(t)

SingleFlight(t) ==
    \/ Attempt(t) \/ ClaimLease(t) \/ Recheck(t) \/ ConfirmLease(t)
    \/ StartSweep(t) \/ SweepBatch(t) \/ AfterBatch(t) \/ Judge(t)
    \/ PublishMarker(t) \/ ReleaseLease(t)

Next ==
    \/ \E t \in Tasks :
         \/ EditKeywords(t) \/ Startup(t)
         \/ Schedule(t) \/ SingleFlight(t) \/ Renew(t)
         \/ RenewFails(t) \/ StatementFails(t) \/ ReadFails(t) \/ Die(t)
    \/ Tick

Spec == Init /\ [][Next]_vars

(* Spawned tasks run and their renewals are sent; edits need not happen.   *)
FairSpec ==
    /\ Spec
    /\ \A t \in Tasks : WF_vars(Schedule(t)) /\ WF_vars(SingleFlight(t)) /\ WF_vars(Renew(t))

-----------------------------------------------------------------------------

(* "two sweeps never overlap", wherever the lease was not deleted under a  *)
(* live sweep: the claim, the confirmation before the sweep, the renewals  *)
(* and the staleness limit keep a task from sweeping beside its successor, *)
(* however slow the tasks are outside the sweep.                           *)
SweepsExclusive ==
    ~aborted =>
        \A t, u \in Tasks : At(t, Sweeping) /\ At(u, Sweeping) => t = u

(* A sweep that has lost its lease, or starts without it, ends, whatever   *)
(* its renewals meet: it is never at work for more than Abort + 1 ticks    *)
(* without the lease or, if a schedule has deleted a lease under its       *)
(* holder, while the reply of a renewal was under way, 2 * Abort + 1.      *)
LostSweepEnds ==
    \A t \in Tasks :
        At(t, Sweeping) =>
            task[t].lost <= IF aborted THEN 2 * Abort + 1 ELSE Abort + 1

(* "a stale holder can never overwrite a successor's completion marker":   *)
(* only the task that claimed the lease last ever writes the marker.       *)
PublishedByLatest ==
    [][marker' # marker =>
         \E t \in Tasks : At(t, {"publish"}) /\ latest = t /\ marker' = task[t].ver]_vars

(* The marker is only ever set to a version that every batch has just been *)
(* computed from, unless a batch was written by a task that had lost its   *)
(* lease.                                                                  *)
PublishedWasSwept ==
    [][marker' # marker /\ ~late => \A b \in 1..Batches : rows[b] = marker']_vars

(* When edits do not race with a schedule, never restore an old version    *)
(* and nothing fails, the marker ends up at the live version.              *)
MarkerConverges ==
    (\E t \in Tasks : At(t, {"loop"})) ~> (marker = live)

(* "the top-of-loop reload compares the marker against the LIVE keyword    *)
(* state and exits only when they agree, otherwise we keep converging":    *)
(* once a task has published, the marker gets to the live version, also    *)
(* when an edit has restored a recorded version in between.                *)
KeepsConverging ==
    (\E t \in Tasks : At(t, {"back"}) /\ Owns(t) /\ marker = task[t].ver)
        ~> (marker = live)
=============================================================================
