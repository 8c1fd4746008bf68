-------------------------- MODULE BackgroundSearch --------------------------
(***************************************************************************)
(* Background re-scraping: stream requests put titles into a Redis hash    *)
(* (backend/src/routes/stream.rs, scrapers/background_queue.rs), and       *)
(* executions of the background_search job (jobs/handlers/                 *)
(* background_search.rs), of which two may run at a time, scrape the ones  *)
(* that are due.  A Redis set marks the items being processed.             *)
(*                                                                         *)
(* A time stamp is represented by its age, counted up to the re-scrape     *)
(* interval: an entry is due when its age has reached it, and the          *)
(* last_scrape of 0.0 that enqueue writes is of that age.  The movie hash  *)
(* and the series hash are read at once, looked through one after the other*)
(* and written item by item.                                               *)
(*                                                                         *)
(* The handler drops the errors of the Redis commands: a hash that cannot  *)
(* be read is empty, an item that cannot be looked up is not marked, what  *)
(* cannot be written is not.                                               *)
(***************************************************************************)
EXTENDS Integers, FiniteSets

CONSTANTS
    Items,      \* item keys
    Movies,     \* those of the movie hash; the others are in the series hash
    Runs,       \* executions of the job that may be active together
    NoItem,     \* nothing is being processed
    BatchSize,  \* BATCH_SIZE
    Interval,   \* background_search_interval_hours
    MaxFaults   \* bound: deaths, cancellations and failed Redis commands

ASSUME BackgroundSearchAssumption ==
    /\ NoItem \notin Items
    /\ Movies \subseteq Items
    /\ {BatchSize, Interval} \subseteq Nat \ {0}
    /\ MaxFaults \in Nat

VARIABLES
    queue,       \* the hashes: age of the entry's last_scrape, NotQueued without one
    processing,  \* the set background_search:processing
    run,         \* the executions
    since,       \* history: age of the execution that last scraped an item, or
                 \* Interval if it has been requested since that scrape began
    faults,      \* faults so far
    slipped,     \* history: items for which SISMEMBER, SADD or HSET has failed
    kept,        \* history: items for which SREM has failed
    lost,        \* history: an execution has died
    met          \* history: two executions were active together

vars == <<queue, processing, run, since, faults, slipped, kept, lost, met>>

-----------------------------------------------------------------------------

NotQueued == -1
Ages == 0..Interval
Older(age) == IF age < Interval THEN age + 1 ELSE age

PCs == {"idle", "scan", "next", "scrape", "record", "remove", "finish"}
Run == [pc : PCs,
        age : Ages,                             \* how long ago `now` was read
        todo : SUBSET Items,                    \* read, due, not looked at yet
        due : SUBSET Items,                     \* the batch
        item : Items \cup {NoItem}]

TypeOK ==
    /\ queue \in [Items -> Ages \cup {NotQueued}]
    /\ processing \subseteq Items
    /\ run \in [Runs -> Run]
    /\ \A r \in Runs : Cardinality(run[r].due) <= BatchSize
    /\ since \in [Items -> Ages]
    /\ faults \in 0..MaxFaults
    /\ slipped \subseteq Items /\ kept \subseteq Items
    /\ lost \in BOOLEAN /\ met \in BOOLEAN

Idle == [pc |-> "idle", age |-> 0, todo |-> {}, due |-> {}, item |-> NoItem]

Init ==
    /\ queue = [i \in Items |-> NotQueued]
    /\ processing = {}
    /\ run = [r \in Runs |-> Idle]
    /\ since = [i \in Items |-> Interval]
    /\ faults = 0
    /\ slipped = {} /\ kept = {}
    /\ lost = FALSE
    /\ met = FALSE

At(r, label) == run[r].pc = label
Become(r, x) == run' = [run EXCEPT ![r] = x]
Goto(r, label) == Become(r, [run[r] EXCEPT !.pc = label])
Working(r, i) == run[r].item = i

Fault == faults < MaxFaults /\ faults' = faults + 1

(* Redis answers, or it fails: for an item that is then no longer kept from*)
(* an early scrape, for an item whose mark is then left in the set, or in a*)
(* way that need not be remembered.                                        *)
Answers == UNCHANGED <<faults, slipped, kept>>
Slips(i) == Fault /\ slipped' = slipped \cup {i} /\ UNCHANGED kept
Keeps(i) == Fault /\ kept' = kept \cup {i} /\ UNCHANGED slipped
Fails == Fault /\ UNCHANGED <<slipped, kept>>

(***************************************************************************)
(* Stream requests                                                         *)
(***************************************************************************)

(* enqueue: HSET with last_scrape 0.0, whatever entry there was.           *)
Enqueue(i) ==
    /\ queue' = [queue EXCEPT ![i] = Interval]
    /\ since' = [since EXCEPT ![i] = Interval]
    /\ UNCHANGED <<processing, run, faults, slipped, kept, lost, met>>

(***************************************************************************)
(* BackgroundSearch::run                                                   *)
(***************************************************************************)

(* Variant: the batch has no limit.                                        *)
OnwardUnlimited(x) == [x EXCEPT !.pc = IF x.todo = {} THEN "next" ELSE "scan"]

(* The scan goes on until all entries have been looked at or the batch is  *)
(* full.                                                                   *)
Onward(x) ==
    IF x.todo = {} \/ Cardinality(x.due) >= BatchSize
    THEN [x EXCEPT !.pc = "next", !.todo = {}]
    ELSE [x EXCEPT !.pc = "scan"]

(* Read the clock and both hashes.                                         *)
Begin(r) ==
    LET Read(hashes) ==
          Become(r, Onward([Idle EXCEPT !.todo = {i \in hashes : queue[i] = Interval}]))
    IN  /\ At(r, "idle")
        /\ \/ Answers /\ Read(Items)
           \/ /\ Fails
              /\ \E hashes \in {Movies, Items \ Movies, {}} : Read(hashes)
        /\ met' = (met \/ \E s \in Runs : ~At(s, "idle"))
        /\ UNCHANGED <<queue, processing, since, lost>>

(* Variant: both hashes are looked through together.                       *)
UpcomingMixed(todo) == todo

(* The entries that the loops may look at next: all movies come before the *)
(* series, within a hash the order is that of the HashMap.                 *)
Upcoming(todo) == IF todo \cap Movies # {} THEN todo \cap Movies ELSE todo

(* SISMEMBER: an item is free that is not found in processing.             *)
Free(i) == IF i \in processing THEN Slips(i) ELSE Answers

(* Look at a due entry: it is taken if it is free.                         *)
Scan(r) ==
    /\ At(r, "scan")
    /\ \E i \in Upcoming(run[r].todo) :
         LET x == [run[r] EXCEPT !.todo = @ \ {i}]
         IN  \/ Free(i) /\ Become(r, Onward([x EXCEPT !.due = @ \cup {i}]))
             \/ i \in processing /\ Answers /\ Become(r, Onward(x))
    /\ UNCHANGED <<queue, processing, since, lost, met>>

(* SADD, a statement after the SISMEMBER that found the item free, and the *)
(* lookup of process_item: an item whose media row is gone, or cannot be   *)
(* read (`.ok()?`), is to be dropped.                                      *)
Take(r) ==
    /\ At(r, "next")
    /\ \E i \in run[r].due :
         /\ \/ Answers /\ processing' = processing \cup {i}
            \/ Slips(i) /\ UNCHANGED processing
         /\ \E step \in {"scrape", "remove"} :
              Become(r, [run[r] EXCEPT !.pc = step, !.due = @ \ {i}, !.item = i])
    /\ UNCHANGED <<queue, since, lost, met>>

Finish(r) ==
    /\ At(r, "next")
    /\ run[r].due = {}
    /\ Become(r, Idle)
    /\ UNCHANGED <<queue, processing, since, faults, slipped, kept, lost, met>>

(* The token is cancelled: Err(Cancelled) between two items.               *)
Cancelled(r) ==
    /\ At(r, "next") /\ run[r].due # {}
    /\ Fault
    /\ Become(r, Idle)
    /\ UNCHANGED <<queue, processing, since, slipped, kept, lost, met>>

(* HDEL                                                                    *)
Remove(r) ==
    /\ At(r, "remove")
    /\ \/ Answers /\ queue' = [queue EXCEPT ![run[r].item] = NotQueued]
       \/ Fails /\ UNCHANGED queue
    /\ Goto(r, "finish")
    /\ UNCHANGED <<processing, since, lost, met>>

(* orchestrator::run_background                                            *)
Scrape(r) ==
    /\ At(r, "scrape")
    /\ since' = [since EXCEPT ![run[r].item] = run[r].age]
    /\ Goto(r, "record")
    /\ UNCHANGED <<queue, processing, faults, slipped, kept, lost, met>>

(* Variant: the scrape is not recorded.                                    *)
RecordNothing(r) ==
    /\ At(r, "record")
    /\ Goto(r, "finish")
    /\ UNCHANGED <<queue, processing, since, faults, slipped, kept, lost, met>>

(* HSET with the `now` of the start of the run.                            *)
Record(r) ==
    /\ At(r, "record")
    /\ \/ Answers /\ queue' = [queue EXCEPT ![run[r].item] = run[r].age]
       \/ Slips(run[r].item) /\ UNCHANGED queue
    /\ Goto(r, "finish")
    /\ UNCHANGED <<processing, since, lost, met>>

(* Variant: the item stays in the set.                                     *)
UnmarkNothing(r) ==
    /\ At(r, "finish")
    /\ Become(r, [run[r] EXCEPT !.pc = "next", !.item = NoItem])
    /\ UNCHANGED <<queue, processing, since, faults, slipped, kept, lost, met>>

(* SREM                                                                    *)
Unmark(r) ==
    /\ At(r, "finish")
    /\ \/ Answers /\ processing' = processing \ {run[r].item}
       \/ Keeps(run[r].item) /\ UNCHANGED processing
    /\ Become(r, [run[r] EXCEPT !.pc = "next", !.item = NoItem])
    /\ UNCHANGED <<queue, since, lost, met>>

(* The worker process dies.                                                *)
Die(r) ==
    /\ ~At(r, "idle")
    /\ Fault
    /\ Become(r, Idle)
    /\ lost' = TRUE
    /\ UNCHANGED <<queue, processing, since, slipped, kept, met>>

Tick ==
    /\ queue' = [i \in Items |-> IF queue[i] = NotQueued THEN NotQueued ELSE Older(queue[i])]
    /\ since' = [i \in Items |-> Older(since[i])]
    /\ run' = [r \in Runs |->
                 IF At(r, "idle") THEN run[r] ELSE [run[r] EXCEPT !.age = Older(@)]]
    /\ UNCHANGED <<processing, faults, slipped, kept, lost, met>>

-----------------------------------------------------------------------------

Handler(r) ==
    \/ Scan(r) \/ Take(r) \/ Finish(r) \/ Remove(r) \/ Scrape(r) \/ Record(r)
    \/ Unmark(r)

Next ==
    \/ \E i \in Items : Enqueue(i)
    \/ \E r \in Runs : Begin(r) \/ Handler(r) \/ Cancelled(r) \/ Die(r)
    \/ Tick

Spec == Init /\ [][Next]_vars

(* The cron job enqueues the job again and again and the runner executes   *)
(* it; time passes.  Stream requests need not come.                        *)
FairSpec ==
    /\ Spec
    /\ \A r \in Runs : WF_vars(Begin(r)) /\ WF_vars(Handler(r))
    /\ WF_vars(Tick)

-----------------------------------------------------------------------------

(* Unless a worker process has died or the SREM of that mark has failed,   *)
(* every mark in the processing set belongs to an execution that is at work*)
(* on the item, also when two executions took the same item and the first  *)
(* has removed its mark.                                                   *)
Left(i) == lost \/ i \in kept
MarksOwned == \A i \in processing : Left(i) \/ \E r \in Runs : Working(r, i)

(* An item is scraped again before the interval is over, counted from the  *)
(* start of the execution that scraped it last, only if a stream request   *)
(* asked for it in between, two executions were active together or Redis   *)
(* failed to keep or to tell its mark or its time: otherwise one execution *)
(* after another respects it, also across deaths and cancellations.        *)
SpacedOrExcused ==
    [][\A r \in Runs : At(r, "scrape") /\ run'[r].pc = "record" =>
         LET i == run[r].item
         IN  since[i] = Interval \/ met \/ i \in slipped]_vars

(* The mark of an execution that died, or that failed to remove it, is     *)
(* removed by nobody.                                                      *)
Abandoned(i) == i \in processing /\ Left(i) /\ \A r \in Runs : ~Working(r, i)

(* A full batch of other titles is due that may be looked at first: of     *)
(* movies for a movie, of any titles for a series.                         *)
Rivals(i) == IF i \in Movies THEN Movies \ {i} ELSE Items \ {i}
Crowded(i) == Cardinality({j \in Rivals(i) : queue[j] = Interval}) >= BatchSize

(* A title that is queued and due is scraped again and again or is dropped *)
(* from the queue, unless its mark was left behind or, again and again, a  *)
(* full batch of other titles is due before it (as movies can keep a series*)
(* waiting).  Overlapping executions, requests, failed lookups and lost    *)
(* writes cannot keep it from it.                                          *)
Periodic ==
    \A i \in Items :
        (queue[i] = Interval)
            ~> \/ \E r \in Runs : Working(r, i) /\ At(r, "record")
               \/ queue[i] = NotQueued
               \/ Abandoned(i) \/ Crowded(i)
=============================================================================
