---------------------------- MODULE PlaybackDedup ----------------------------
(***************************************************************************)
(* Deduplication of concurrent playback resolutions                        *)
(* (backend/src/routes/playback_dedup.rs, used by routes/playback.rs and   *)
(* routes/usenet.rs): requests for one stream share a cached URL and a     *)
(* Redis lock `<cache key>:locked` whose value is the second it was taken, *)
(* with a TTL the holder extends.  One cache key is modelled.              *)
(*                                                                         *)
(* The unit of time is one refresh interval of the holder                  *)
(* (LOCK_REFRESH_INTERVAL_SECS), so that a tick is also a refresh of every *)
(* live guard.  Between two ticks the requests interleave freely.          *)
(***************************************************************************)
EXTENDS Integers, FiniteSets

CONSTANTS
    Requests,  \* HTTP requests for the stream, HEAD probes and GETs
    NoOne,     \* the lock key does not exist
    Earlier,   \* an earlier request, whose process has died
    TTL,       \* RESOLVE_LOCK_TTL_SECS
    Holder,    \* HOLDER_RESOLVE_TIMEOUT_SECS
    Stale,     \* STALE_LOCK_SECS
    Wait,      \* CLIENT_WAIT_BUDGET_SECS
    Retries,   \* attempts of acquire_resolve_lock
    MaxDelay   \* bound: how long a DEL may be on its way to Redis

(* The relations between the constants that the code relies on; the last   *)
(* two are the compile-time assertions of its test module.                 *)
ASSUME PlaybackDedupAssumption ==
    /\ {NoOne, Earlier} \cap Requests = {} /\ NoOne # Earlier
    /\ {TTL, Holder, Stale, Wait, Retries} \subseteq Nat \ {0}
    /\ MaxDelay \in Nat /\ MaxDelay < TTL
    /\ Holder <= Stale
    /\ Holder <= Wait

VARIABLES
    lock,     \* the lock key: taken by (history), age of its value, TTL left
    cache,    \* is the playback URL cached
    stub,     \* does the database still hold scraper-guessed file metadata:
              \* "yes", "no", or "updating" while a spawned task replaces it
    req,      \* the requests: where each is (pc), where it goes on after a DEL
              \* (ret), what is left of its wait, of its resolve budget or of a
              \* DEL's delay (left), its failed attempts at the lock (tries)
    aged      \* history: some lock has reached the stale age

vars == <<lock, cache, stub, req, aged>>

-----------------------------------------------------------------------------

Ended == {"done", "failed", "gone"}
Guarded == {"check", "purge", "resolving", "store", "finish"}
Deleting == {"reclaim", "release", "dropping"}
Unguarded == {"start", "prepare", "bypass", "held", "wait", "after", "recheck",
              "again", "last", "acquire"}
PCs == Ended \cup Guarded \cup Deleting \cup Unguarded

Stubs == {"yes", "updating", "no"}

Free == [owner |-> NoOne, age |-> 0, ttl |-> 0]

Times == 0..(Wait + Holder + MaxDelay)

At(label) == [pc |-> label, ret |-> label, left |-> 0, tries |-> 0]

TypeOK ==
    /\ lock \in [owner : Requests \cup {NoOne, Earlier}, age : 0..Stale, ttl : 0..TTL]
    /\ cache \in BOOLEAN /\ stub \in Stubs /\ aged \in BOOLEAN
    /\ req \in [Requests -> [pc : PCs, ret : PCs, left : Times, tries : 0..Retries]]

(* A process that died may have left the lock, its last refresh not long   *)
(* ago.                                                                    *)
Init ==
    /\ lock \in {Free} \cup [owner : {Earlier}, age : 0..(Stale - 1), ttl : 1..TTL]
    /\ cache = FALSE
    /\ stub \in {"yes", "no"}
    /\ req = [r \in Requests |-> At("start")]
    /\ aged = FALSE

LockHeld == lock.owner # NoOne
(* playback_metadata_needs_refresh                                         *)
NeedsRefresh == stub # "no"

StaleLock == LockHeld /\ lock.age >= Stale

Goto(r, label) == req' = [req EXCEPT ![r] = At(label)]
GotoFor(r, label, n) == req' = [req EXCEPT ![r] = [At(label) EXCEPT !.left = n]]

(***************************************************************************)
(* Reading the cache and the lock                                          *)
(***************************************************************************)

(* A cached URL is returned, unless the metadata still is a stub: then the *)
(* cache key is deleted, in a round trip of its own, before the request    *)
(* goes on to `otherwise`.                                                 *)
UseCache(r, otherwise) ==
    /\ cache
    /\ req' = [req EXCEPT ![r] = IF NeedsRefresh THEN [At("bypass") EXCEPT !.ret = otherwise]
                                                 ELSE At("done")]
    /\ UNCHANGED <<lock, cache, stub, aged>>

Bypass(r) ==
    /\ req[r].pc = "bypass"
    /\ cache' = FALSE
    /\ Goto(r, req[r].ret)
    /\ UNCHANGED <<lock, stub, aged>>

(* The request after it has looked at the lock: about to DEL it, or at     *)
(* `then`, in both cases with n failed attempts to take it.                *)
Reclaim(r, stale, then, n) ==
    req' = [req EXCEPT ![r] =
              [pc |-> IF stale THEN "reclaim" ELSE then, ret |-> then,
               left |-> IF stale THEN MaxDelay ELSE 0, tries |-> n]]

(* Variant: the age in the lock's value is not looked at.                  *)
ReclaimAnyLock(r, then, n) == Reclaim(r, ~cache /\ LockHeld, then, n)

(* reclaim_stale_lock: GET the cache, GET the lock and, if its value is    *)
(* old enough, DEL - a later round trip.  Without a stale lock the request *)
(* goes on at once.                                                        *)
ReclaimStaleLock(r, then, n) == Reclaim(r, ~cache /\ StaleLock, then, n)

ReclaimDel(r) ==
    /\ req[r].pc = "reclaim"
    /\ lock' = Free
    /\ Reclaim(r, FALSE, req[r].ret, req[r].tries)
    /\ UNCHANGED <<cache, stub, aged>>

(***************************************************************************)
(* prepare_resolve and try_ready_after_wait                                *)
(***************************************************************************)

(* try_cached_playback_url before anything else.                           *)
FirstLook(r) ==
    /\ req[r].pc = "start"
    /\ \/ UseCache(r, "prepare")
       \/ /\ ~cache /\ Goto(r, "prepare")
          /\ UNCHANGED <<lock, cache, stub, aged>>

Prepare(r) ==
    /\ req[r].pc = "prepare"
    /\ \/ UseCache(r, "acquire")
       \/ /\ ~cache
          /\ ReclaimStaleLock(r, "held", 0)
          /\ UNCHANGED <<lock, cache, stub, aged>>

CheckHeld(r) ==
    /\ req[r].pc = "held"
    /\ IF LockHeld THEN GotoFor(r, "wait", Wait)
                   ELSE Goto(r, "acquire")
    /\ UNCHANGED <<lock, cache, stub, aged>>

(* wait_for_cached_url: until the URL is there, the lock is gone, or the   *)
(* budget is spent.                                                        *)
WaitForCachedUrl(r) ==
    /\ req[r].pc = "wait"
    /\ \/ UseCache(r, "acquire")
       \/ /\ ~cache
          /\ ~LockHeld \/ req[r].left = 0
          /\ Goto(r, "after")
          /\ UNCHANGED <<lock, cache, stub, aged>>

(* The lock as a waiter finds it: gone, young or stale.                    *)
LookAgain(r, young, reclaimed) ==
    \/ UseCache(r, "acquire")
    \/ /\ ~cache
       /\ \/ ~LockHeld /\ Goto(r, "acquire")
          \/ LockHeld /\ ~StaleLock /\ Goto(r, young)
          \/ StaleLock /\ ReclaimStaleLock(r, reclaimed, 0)
       /\ UNCHANGED <<lock, cache, stub, aged>>

AfterReclaim(r, label, held) ==
    /\ req[r].pc = label
    /\ Goto(r, IF LockHeld THEN held ELSE "acquire")
    /\ UNCHANGED <<lock, cache, stub, aged>>

AfterWait(r) == req[r].pc = "after" /\ LookAgain(r, "again", "recheck")
TryReadyAfterWait(r) == req[r].pc = "again" /\ LookAgain(r, "failed", "last")
LookAfterReclaim(r) ==
    \/ AfterReclaim(r, "recheck", "again")
    \/ AfterReclaim(r, "last", "failed")

(***************************************************************************)
(* acquire_resolve_lock                                                    *)
(***************************************************************************)

(* Variant: SET NX without EX; a ttl of 0 is a key that does not expire.   *)
TakenForever(r) == [owner |-> r, age |-> 0, ttl |-> 0]

(* SET key <now> EX TTL NX                                                 *)
Taken(r) == [owner |-> r, age |-> 0, ttl |-> TTL]

(* Variant: one attempt too many.                                          *)
AcquireOnceMore(r) ==
    /\ req[r].pc = "acquire"
    /\ \/ ~LockHeld /\ lock' = Taken(r) /\ Goto(r, "check")
       \/ /\ LockHeld
          /\ LET n == req[r].tries + 1
             IN  ReclaimStaleLock(r, IF n <= Retries THEN "acquire" ELSE "failed", n)
          /\ UNCHANGED lock
    /\ UNCHANGED <<cache, stub, aged>>

AcquireResolveLock(r) ==
    /\ req[r].pc = "acquire"
    /\ \/ /\ ~LockHeld
          /\ lock' = Taken(r)
          /\ Goto(r, "check")
       \/ /\ LockHeld
          /\ LET n == req[r].tries + 1
             IN  ReclaimStaleLock(r, IF n < Retries THEN "acquire" ELSE "failed", n)
          /\ UNCHANGED lock
    /\ UNCHANGED <<cache, stub, aged>>

(* The future is dropped while the SET is on its way: the key is taken and *)
(* nobody holds a guard for it.                                            *)
AcquireDropped(r) ==
    /\ req[r].pc = "acquire"
    /\ ~LockHeld
    /\ lock' = Taken(r)
    /\ Goto(r, "gone")
    /\ UNCHANGED <<cache, stub, aged>>

(***************************************************************************)
(* Under the lock                                                          *)
(***************************************************************************)

(* Variant: the holder does not look at the cache again.                   *)
CheckCacheSkipped(r) ==
    /\ req[r].pc = "check"
    /\ GotoFor(r, "resolving", Holder)
    /\ UNCHANGED <<lock, cache, stub, aged>>

(* try_cached_playback_url once more.                                      *)
CheckCache(r) ==
    /\ req[r].pc = "check"
    /\ \/ cache /\ ~NeedsRefresh /\ Goto(r, "finish")
       \/ cache /\ NeedsRefresh /\ Goto(r, "purge")
       \/ ~cache /\ GotoFor(r, "resolving", Holder)
    /\ UNCHANGED <<lock, cache, stub, aged>>

Purge(r) ==
    /\ req[r].pc = "purge"
    /\ cache' = FALSE
    /\ GotoFor(r, "resolving", Holder)
    /\ UNCHANGED <<lock, stub, aged>>

(* The provider answers with a URL, and may report files that make the     *)
(* code spawn a task which replaces the stub metadata.                     *)
ResolveOk(r) ==
    /\ req[r].pc = "resolving"
    /\ Goto(r, "store")
    /\ stub' \in IF NeedsRefresh THEN {stub, "updating"} ELSE {stub}
    /\ UNCHANGED <<lock, cache, aged>>

(* update_metadata ends, at any time after; it may fail or not be enough.  *)
UpdateMetadata ==
    /\ stub = "updating"
    /\ stub' \in {"yes", "no"}
    /\ UNCHANGED <<lock, cache, req, aged>>

ResolveErr(r) ==
    /\ req[r].pc = "resolving"
    /\ Goto(r, "finish")
    /\ UNCHANGED <<lock, cache, stub, aged>>

(* Variant: the resolve is awaited without a timeout.                      *)
ResolveUntimed(r) == FALSE

(* holder_resolve_timeout elapses.                                         *)
ResolveTimeout(r) ==
    /\ req[r].pc = "resolving"
    /\ req[r].left = 0
    /\ Goto(r, "finish")
    /\ UNCHANGED <<lock, cache, stub, aged>>

SetPlaybackCache(r) ==
    /\ req[r].pc = "store"
    /\ cache' = TRUE
    /\ Goto(r, "finish")
    /\ UNCHANGED <<lock, stub, aged>>

(***************************************************************************)
(* ResolveLockGuard::release and its Drop                                  *)
(***************************************************************************)

(* release(): `released` is set and the refresh task aborted before the DEL *)
(* is sent.                                                                *)
Release(r) ==
    /\ req[r].pc = "finish"
    /\ GotoFor(r, "release", MaxDelay)
    /\ UNCHANGED <<lock, cache, stub, aged>>

(* The DEL arrives.  It is not fenced: it deletes whatever lock is there.  *)
ReleaseLock(r) ==
    /\ req[r].pc \in {"release", "dropping"}
    /\ lock' = Free
    /\ Goto(r, IF req[r].pc = "release" THEN "done" ELSE "gone")
    /\ UNCHANGED <<cache, stub, aged>>

(* The client disconnects or a HEAD request spends its budget: the future  *)
(* is dropped at an await.  A guard's Drop aborts the refresh task and     *)
(* spawns a DEL, except once release() has begun.                          *)
Drop(r) ==
    /\ req[r].pc \in Unguarded \cup Guarded \cup {"reclaim", "release"}
    /\ IF req[r].pc \in Guarded THEN GotoFor(r, "dropping", MaxDelay)
                            ELSE Goto(r, "gone")
    /\ UNCHANGED <<lock, cache, stub, aged>>

(* The server process dies with the request.                               *)
Crash(r) ==
    /\ req[r].pc \notin Ended
    /\ Goto(r, "gone")
    /\ UNCHANGED <<lock, cache, stub, aged>>

(***************************************************************************)
(* Time                                                                    *)
(***************************************************************************)

Timed == {"wait", "resolving"} \cup Deleting
Overdue == \E r \in Requests : req[r].pc \in Timed /\ req[r].left = 0

(* The lock after one interval: the refresh task of every live guard       *)
(* extends the TTL of the key that is there, without an owner check.       *)
NextLock ==
    LET guarded == \E r \in Requests : req[r].pc \in Guarded
    IN  IF ~LockHeld \/ (lock.ttl = 1 /\ ~guarded) THEN Free
        ELSE [lock EXCEPT !.age = IF @ < Stale THEN @ + 1 ELSE @,
                          !.ttl = IF guarded THEN TTL ELSE IF @ = 0 THEN 0 ELSE @ - 1]

(* One refresh interval passes; nothing timed is left overdue.             *)
Tick ==
    /\ ~Overdue
    /\ req' = [r \in Requests |->
               [req[r] EXCEPT !.left = IF req[r].pc \in Timed THEN @ - 1 ELSE @]]
    /\ lock' = NextLock
    /\ aged' = (aged \/ lock'.age = Stale)
    /\ UNCHANGED <<cache, stub>>

-----------------------------------------------------------------------------

(* What a request does by itself, once Redis answers.                      *)
Step(r) ==
    \/ FirstLook(r) \/ Prepare(r) \/ Bypass(r) \/ CheckHeld(r)
    \/ WaitForCachedUrl(r) \/ AfterWait(r) \/ LookAfterReclaim(r)
    \/ TryReadyAfterWait(r) \/ ReclaimDel(r) \/ AcquireResolveLock(r)
    \/ CheckCache(r) \/ Purge(r) \/ ResolveTimeout(r)
    \/ SetPlaybackCache(r) \/ Release(r) \/ ReleaseLock(r)

Fault(r) == AcquireDropped(r) \/ Drop(r) \/ Crash(r)

Next ==
    \/ \E r \in Requests : Step(r) \/ ResolveOk(r) \/ ResolveErr(r) \/ Fault(r)
    \/ UpdateMetadata
    \/ Tick

Spec == Init /\ [][Next]_vars

(* Redis answers and time passes.  The provider need not answer.           *)
FairSpec ==
    /\ Spec
    /\ \A r \in Requests : WF_vars(Step(r))
    /\ WF_vars(Tick)

-----------------------------------------------------------------------------

(* As long as no lock has reached the stale age, a request that holds a    *)
(* guard, or whose DEL is on its way, still is the owner of the lock: the  *)
(* TTL never runs out under it and no other request's unfenced DEL hits    *)
(* it, so at most one request resolves the stream at a time.               *)
HolderOwnsLock ==
    ~aged =>
        \A r \in Requests :
            req[r].pc \in Guarded \cup {"release", "dropping"} => lock.owner = r

(* As long as no lock has reached the stale age, no request resolves at    *)
(* the provider, or is about to store, what already is in the cache: peers *)
(* of a finished holder use its URL.                                       *)
NoRedundantResolve ==
    ~aged =>
        \A r \in Requests : req[r].pc \in {"resolving", "store"} => ~cache

(* Every request ends: no chain of waits, reclaims and retries keeps a     *)
(* client beyond its budgets, even if the provider never answers and peers *)
(* are dropped or crash.                                                   *)
RequestsEnd == \A r \in Requests : <>(req[r].pc \in Ended)

(* A lock nobody releases - its holder crashed, or was dropped between SET *)
(* and guard, or inside release() - is not kept for ever.                  *)
LockIsFreed == <>[](~LockHeld)
=============================================================================
