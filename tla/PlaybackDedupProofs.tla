------------------------- MODULE PlaybackDedupProofs -------------------------
(***************************************************************************)
(* Proofs about the playback deduplication, for every number of requests   *)
(* and every choice of the time-outs that keeps the relations the code     *)
(* relies on: the types, the lock and the cache, then the variants that    *)
(* make the requests and an abandoned lock come to an end.                 *)
(***************************************************************************)
EXTENDS PlaybackDedup, TLAPS

(***************************************************************************)
(* The invariant                                                           *)
(***************************************************************************)

Req == [pc : PCs, ret : PCs, left : Times, tries : 0..Retries]

(* Where a request goes on after deleting a stale lock.                    *)
Resumes == {"held", "recheck", "last", "acquire", "failed"}

(* A request that is to try the lock again has an attempt left, and one    *)
(* that deletes a cache entry or a stale lock goes on without a guard.     *)
GoodReq(x) ==
    /\ x \in Req
    /\ x.pc = "acquire" \/ (x.pc = "reclaim" /\ x.ret = "acquire") => x.tries < Retries
    /\ x.pc = "bypass" => x.ret \in {"prepare", "acquire"}
    /\ x.pc = "reclaim" => x.ret \in Resumes

TypeInv == TypeOK /\ \A r \in Requests : GoodReq(req[r])

Releasing == {"release", "dropping"}

(* A stale lock has been noticed, and only then does anyone reclaim one.   *)
AgedInv ==
    /\ lock.age = Stale => aged
    /\ \A r \in Requests : req[r].pc = "reclaim" => aged

(* A live guard's lock has its full TTL, and the TTL of a lock whose DEL   *)
(* is on its way outlasts the DEL.                                         *)
Keeps(r) ==
    /\ req[r].pc \in Guarded => lock.owner = r /\ lock.ttl = TTL
    /\ req[r].pc \in Releasing => lock.owner = r /\ lock.ttl > req[r].left

LockInv == AgedInv /\ (~aged => \A r \in Requests : Keeps(r))

(***************************************************************************)
(* Records of a request                                                    *)
(***************************************************************************)

LEMMA Constants ==
  /\ TTL \in Nat /\ TTL > 0 /\ Holder \in Nat /\ Stale \in Nat /\ Stale > 0
  /\ Wait \in Nat /\ Retries \in Nat /\ Retries > 0 /\ MaxDelay \in Nat /\ MaxDelay < TTL
  /\ {0, Wait, Holder, MaxDelay} \subseteq Times
  BY PlaybackDedupAssumption DEF Times

LEMMA AtGood ==
  ASSUME NEW l \in PCs \ {"bypass", "reclaim"}
  PROVE  GoodReq(At(l)) /\ At(l).pc = l
  BY Constants DEF GoodReq, At, Req

LEMMA ForGood ==
  ASSUME NEW l \in PCs \ {"bypass", "reclaim"}, NEW n \in Times
  PROVE  /\ GoodReq([At(l) EXCEPT !.left = n])
         /\ [At(l) EXCEPT !.left = n].pc = l /\ [At(l) EXCEPT !.left = n].left = n
  BY Constants DEF GoodReq, At, Req

LEMMA BypassGood ==
  ASSUME NEW l \in {"prepare", "acquire"}
  PROVE  /\ GoodReq([At("bypass") EXCEPT !.ret = l])
         /\ [At("bypass") EXCEPT !.ret = l].pc = "bypass"
  BY Constants DEF GoodReq, At, Req, PCs, Unguarded

(* The record that Reclaim writes.                                         *)
LEMMA ReclaimGood ==
  ASSUME NEW stale \in BOOLEAN, NEW l \in Resumes, NEW n \in 0..Retries,
         l = "acquire" => n < Retries
  PROVE  LET x == [pc |-> IF stale THEN "reclaim" ELSE l, ret |-> l,
                   left |-> IF stale THEN MaxDelay ELSE 0, tries |-> n]
         IN  GoodReq(x) /\ x.pc = (IF stale THEN "reclaim" ELSE l)
  BY Constants DEF GoodReq, Req, PCs, Deleting, Unguarded, Ended, Resumes

(***************************************************************************)
(* The steps of a request                                                  *)
(***************************************************************************)

Moved(r, x) == req' = [req EXCEPT ![r] = x]

(* A step that has nothing to do with the lock or its guard.               *)
Outside(r, x) ==
    /\ lock' = lock /\ (cache' => cache)
    /\ x.pc \notin Guarded \cup Releasing
    /\ x.pc = "reclaim" => StaleLock

(* A step under the guard; whoever goes on to resolve or to store did not  *)
(* find the URL in the cache.                                              *)
Inside(r, x) ==
    /\ lock' = lock /\ req[r].pc \in Guarded /\ x.pc \in Guarded
    /\ x.pc \in {"resolving", "store"} => ~cache' \/ (cache' = cache /\ req[r].pc = "resolving")
    /\ (cache' => cache) \/ req[r].pc = "store"

(* The guard ends and a DEL is sent.                                       *)
Ends(r, x) ==
    /\ lock' = lock /\ cache' = cache
    /\ req[r].pc \in Guarded /\ x.pc \in Releasing /\ x.left = MaxDelay

Takes(r, x) ==
    /\ ~LockHeld /\ lock' = Taken(r) /\ cache' = cache /\ x.pc \in {"check", "gone"}

Deletes(r, x) ==
    /\ req[r].pc \in Releasing /\ lock' = Free /\ cache' = cache /\ x.pc \in Ended

Reclaims(r) == req[r].pc = "reclaim" /\ lock' = Free /\ cache' = cache

Kinds(r, x) ==
    \/ Outside(r, x) \/ Inside(r, x) \/ Ends(r, x) \/ Takes(r, x) \/ Deletes(r, x)
    \/ Reclaims(r)

Acts(r) == Step(r) \/ ResolveOk(r) \/ ResolveErr(r) \/ Fault(r)

(* UseCache is a step outside of the lock.                                 *)
LEMMA UseCacheKind ==
  ASSUME NEW r \in Requests, NEW l \in {"prepare", "acquire"}, UseCache(r, l)
  PROVE  \E x : Moved(r, x) /\ GoodReq(x) /\ Outside(r, x) /\ UNCHANGED <<aged, stub>>
  <1>1. UNCHANGED <<lock, cache, stub, aged>>
    BY DEF UseCache
  <1>2. CASE NeedsRefresh
    <2> DEFINE x == [At("bypass") EXCEPT !.ret = l]
    <2>1. Moved(r, x)
      BY <1>2 DEF UseCache, Moved
    <2>2. GoodReq(x) /\ x.pc = "bypass"
      BY BypassGood
    <2> HIDE DEF x
    <2> QED
      BY <1>1, <2>1, <2>2 DEF Outside, Guarded, Releasing
  <1>3. CASE ~NeedsRefresh
    <2>1. Moved(r, At("done"))
      BY <1>3 DEF UseCache, Moved
    <2>2. GoodReq(At("done")) /\ At("done").pc = "done"
      BY AtGood DEF PCs, Ended
    <2> QED
      BY <1>1, <2>1, <2>2 DEF Outside, Guarded, Releasing
  <1> QED
    BY <1>2, <1>3

(* So is a look at the lock that may lead to a reclaim.                    *)
LEMMA ReclaimKind ==
  ASSUME NEW r \in Requests, NEW l \in Resumes,
         NEW n \in 0..Retries, l = "acquire" => n < Retries,
         ReclaimStaleLock(r, l, n), UNCHANGED <<lock, cache, aged>>
  PROVE  \E x : Moved(r, x) /\ GoodReq(x) /\ Outside(r, x)
  <1> DEFINE stale == ~cache /\ StaleLock
             x == [pc |-> IF stale THEN "reclaim" ELSE l, ret |-> l,
                   left |-> IF stale THEN MaxDelay ELSE 0, tries |-> n]
  <1>1. Moved(r, x)
    BY DEF ReclaimStaleLock, Reclaim, Moved
  <1>2. /\ stale \in BOOLEAN /\ l \notin Guarded \cup Releasing
        /\ l # "reclaim" /\ "reclaim" \notin Guarded \cup Releasing
    BY DEF Resumes, Guarded, Releasing
  <1>3. stale => StaleLock
    OBVIOUS
  <1> HIDE DEF stale
  <1>4. GoodReq(x) /\ x.pc = (IF stale THEN "reclaim" ELSE l)
    BY <1>2, ReclaimGood
  <1> HIDE DEF x
  <1> QED
    BY <1>1, <1>2, <1>3, <1>4 DEF Outside

(* Moving on outside of the lock.                                          *)
LEMMA GotoKind ==
  ASSUME NEW r \in Requests, NEW l \in PCs \ {"bypass", "reclaim"},
         l \notin Guarded \cup Releasing, Goto(r, l), lock' = lock, cache' => cache
  PROVE  \E x : Moved(r, x) /\ GoodReq(x) /\ Outside(r, x)
  <1>1. Moved(r, At(l)) /\ GoodReq(At(l)) /\ At(l).pc = l
    BY AtGood DEF Moved, Goto
  <1> QED
    BY <1>1 DEF Outside

LEMMA ActKinds ==
  ASSUME TypeInv, NEW r \in Requests, Acts(r)
  PROVE  /\ \E x : Moved(r, x) /\ GoodReq(x) /\ Kinds(r, x)
         /\ aged' = aged /\ cache' \in BOOLEAN /\ stub' \in Stubs
  <1>0. /\ cache \in BOOLEAN /\ stub \in Stubs /\ GoodReq(req[r])
        /\ req[r].tries \in 0..Retries /\ req[r].ret \in PCs
    BY DEF TypeInv, TypeOK, GoodReq, Req
  <1>p. /\ {"done", "failed", "gone", "check", "purge", "resolving", "store", "finish",
            "reclaim", "release", "dropping", "start", "prepare", "held", "wait",
            "after", "recheck", "again", "last", "acquire"} \subseteq PCs
        /\ Releasing = {"release", "dropping"}
        /\ Guarded = {"check", "purge", "resolving", "store", "finish"}
    BY DEF PCs, Ended, Guarded, Deleting, Unguarded, Releasing
  <1>s. aged' = aged /\ cache' \in BOOLEAN /\ stub' \in Stubs
    BY <1>0 DEF Acts, Step, FirstLook, Prepare, Bypass, CheckHeld, WaitForCachedUrl, AfterWait,
       LookAfterReclaim, TryReadyAfterWait, ReclaimDel, AcquireResolveLock, CheckCache,
       Purge, ResolveTimeout, SetPlaybackCache, Release, ReleaseLock, ResolveOk, ResolveErr,
       Fault, AcquireDropped, Drop, Crash, UseCache, LookAgain, AfterReclaim, Stubs,
       NeedsRefresh
  <1> DEFINE Goal == \E x : Moved(r, x) /\ GoodReq(x) /\ Kinds(r, x)
             Out == \E x : Moved(r, x) /\ GoodReq(x) /\ Outside(r, x)
  <1>o. Out => Goal
    BY DEF Kinds
  <1>u. ASSUME NEW l \in {"prepare", "acquire"}, UseCache(r, l) PROVE Out
    BY <1>u, UseCacheKind
  <1>g. ASSUME NEW l \in PCs \ {"bypass", "reclaim"}, l \notin Guarded \cup Releasing,
               Goto(r, l), lock' = lock, cache' => cache
        PROVE  Out
    BY <1>g, GotoKind
  <1>r. ASSUME NEW l \in Resumes, NEW n \in 0..Retries, l = "acquire" => n < Retries,
               ReclaimStaleLock(r, l, n), UNCHANGED <<lock, cache, aged>>
        PROVE  Out
    BY <1>r, ReclaimKind
  <1>k. ASSUME NEW x, Moved(r, x), GoodReq(x), Kinds(r, x) PROVE Goal
    BY <1>k
  <1> SUFFICES Goal
    BY <1>s
  <1> HIDE DEF Goal, Out
  <1>1. CASE FirstLook(r)
    <2>1. CASE ~cache /\ Goto(r, "prepare") /\ UNCHANGED <<lock, cache, stub, aged>>
      BY <1>p, <1>o, <2>1, <1>g
    <2> QED
      BY <1>1, <1>o, <1>u, <2>1 DEF FirstLook
  <1>2. CASE Prepare(r)
    <2>1. CASE ReclaimStaleLock(r, "held", 0) /\ UNCHANGED <<lock, cache, stub, aged>>
      BY <1>o, <2>1, <1>r, Constants DEF Resumes
    <2> QED
      BY <1>2, <1>o, <1>u, <2>1 DEF Prepare
  <1>3. CASE Bypass(r)
    <2>1. /\ Goto(r, req[r].ret) /\ lock' = lock /\ ~cache'
          /\ req[r].ret \in {"prepare", "acquire"}
      BY <1>0, <1>3 DEF Bypass, GoodReq
    <2> QED
      BY <1>p, <1>o, <2>1, <1>g
  <1>4. CASE CheckHeld(r)
    <2>1. CASE LockHeld
      <3> DEFINE x == [At("wait") EXCEPT !.left = Wait]
      <3>1. Moved(r, x) /\ lock' = lock /\ cache' = cache
        BY <1>4, <2>1 DEF CheckHeld, GotoFor, Moved
      <3>2. GoodReq(x) /\ x.pc = "wait"
        BY <1>p, ForGood, Constants
      <3> HIDE DEF x
      <3> QED
        BY <1>p, <1>k, <3>1, <3>2 DEF Outside, Kinds
    <2>2. CASE ~LockHeld
      BY <1>p, <1>o, <1>4, <2>2, <1>g DEF CheckHeld
    <2> QED
      BY <2>1, <2>2
  <1>5. CASE WaitForCachedUrl(r)
    <2>1. CASE Goto(r, "after") /\ UNCHANGED <<lock, cache, stub, aged>>
      BY <1>p, <1>o, <2>1, <1>g
    <2> QED
      BY <1>5, <1>o, <1>u, <2>1 DEF WaitForCachedUrl
  <1>6. ASSUME NEW y \in {"again", "failed"}, NEW z \in {"recheck", "last"},
               LookAgain(r, y, z)
        PROVE  Goal
    <2>1. CASE \/ Goto(r, "acquire") /\ UNCHANGED <<lock, cache, stub, aged>>
               \/ Goto(r, y) /\ UNCHANGED <<lock, cache, stub, aged>>
      BY <1>p, <1>o, <2>1, <1>g
    <2>2. CASE ReclaimStaleLock(r, z, 0) /\ UNCHANGED <<lock, cache, stub, aged>>
      BY <1>o, <2>2, <1>r, Constants DEF Resumes
    <2> QED
      BY <1>6, <1>o, <1>u, <2>1, <2>2 DEF LookAgain
  <1>7. CASE AfterWait(r) \/ TryReadyAfterWait(r)
    BY <1>6, <1>7 DEF AfterWait, TryReadyAfterWait
  <1>8. CASE LookAfterReclaim(r)
    BY <1>p, <1>o, <1>8, <1>g DEF LookAfterReclaim, AfterReclaim
  <1>9. CASE ReclaimDel(r)
    <2> DEFINE x == [pc |-> req[r].ret, ret |-> req[r].ret, left |-> 0,
                     tries |-> req[r].tries]
    <2>1. Moved(r, x) /\ Reclaims(r)
      BY <1>9 DEF ReclaimDel, Reclaim, Moved, Reclaims
    <2>2. x \in Req /\ req[r].ret \in Resumes
      BY <1>0, <1>9, Constants DEF Req, GoodReq, ReclaimDel
    <2>3. GoodReq(x)
      BY <1>0, <1>9, <2>2 DEF GoodReq, ReclaimDel, Resumes
    <2> QED
      BY <1>k, <2>1, <2>3 DEF Kinds
  <1>10. CASE AcquireResolveLock(r)
    <2>1. CASE ~LockHeld /\ lock' = Taken(r) /\ Goto(r, "check") /\ cache' = cache
      <3>1. Moved(r, At("check")) /\ GoodReq(At("check")) /\ At("check").pc = "check"
        BY <1>p, <2>1, AtGood DEF Moved, Goto
      <3> QED
        BY <1>k, <2>1, <3>1 DEF Kinds, Takes
    <2>2. CASE LockHeld
      <3> DEFINE n == req[r].tries + 1
                 l == IF n < Retries THEN "acquire" ELSE "failed"
      <3>1. /\ ReclaimStaleLock(r, l, n) /\ UNCHANGED <<lock, cache, aged>>
            /\ req[r].pc = "acquire"
        BY <1>10, <2>2 DEF AcquireResolveLock
      <3>2. n \in 0..Retries /\ l \in Resumes /\ (l = "acquire" => n < Retries)
        BY <1>0, <3>1, Constants DEF GoodReq, Resumes
      <3> HIDE DEF n, l
      <3> QED
        BY <1>o, <1>r, <3>1, <3>2
    <2> QED
      BY <1>10, <2>1, <2>2 DEF AcquireResolveLock
  <1>11. CASE AcquireDropped(r)
    <2>1. Moved(r, At("gone")) /\ GoodReq(At("gone")) /\ At("gone").pc = "gone"
      BY <1>p, <1>11, AtGood DEF Moved, Goto, AcquireDropped
    <2> QED
      BY <1>k, <1>11, <2>1 DEF Kinds, Takes, AcquireDropped
  <1>12. ASSUME NEW l \in {"resolving", "release", "dropping"},
                NEW n \in {Holder, MaxDelay}, GotoFor(r, l, n)
         PROVE  \E x : Moved(r, x) /\ GoodReq(x) /\ x.pc = l /\ x.left = n
    <2> DEFINE x == [At(l) EXCEPT !.left = n]
    <2>1. Moved(r, x) /\ GoodReq(x) /\ x.pc = l /\ x.left = n
      BY <1>p, <1>12, ForGood, Constants DEF GotoFor, Moved
    <2> QED
      BY <2>1
  <1>13. ASSUME NEW l \in {"finish", "purge", "store"}, Goto(r, l)
         PROVE  \E x : Moved(r, x) /\ GoodReq(x) /\ x.pc = l
    BY <1>p, <1>13, AtGood DEF Moved, Goto
  <1>14. CASE CheckCache(r)
    <2>1. CASE Goto(r, "finish") \/ Goto(r, "purge")
      <3>1. PICK x : Moved(r, x) /\ GoodReq(x) /\ x.pc \in {"finish", "purge"}
        BY <1>13, <2>1
      <3> QED
        BY <1>p, <1>k, <1>14, <3>1 DEF CheckCache, Kinds, Inside
    <2>2. CASE ~cache /\ GotoFor(r, "resolving", Holder)
      <3>1. PICK x : Moved(r, x) /\ GoodReq(x) /\ x.pc = "resolving"
        BY <1>12, <2>2
      <3> QED
        BY <1>p, <1>k, <1>14, <2>2, <3>1 DEF CheckCache, Kinds, Inside
    <2> QED
      BY <1>14, <2>1, <2>2 DEF CheckCache
  <1>15. CASE Purge(r)
    <2>1. PICK x : Moved(r, x) /\ GoodReq(x) /\ x.pc = "resolving"
      BY <1>12, <1>15 DEF Purge
    <2> QED
      BY <1>p, <1>k, <1>15, <2>1 DEF Purge, Kinds, Inside
  <1>16. CASE ResolveOk(r)
    <2>1. PICK x : Moved(r, x) /\ GoodReq(x) /\ x.pc = "store"
      BY <1>13, <1>16 DEF ResolveOk
    <2> QED
      BY <1>p, <1>k, <1>16, <2>1 DEF ResolveOk, Kinds, Inside
  <1>17. CASE ResolveErr(r) \/ ResolveTimeout(r) \/ SetPlaybackCache(r)
    <2>1. PICK x : Moved(r, x) /\ GoodReq(x) /\ x.pc = "finish"
      BY <1>13, <1>17 DEF ResolveErr, ResolveTimeout, SetPlaybackCache
    <2> QED
      BY <1>p, <1>k, <1>17, <2>1
         DEF ResolveErr, ResolveTimeout, SetPlaybackCache, Kinds, Inside
  <1>18. CASE Release(r)
    <2>1. PICK x : Moved(r, x) /\ GoodReq(x) /\ x.pc = "release" /\ x.left = MaxDelay
      BY <1>12, <1>18 DEF Release
    <2> QED
      BY <1>p, <1>k, <1>18, <2>1 DEF Release, Kinds, Ends
  <1>19. CASE ReleaseLock(r)
    <2>1. PICK l \in {"done", "gone"} : Goto(r, l)
      BY <1>19 DEF ReleaseLock
    <2>2. Moved(r, At(l)) /\ GoodReq(At(l)) /\ At(l).pc = l
      BY <1>p, <2>1, AtGood DEF Moved, Goto
    <2> QED
      BY <1>k, <1>19, <2>2 DEF ReleaseLock, Kinds, Deletes, Releasing, Ended
  <1>20. CASE Drop(r)
    <2>1. CASE req[r].pc \in Guarded
      <3>1. PICK x : Moved(r, x) /\ GoodReq(x) /\ x.pc = "dropping" /\ x.left = MaxDelay
        BY <1>12, <1>20, <2>1 DEF Drop
      <3> QED
        BY <1>p, <1>k, <1>20, <2>1, <3>1 DEF Drop, Kinds, Ends
    <2>2. CASE req[r].pc \notin Guarded
      BY <1>p, <1>o, <1>20, <2>2, <1>g DEF Drop
    <2> QED
      BY <2>1, <2>2
  <1>21. CASE Crash(r)
    BY <1>p, <1>o, <1>21, <1>g DEF Crash
  <1> QED
    BY <1>1, <1>2, <1>3, <1>4, <1>5, <1>7, <1>8, <1>9, <1>10, <1>11, <1>14, <1>15, <1>16,
       <1>17, <1>18, <1>19, <1>20, <1>21 DEF Acts, Step, Fault

(***************************************************************************)
(* Type correctness                                                        *)
(***************************************************************************)

LEMMA MovedOne ==
  ASSUME TypeOK, NEW r \in Requests, NEW x, Moved(r, x)
  PROVE  req'[r] = x /\ \A s \in Requests \ {r} : req'[s] = req[s]
  BY DEF TypeOK, Moved

LEMMA NextLockType ==
  ASSUME TypeOK
  PROVE  NextLock \in [owner : Requests \cup {NoOne, Earlier}, age : 0..Stale, ttl : 0..TTL]
  <1> DEFINE LockType == [owner : Requests \cup {NoOne, Earlier}, age : 0..Stale, ttl : 0..TTL]
             guarded == \E r \in Requests : req[r].pc \in Guarded
  <1>1. lock \in LockType
    BY DEF TypeOK
  <1>2. Free \in LockType /\ Free.age = 0
    BY Constants DEF Free
  <1>3. ASSUME NEW g \in BOOLEAN
        PROVE  [lock EXCEPT !.age = IF @ < Stale THEN @ + 1 ELSE @,
                            !.ttl = IF g THEN TTL ELSE IF @ = 0 THEN 0 ELSE @ - 1] \in LockType
    <2> DEFINE a == IF lock.age < Stale THEN lock.age + 1 ELSE lock.age
               t == IF g THEN TTL ELSE IF lock.ttl = 0 THEN 0 ELSE lock.ttl - 1
    <2>1. a \in 0..Stale /\ t \in 0..TTL
      BY <1>1, Constants
    <2> HIDE DEF a, t
    <2>2. [lock EXCEPT !.age = a, !.ttl = t] \in LockType
      BY <1>1, <2>1
    <2> QED
      BY <2>2 DEF a, t
  <1>4. guarded \in BOOLEAN
    OBVIOUS
  <1>5. NextLock = Free \/ NextLock =
           [lock EXCEPT !.age = IF @ < Stale THEN @ + 1 ELSE @,
                        !.ttl = IF guarded THEN TTL ELSE IF @ = 0 THEN 0 ELSE @ - 1]
    BY DEF NextLock
  <1> HIDE DEF guarded
  <1> QED
    BY <1>2, <1>3, <1>4, <1>5

LEMMA TickReq ==
  ASSUME TypeInv, Tick, NEW r \in Requests
  PROVE  /\ GoodReq(req'[r]) /\ req'[r].pc = req[r].pc
         /\ req[r].pc \in Timed => req[r].left > 0 /\ req'[r].left = req[r].left - 1
  <1>1. req[r] \in Req /\ GoodReq(req[r]) /\ (req[r].pc \in Timed => req[r].left # 0)
    BY DEF TypeInv, GoodReq, Tick, Overdue
  <1> DEFINE n == IF req[r].pc \in Timed THEN req[r].left - 1 ELSE req[r].left
  <1>2. req'[r] = [req[r] EXCEPT !.left = n]
    BY DEF Tick
  <1>3. n \in Times /\ (req[r].pc \in Timed => req[r].left > 0 /\ n = req[r].left - 1)
    BY <1>1, Constants DEF Req, Times
  <1> HIDE DEF n
  <1>4. /\ req'[r] \in Req /\ req'[r].pc = req[r].pc /\ req'[r].ret = req[r].ret
        /\ req'[r].tries = req[r].tries /\ req'[r].left = n
    BY <1>1, <1>2, <1>3 DEF Req
  <1> QED
    BY <1>1, <1>3, <1>4 DEF GoodReq

LEMMA TypeStep == TypeInv /\ [Next]_vars => TypeInv'
  <1> SUFFICES ASSUME TypeInv, [Next]_vars PROVE TypeInv'
    OBVIOUS
  <1>0. TypeOK /\ req \in [Requests -> Req]
    BY DEF TypeInv, TypeOK, Req
  <1>1. ASSUME NEW r \in Requests, Acts(r) PROVE TypeInv'
    <2>1. PICK x : Moved(r, x) /\ GoodReq(x) /\ Kinds(r, x)
      BY <1>1, ActKinds
    <2>2. req'[r] = x /\ \A s \in Requests \ {r} : req'[s] = req[s]
      BY <1>0, <2>1, MovedOne
    <2>3. req' \in [Requests -> Req]
      BY <1>0, <2>1 DEF Moved, GoodReq
    <2>4. Free \in [owner : Requests \cup {NoOne, Earlier}, age : 0..Stale, ttl : 0..TTL]
      BY Constants DEF Free
    <2>5. Taken(r) \in [owner : Requests \cup {NoOne, Earlier}, age : 0..Stale, ttl : 0..TTL]
      BY Constants DEF Taken
    <2>6. lock' \in {lock, Free, Taken(r)}
      BY <2>1 DEF Kinds, Outside, Inside, Ends, Takes, Deletes, Reclaims
    <2>7. lock' \in [owner : Requests \cup {NoOne, Earlier}, age : 0..Stale, ttl : 0..TTL]
      BY <2>4, <2>5, <2>6 DEF TypeInv, TypeOK
    <2>8. aged' = aged /\ cache' \in BOOLEAN /\ stub' \in Stubs
      BY <1>1, ActKinds
    <2>9. TypeOK'
      BY <2>3, <2>7, <2>8 DEF TypeInv, TypeOK, Req
    <2> QED
      BY <2>1, <2>2, <2>9 DEF TypeInv
  <1>2. CASE UpdateMetadata
    BY <1>2 DEF TypeInv, TypeOK, UpdateMetadata, Stubs
  <1>3. CASE Tick
    <2>1. req' \in [Requests -> Req] /\ \A r \in Requests : GoodReq(req'[r])
      <3>1. req' = [r \in Requests |-> req'[r]]
        BY <1>3 DEF Tick
      <3>2. \A r \in Requests : GoodReq(req'[r]) /\ req'[r] \in Req
        BY <1>3, TickReq DEF GoodReq
      <3> QED
        BY <3>1, <3>2
    <2>2. lock' \in [owner : Requests \cup {NoOne, Earlier}, age : 0..Stale, ttl : 0..TTL]
      BY <1>0, <1>3, NextLockType DEF Tick
    <2>3. aged' \in BOOLEAN /\ UNCHANGED <<cache, stub>>
      BY <1>0, <1>3 DEF Tick, TypeOK
    <2>4. TypeOK'
      BY <1>0, <2>1, <2>2, <2>3 DEF TypeOK, Req
    <2> QED
      BY <2>1, <2>4 DEF TypeInv
  <1>4. CASE UNCHANGED vars
    BY <1>4 DEF TypeInv, TypeOK, vars
  <1> QED
    BY <1>1, <1>2, <1>3, <1>4 DEF Next, Acts

(* The lock is free or an earlier request has left it, not yet stale.      *)
LEMMA InitialLock ==
  ASSUME Init
  PROVE  /\ lock \in [owner : Requests \cup {NoOne, Earlier}, age : 0..Stale, ttl : 0..TTL]
         /\ lock.age \in Nat /\ lock.age < Stale
         /\ LockHeld => lock.ttl > 0
  <1>1. /\ 0 \in 0..Stale /\ 0 \in 0..TTL
        /\ 0..(Stale - 1) \subseteq 0..Stale /\ 1..TTL \subseteq 0..TTL
    BY Constants
  <1>2. CASE lock = Free
    BY <1>1, <1>2, Constants DEF Free, LockHeld
  <1>3. CASE lock \in [owner : {Earlier}, age : 0..(Stale - 1), ttl : 1..TTL]
    <2>1. lock \in [owner : Requests \cup {NoOne, Earlier}, age : 0..Stale, ttl : 0..TTL]
      BY <1>1, <1>3
    <2>2. lock.age \in 0..(Stale - 1) /\ lock.ttl \in 1..TTL
      BY <1>3
    <2> QED
      BY <2>1, <2>2, Constants
  <1> QED
    BY <1>2, <1>3 DEF Init

LEMMA TypeInvariant == Spec => []TypeInv
  <1>1. ASSUME Init PROVE TypeInv
    <2>1. GoodReq(At("start")) /\ At("start") \in Req
      BY AtGood DEF PCs, Unguarded, GoodReq
    <2>2. lock \in [owner : Requests \cup {NoOne, Earlier}, age : 0..Stale, ttl : 0..TTL]
      BY <1>1, InitialLock
    <2>3. req \in [Requests -> Req] /\ \A r \in Requests : GoodReq(req[r])
      BY <1>1, <2>1 DEF Init
    <2> QED
      BY <1>1, <2>2, <2>3 DEF Init, TypeInv, TypeOK, Req, Stubs
  <1> QED
    BY <1>1, TypeStep, PTL DEF Spec

(* Every reachable state is well typed: no wait, budget or delay runs      *)
(* below zero and acquire_resolve_lock makes at most Retries attempts.     *)
THEOREM TypeCorrect == Spec => []TypeOK
  <1>1. TypeInv => TypeOK
    BY DEF TypeInv
  <1> QED
    BY <1>1, TypeInvariant, PTL

(***************************************************************************)
(* The lock                                                                *)
(***************************************************************************)

LEMMA LockActStep ==
  ASSUME TypeInv, LockInv, NEW r \in Requests, Acts(r)
  PROVE  LockInv'
  <1>0. TypeOK /\ NoOne \notin Requests
    BY PlaybackDedupAssumption DEF TypeInv
  <1>1. PICK x : Moved(r, x) /\ GoodReq(x) /\ Kinds(r, x)
    BY ActKinds
  <1>2. req'[r] = x /\ \A s \in Requests \ {r} : req'[s] = req[s]
    BY <1>0, <1>1, MovedOne
  <1>3. aged' = aged
    BY ActKinds
  <1>f. Free.age = 0 /\ Free.owner = NoOne /\ Taken(r).age = 0 /\ Taken(r).owner = r
        /\ Taken(r).ttl = TTL
    BY DEF Free, Taken
  <1>d. "check" \in Guarded /\ Guarded \cap Releasing = {} /\ Ended \cap Guarded = {}
        /\ Ended \cap Releasing = {} /\ "gone" \in Ended
        /\ "reclaim" \notin Guarded \cup Releasing \cup Ended
    BY DEF Guarded, Releasing, Ended
  <1>4. AgedInv'
    <2>1. lock'.age = Stale => aged
      BY <1>1, <1>f, Constants
         DEF Kinds, Outside, Inside, Ends, Takes, Deletes, Reclaims, LockInv, AgedInv
    <2>2. x.pc = "reclaim" => aged
      <3>1. CASE Outside(r, x)
        <4>1. StaleLock => aged
          <5>1. lock.age \in Nat /\ lock.age <= Stale
            BY <1>0, Constants DEF TypeOK
          <5> QED
            BY <5>1, Constants DEF StaleLock, LockInv, AgedInv
        <4> QED
          BY <3>1, <4>1 DEF Outside
      <3>2. CASE Reclaims(r)
        BY <3>2 DEF Reclaims, LockInv, AgedInv
      <3>3. CASE Inside(r, x) \/ Ends(r, x) \/ Takes(r, x) \/ Deletes(r, x)
        BY <1>d, <3>3 DEF Inside, Ends, Takes, Deletes
      <3> QED
        BY <1>1, <3>1, <3>2, <3>3 DEF Kinds
    <2> QED
      BY <1>2, <1>3, <2>1, <2>2 DEF LockInv, AgedInv
  <1>5. ASSUME ~aged, NEW s \in Requests PROVE Keeps(s)'
    <2>0. Keeps(r) /\ Keeps(s)
      BY <1>5 DEF LockInv
    <2>1. CASE Outside(r, x)
      BY <1>2, <2>0, <2>1 DEF Outside, Keeps
    <2>2. CASE Inside(r, x)
      BY <1>2, <1>d, <2>0, <2>2 DEF Inside, Keeps
    <2>3. CASE Ends(r, x)
      BY <1>2, <1>d, <2>0, <2>3, Constants DEF Ends, Keeps
    <2>4. CASE Takes(r, x)
      BY <1>0, <1>2, <1>d, <1>f, <2>0, <2>4 DEF Takes, Keeps, LockHeld
    <2>5. CASE Deletes(r, x)
      BY <1>0, <1>2, <1>d, <2>0, <2>5 DEF Deletes, Keeps
    <2>6. CASE Reclaims(r)
      BY <1>5, <2>6 DEF Reclaims, LockInv, AgedInv
    <2> QED
      BY <1>1, <2>1, <2>2, <2>3, <2>4, <2>5, <2>6 DEF Kinds
  <1> QED
    BY <1>3, <1>4, <1>5 DEF LockInv

LEMMA LockTickStep ==
  ASSUME TypeInv, LockInv, Tick
  PROVE  LockInv'
  <1>0. /\ TypeOK /\ NoOne \notin Requests
        /\ lock \in [owner : Requests \cup {NoOne, Earlier}, age : 0..Stale, ttl : 0..TTL]
    BY PlaybackDedupAssumption DEF TypeInv, TypeOK
  <1>1. AgedInv'
    BY TickReq DEF Tick, LockInv, AgedInv
  <1>2. ASSUME ~aged', NEW s \in Requests PROVE Keeps(s)'
    <2> DEFINE guarded == \E r \in Requests : req[r].pc \in Guarded
               t == IF guarded THEN TTL ELSE IF lock.ttl = 0 THEN 0 ELSE lock.ttl - 1
    <2>0. ~aged /\ Keeps(s) /\ req'[s].pc = req[s].pc
      BY <1>2, TickReq DEF Tick, LockInv
    <2>1. ASSUME LockHeld, ~(lock.ttl = 1 /\ ~guarded)
          PROVE  lock'.owner = lock.owner /\ lock'.ttl = t
      <3> DEFINE a == IF lock.age < Stale THEN lock.age + 1 ELSE lock.age
      <3>1. lock' = [lock EXCEPT !.age = a, !.ttl = t]
        BY <2>1 DEF Tick, NextLock
      <3> HIDE DEF a, t
      <3> QED
        BY <1>0, <3>1
    <2>2. CASE req[s].pc \in Guarded
      <3>1. guarded /\ lock.owner = s /\ LockHeld /\ req[s].pc \notin Releasing
        BY <1>0, <2>0, <2>2 DEF Keeps, LockHeld, Guarded, Releasing
      <3>2. lock'.owner = s /\ lock'.ttl = TTL
        BY <2>1, <3>1
      <3> QED
        BY <2>0, <3>1, <3>2 DEF Keeps
    <2>3. CASE req[s].pc \in Releasing
      <3>1. /\ lock.owner = s /\ lock.ttl > req[s].left /\ LockHeld
            /\ req[s].pc \notin Guarded /\ req[s].pc \in Timed
        BY <1>0, <2>0, <2>3 DEF Keeps, LockHeld, Guarded, Releasing, Timed, Deleting
      <3>2. req[s].left > 0 /\ req'[s].left = req[s].left - 1
        BY <3>1, TickReq
      <3>3. req[s].left \in Nat /\ lock.ttl \in Nat /\ lock.ttl <= TTL
        BY <1>0, Constants DEF TypeOK, Times
      <3>4. lock'.owner = s /\ lock'.ttl = t
        BY <2>1, <3>1, <3>2, <3>3
      <3>5. t > req'[s].left
        BY <3>1, <3>2, <3>3, Constants
      <3> QED
        BY <2>0, <3>1, <3>4, <3>5 DEF Keeps
    <2> QED
      BY <2>0, <2>2, <2>3 DEF Keeps
  <1> QED
    BY <1>1, <1>2 DEF LockInv

LEMMA LockStep == TypeInv /\ LockInv /\ [Next]_vars => LockInv'
  <1> SUFFICES ASSUME TypeInv, LockInv, [Next]_vars PROVE LockInv'
    OBVIOUS
  <1>1. CASE UNCHANGED <<lock, req, aged>>
    BY <1>1 DEF LockInv, AgedInv, Keeps
  <1>2. \/ UNCHANGED <<lock, req, aged>> \/ Tick
        \/ \E r \in Requests : Acts(r)
    BY DEF Next, Acts, UpdateMetadata, vars
  <1> QED
    BY <1>1, <1>2, LockActStep, LockTickStep

(* A lock reaches the stale age before anyone reclaims one; until then the *)
(* lock of a live guard has its full TTL, and the TTL of a lock that is    *)
(* being deleted outlasts the DEL.                                         *)
THEOREM LockInvariant == Spec => [](TypeInv /\ LockInv)
  <1>1. ASSUME Init PROVE LockInv
    <2>1. lock.age < Stale /\ \A r \in Requests : req[r].pc = "start"
      BY <1>1, InitialLock DEF Init, At
    <2> QED
      BY <2>1, <1>1, InitialLock, Constants DEF LockInv, AgedInv, Keeps, Guarded, Releasing
  <1> QED
    BY <1>1, TypeInvariant, LockStep, PTL DEF Spec

LEMMA LockInvKeeps == LockInv => HolderOwnsLock
  BY DEF LockInv, Keeps, HolderOwnsLock, Releasing

(* Before the first stale lock, a guard or an unfenced DEL on its way      *)
(* belongs to the owner of the lock, whatever the number of requests.      *)
THEOREM HolderKeepsLock == Spec => []HolderOwnsLock
  BY LockInvariant, LockInvKeeps, PTL

LEMMA RedundantStep ==
  TypeInv /\ LockInv /\ NoRedundantResolve /\ [Next]_vars => NoRedundantResolve'
  <1> SUFFICES ASSUME TypeInv, LockInv, NoRedundantResolve, [Next]_vars,
                      ~aged', NEW s \in Requests, req'[s].pc \in {"resolving", "store"}
               PROVE  ~cache'
    BY DEF NoRedundantResolve
  <1>0. TypeOK /\ HolderOwnsLock
    BY LockInvKeeps DEF TypeInv
  <1>g. {"resolving", "store"} \subseteq Guarded
    BY DEF Guarded
  <1>1. ASSUME NEW r \in Requests, Acts(r) PROVE ~cache'
    <2>1. PICK x : Moved(r, x) /\ GoodReq(x) /\ Kinds(r, x)
      BY <1>1, ActKinds
    <2>2. req'[r] = x /\ \A q \in Requests \ {r} : req'[q] = req[q]
      BY <1>0, <2>1, MovedOne
    <2>3. ~aged /\ ~Reclaims(r)
      BY <1>1, ActKinds DEF LockInv, AgedInv, Reclaims
    <2>4. CASE s = r
      <3>1. x.pc \in {"resolving", "store"}
        BY <2>2, <2>4
      <3>2. Inside(r, x)
        BY <2>1, <2>3, <3>1
           DEF Kinds, Outside, Ends, Takes, Deletes, Guarded, Releasing, Ended
      <3> QED
        BY <2>3, <3>1, <3>2 DEF Inside, NoRedundantResolve
    <2>5. CASE s # r
      <3>1. ~cache /\ lock.owner = s
        BY <1>0, <1>g, <2>2, <2>3, <2>5 DEF NoRedundantResolve, HolderOwnsLock
      <3>2. ~Inside(r, x)
        BY <1>0, <2>3, <2>5, <3>1 DEF Inside, HolderOwnsLock
      <3> QED
        BY <2>1, <2>3, <3>1, <3>2 DEF Kinds, Outside, Ends, Takes, Deletes
    <2> QED
      BY <2>4, <2>5
  <1>2. CASE Tick
    BY <1>2, TickReq DEF Tick, NoRedundantResolve
  <1>3. CASE UNCHANGED <<cache, req, aged>>
    BY <1>3 DEF NoRedundantResolve
  <1>4. \/ UNCHANGED <<cache, req, aged>> \/ Tick
        \/ \E r \in Requests : Acts(r)
    BY DEF Next, Acts, UpdateMetadata, vars
  <1> QED
    BY <1>1, <1>2, <1>3, <1>4

(* Before the first stale lock, nobody resolves at the provider, or is     *)
(* about to store, a URL that already is in the cache.                     *)
THEOREM ResolvesAreNeeded == Spec => []NoRedundantResolve
  <1>1. Init => NoRedundantResolve
    BY DEF Init, NoRedundantResolve
  <1> QED
    BY <1>1, LockInvariant, RedundantStep, PTL DEF Spec

-----------------------------------------------------------------------------
(***************************************************************************)
(* Progress.  Whatever a request does brings it nearer to its end, and     *)
(* uses up the time it may still spend waiting, resolving and deleting.    *)
(***************************************************************************)

(* How far from its end a request is, counted in steps.                    *)
First == 7 + 2 * Retries
Place(pc, tries) ==
    CASE pc = "start" -> First + 12
      [] pc = "prepare" -> First + 10
      [] pc = "held" -> First + 8
      [] pc = "wait" -> First + 7
      [] pc = "after" -> First + 6
      [] pc = "recheck" -> First + 4
      [] pc = "again" -> First + 3
      [] pc = "last" -> First + 1
      [] pc = "acquire" -> First - 2 * tries
      [] pc = "check" -> 6
      [] pc = "purge" -> 5
      [] pc = "resolving" -> 4
      [] pc = "store" -> 3
      [] pc = "finish" -> 2
      [] pc \in Releasing -> 1
      [] OTHER -> 0
Level(x) ==
    CASE x.pc = "bypass" -> Place(x.ret, 0) + 1
      [] x.pc = "reclaim" -> Place(x.ret, x.tries) + 1
      [] OTHER -> Place(x.pc, x.tries)

(* The time it may still spend, besides what is left of the present wait,  *)
(* resolve or DEL: a full wait, a full resolve, and a DEL after every look *)
(* at the lock that may find it stale.                                     *)
Full == Holder + MaxDelay + MaxDelay * Retries
Owed(pc, tries) ==
    CASE pc \in {"start", "prepare"} -> Full + 3 * MaxDelay + Wait
      [] pc = "held" -> Full + 2 * MaxDelay + Wait
      [] pc \in {"wait", "after"} -> Full + 2 * MaxDelay
      [] pc \in {"recheck", "again"} -> Full + MaxDelay
      [] pc = "last" -> Full
      [] pc = "acquire" -> Full - MaxDelay * tries
      [] pc \in {"check", "purge"} -> Holder + MaxDelay
      [] pc \in {"resolving", "store", "finish"} -> MaxDelay
      [] OTHER -> 0
Budget(x) ==
    CASE x.pc = "bypass" -> Owed(x.ret, 0) + x.left
      [] x.pc = "reclaim" -> Owed(x.ret, x.tries) + x.left
      [] OTHER -> Owed(x.pc, x.tries) + x.left

(* The paths of a request.                                                 *)
Advance(x, y) ==
    \/ x.pc \notin Ended /\ y.pc \in Ended /\ y.left = 0
    \/ x.pc \in Guarded /\ y.pc \in Releasing /\ y.left = MaxDelay
    \/ /\ x.pc = "acquire" /\ y.tries = x.tries + 1
       /\ \/ y.pc = "acquire" /\ y.left = 0
          \/ y.pc = "reclaim" /\ y.ret \in {"acquire", "failed"} /\ y.left = MaxDelay
    \/ x.pc = "reclaim" /\ y.pc = x.ret /\ y.tries = x.tries /\ y.left = 0
    \/ x.pc = "bypass" /\ y.pc = x.ret /\ y.tries = 0 /\ y.left = 0
    \/ /\ y.tries = 0 /\ y.pc = "bypass" /\ y.left = 0
       /\ \/ x.pc = "start" /\ y.ret = "prepare"
          \/ x.pc \in {"prepare", "wait", "after", "again"} /\ y.ret = "acquire"
    \/ /\ y.tries = 0 /\ y.pc = "reclaim" /\ y.left = MaxDelay
       /\ \/ x.pc = "prepare" /\ y.ret = "held"
          \/ x.pc = "after" /\ y.ret = "recheck"
          \/ x.pc = "again" /\ y.ret = "last"
    \/ /\ y.tries = 0 /\ y.left = 0
       /\ \/ x.pc = "start" /\ y.pc = "prepare"
          \/ x.pc = "prepare" /\ y.pc = "held"
          \/ x.pc = "wait" /\ y.pc = "after"
          \/ x.pc \in {"after", "recheck"} /\ y.pc = "again"
          \/ x.pc \in {"held", "after", "recheck", "again", "last"} /\ y.pc = "acquire"
          \/ x.pc = "acquire" /\ y.pc = "check"
          \/ x.pc = "check" /\ y.pc = "purge"
          \/ x.pc = "resolving" /\ y.pc = "store"
          \/ x.pc \in {"check", "resolving", "store"} /\ y.pc = "finish"
    \/ x.pc = "held" /\ y.pc = "wait" /\ y.left = Wait
    \/ x.pc \in {"check", "purge"} /\ y.pc = "resolving" /\ y.left = Holder

(* What the attempts that are left may cost.                               *)
LEMMA AttemptCost ==
  ASSUME NEW n \in 0..Retries
  PROVE  /\ First \in Nat /\ First >= 7 + 2 * n
         /\ MaxDelay * n \in Nat /\ Full \in Nat
         /\ Full - MaxDelay * n >= Holder + MaxDelay
         /\ MaxDelay * (n + 1) = MaxDelay * n + MaxDelay
  <1>1. Retries - n \in Nat /\ n \in Nat /\ MaxDelay \in Nat /\ Retries \in Nat
    BY Constants
  <1>2. MaxDelay * (Retries - n) \in Nat /\ MaxDelay * n \in Nat /\ MaxDelay * Retries \in Nat
    BY <1>1
  <1>3. MaxDelay * (Retries - n) = MaxDelay * Retries - MaxDelay * n
    BY <1>1
  <1>4. MaxDelay * (n + 1) = MaxDelay * n + MaxDelay
    BY <1>1
  <1> QED
    BY <1>1, <1>2, <1>3, <1>4, Constants DEF First, Full

LEMMA Values ==
  ASSUME NEW n \in 0..Retries
  PROVE  /\ Place("start", n) = First + 12 /\ Place("prepare", n) = First + 10
         /\ Place("held", n) = First + 8 /\ Place("wait", n) = First + 7
         /\ Place("after", n) = First + 6 /\ Place("recheck", n) = First + 4
         /\ Place("again", n) = First + 3 /\ Place("last", n) = First + 1
         /\ Place("acquire", n) = First - 2 * n
         /\ Place("check", n) = 6 /\ Place("purge", n) = 5 /\ Place("resolving", n) = 4
         /\ Place("store", n) = 3 /\ Place("finish", n) = 2
         /\ \A l \in Releasing : Place(l, n) = 1
         /\ \A l \in Ended : Place(l, n) = 0
         /\ \A l \in {"start", "prepare"} : Owed(l, n) = Full + 3 * MaxDelay + Wait
         /\ Owed("held", n) = Full + 2 * MaxDelay + Wait
         /\ \A l \in {"wait", "after"} : Owed(l, n) = Full + 2 * MaxDelay
         /\ \A l \in {"recheck", "again"} : Owed(l, n) = Full + MaxDelay
         /\ Owed("last", n) = Full
         /\ Owed("acquire", n) = Full - MaxDelay * n
         /\ \A l \in {"check", "purge"} : Owed(l, n) = Holder + MaxDelay
         /\ \A l \in {"resolving", "store", "finish"} : Owed(l, n) = MaxDelay
         /\ \A l \in Releasing \cup Ended : Owed(l, n) = 0
  BY DEF Place, Owed, Releasing, Ended

LEMMA Measures ==
  ASSUME NEW x, GoodReq(x)
  PROVE  /\ x.pc = "bypass" => Level(x) = Place(x.ret, 0) + 1 /\ Budget(x) = Owed(x.ret, 0) + x.left
         /\ x.pc = "reclaim" => /\ Level(x) = Place(x.ret, x.tries) + 1
                                /\ Budget(x) = Owed(x.ret, x.tries) + x.left
         /\ x.pc \notin {"bypass", "reclaim"} => /\ Level(x) = Place(x.pc, x.tries)
                                                 /\ Budget(x) = Owed(x.pc, x.tries) + x.left
         /\ x.left \in Nat /\ x.tries \in 0..Retries /\ x.pc \in PCs
  BY Constants DEF Level, Budget, GoodReq, Req, Times

Labels == {"start", "prepare", "held", "wait", "after", "recheck", "again", "last",
           "acquire", "check", "purge", "resolving", "store", "finish"} \cup Releasing \cup Ended

LEMMA ValueBounds ==
  ASSUME NEW n \in 0..Retries, NEW l \in Labels
  PROVE  /\ Place(l, n) \in Nat /\ Owed(l, n) \in Nat
         /\ Owed(l, n) <= Full + 3 * MaxDelay + Wait
         /\ l \notin Ended => Place(l, n) > 0
         /\ l \in Guarded => Place(l, n) > 1 /\ Owed(l, n) >= MaxDelay
  <1>1. /\ First \in Nat /\ First >= 7 + 2 * n /\ Full \in Nat
        /\ Full - MaxDelay * n >= Holder + MaxDelay /\ MaxDelay * n \in Nat
        /\ MaxDelay \in Nat /\ Holder \in Nat /\ Wait \in Nat /\ n \in Nat
        /\ Full - MaxDelay * 0 >= Holder + MaxDelay /\ MaxDelay * 0 = 0
    BY AttemptCost, Constants
  <1> DEFINE c == MaxDelay * n
  <1>2. /\ c \in Nat /\ Full - c >= Holder + MaxDelay /\ Owed("acquire", n) = Full - c
        /\ Full >= Holder + MaxDelay
    BY <1>1, Values
  <1> HIDE DEF c
  <1>3. CASE l \in {"start", "prepare", "held", "wait", "after", "recheck", "again", "last",
                     "acquire"}
    BY <1>1, <1>2, <1>3, Values DEF Guarded, Ended
  <1>4. CASE l \in {"check", "purge", "resolving", "store", "finish"}
    BY <1>1, <1>2, <1>4, Values DEF Guarded, Ended
  <1>5. CASE l \in Releasing \cup Ended
    BY <1>1, <1>2, <1>5, Values DEF Guarded, Ended, Releasing
  <1> QED
    BY <1>3, <1>4, <1>5 DEF Labels

LEMMA MeasureBounds ==
  ASSUME NEW x, GoodReq(x)
  PROVE  /\ Level(x) \in Nat /\ Budget(x) \in Nat
         /\ x.pc \notin Ended => Level(x) > 0
         /\ x.pc \in Guarded => Level(x) > 1 /\ Budget(x) >= MaxDelay
  <1>1. x.pc \in {"bypass", "reclaim"} => x.ret \in Labels
    BY DEF GoodReq, Labels, Resumes, Ended
  <1>2. x.pc \in Labels \cup {"bypass", "reclaim"}
    BY Measures DEF Labels, PCs, Ended, Guarded, Deleting, Unguarded, Releasing
  <1>3. 0 \in 0..Retries /\ {"bypass", "reclaim"} \cap Guarded = {}
    BY Constants DEF Guarded
  <1> QED
    BY <1>1, <1>2, <1>3, Measures, ValueBounds, Constants

LEMMA Forward ==
  ASSUME NEW x, GoodReq(x), NEW y, GoodReq(y), Advance(x, y)
  PROVE  Level(y) < Level(x) /\ Budget(y) <= Budget(x)
  <1> DEFINE n == x.tries
             c == MaxDelay * n
  <1>0. /\ n \in 0..Retries /\ y.tries \in 0..Retries /\ 0 \in 0..Retries
        /\ x.left \in Nat /\ y.left \in Nat
    BY Measures, Constants
  <1>1. /\ First \in Nat /\ First >= 7 + 2 * n /\ Full \in Nat
        /\ c \in Nat /\ Full - c >= Holder + MaxDelay /\ MaxDelay * (n + 1) = c + MaxDelay
        /\ MaxDelay * 0 = 0 /\ MaxDelay \in Nat /\ Holder \in Nat /\ Wait \in Nat /\ n \in Nat
    BY <1>0, AttemptCost, Constants
  <1>m. /\ Level(x) \in Nat /\ Budget(x) \in Nat
        /\ x.pc \notin Ended => Level(x) > 0
        /\ x.pc \in Guarded => Level(x) > 1 /\ Budget(x) >= MaxDelay
    BY MeasureBounds
  <1>d. /\ Ended = {"done", "failed", "gone"} /\ Releasing = {"release", "dropping"}
    BY DEF Ended, Releasing
  <1>a. Owed("acquire", n) = Full - c /\ Place("acquire", n) = First - 2 * n
    BY <1>0, Values
  <1> HIDE DEF c
  <1>2. CASE x.pc \notin Ended /\ y.pc \in Ended /\ y.left = 0
    <2>1. Level(y) = 0 /\ Budget(y) = 0
      BY <1>0, <1>2, <1>d, Measures, Values
    <2> QED
      BY <1>m, <1>2, <2>1
  <1>3. CASE x.pc \in Guarded /\ y.pc \in Releasing /\ y.left = MaxDelay
    <2>1. Level(y) = 1 /\ Budget(y) = MaxDelay
      BY <1>0, <1>1, <1>3, <1>d, Measures, Values
    <2> QED
      BY <1>m, <1>3, <2>1, <1>1
  <1>4. CASE /\ x.pc = "acquire" /\ y.tries = n + 1
             /\ \/ y.pc = "acquire" /\ y.left = 0
                \/ y.pc = "reclaim" /\ y.ret \in {"acquire", "failed"} /\ y.left = MaxDelay
    <2>1. Level(x) = First - 2 * n /\ Budget(x) = Full - c + x.left
      BY <1>4, <1>a, Measures
    <2>2. n + 1 \in 0..Retries /\ First >= 7 + 2 * (n + 1)
      BY <1>0, <1>4, AttemptCost
    <2>3. /\ Place("acquire", y.tries) = First - 2 * (n + 1)
          /\ Owed("acquire", y.tries) = Full - (c + MaxDelay)
          /\ Place("failed", y.tries) = 0 /\ Owed("failed", y.tries) = 0
      BY <1>0, <1>1, <1>4, <2>2, <1>d, Values
    <2>4. CASE y.pc = "acquire" /\ y.left = 0
      <3>1. Level(y) = First - 2 * (n + 1) /\ Budget(y) = Full - (c + MaxDelay)
        BY <1>1, <2>3, <2>4, Measures
      <3> QED
        BY <1>0, <1>1, <2>1, <3>1
    <2>5. CASE y.pc = "reclaim" /\ y.ret = "acquire" /\ y.left = MaxDelay
      <3>1. Level(y) = First - 2 * (n + 1) + 1 /\ Budget(y) = Full - (c + MaxDelay) + MaxDelay
        BY <1>1, <2>3, <2>5, Measures
      <3> QED
        BY <1>0, <1>1, <2>1, <3>1
    <2>6. CASE y.pc = "reclaim" /\ y.ret = "failed" /\ y.left = MaxDelay
      <3>1. Level(y) = 1 /\ Budget(y) = MaxDelay
        BY <1>1, <2>3, <2>6, Measures
      <3> QED
        BY <1>0, <1>1, <2>1, <3>1
    <2> QED
      BY <1>4, <2>4, <2>5, <2>6
  <1>5. CASE x.pc = "reclaim" /\ y.pc = x.ret /\ y.tries = n /\ y.left = 0
    <2>1. x.ret \in Labels /\ x.ret \notin {"bypass", "reclaim"}
      BY <1>5, <1>d DEF GoodReq, Resumes, Labels
    <2>2. Place(x.ret, n) \in Nat /\ Owed(x.ret, n) \in Nat
      BY <1>0, <2>1, ValueBounds
    <2> QED
      BY <1>0, <1>5, <2>1, <2>2, Measures
  <1>6. CASE x.pc = "bypass" /\ y.pc = x.ret /\ y.tries = 0 /\ y.left = 0
    <2>1. x.ret \in Labels /\ x.ret \notin {"bypass", "reclaim"}
      BY <1>6 DEF GoodReq, Labels
    <2>2. Place(x.ret, 0) \in Nat /\ Owed(x.ret, 0) \in Nat
      BY <1>0, <2>1, ValueBounds
    <2> QED
      BY <1>0, <1>6, <2>1, <2>2, Measures
  <1>v. /\ Place("prepare", 0) = First + 10 /\ Place("acquire", 0) = First
        /\ Place("held", 0) = First + 8 /\ Place("recheck", 0) = First + 4
        /\ Place("last", 0) = First + 1
        /\ Owed("prepare", 0) = Full + 3 * MaxDelay + Wait /\ Owed("acquire", 0) = Full
        /\ Owed("held", 0) = Full + 2 * MaxDelay + Wait
        /\ Owed("recheck", 0) = Full + MaxDelay /\ Owed("last", 0) = Full
    BY <1>0, <1>1, Values
  <1>w. /\ x.pc = "start" => Level(x) = First + 12 /\ Budget(x) >= Full + 3 * MaxDelay + Wait
        /\ x.pc = "prepare" => Level(x) = First + 10 /\ Budget(x) >= Full + 3 * MaxDelay + Wait
        /\ x.pc = "held" => Level(x) = First + 8 /\ Budget(x) >= Full + 2 * MaxDelay + Wait
        /\ x.pc = "wait" => Level(x) = First + 7 /\ Budget(x) >= Full + 2 * MaxDelay
        /\ x.pc = "after" => Level(x) = First + 6 /\ Budget(x) >= Full + 2 * MaxDelay
        /\ x.pc = "recheck" => Level(x) = First + 4 /\ Budget(x) >= Full + MaxDelay
        /\ x.pc = "again" => Level(x) = First + 3 /\ Budget(x) >= Full + MaxDelay
        /\ x.pc = "last" => Level(x) = First + 1 /\ Budget(x) >= Full
    BY <1>0, <1>1, Measures, Values
  <1>z. /\ x.pc = "acquire" => Level(x) >= 7 /\ Budget(x) >= Holder + MaxDelay
        /\ x.pc = "check" => Level(x) = 6 /\ Budget(x) >= Holder + MaxDelay
        /\ x.pc = "purge" => Level(x) = 5 /\ Budget(x) >= Holder + MaxDelay
        /\ x.pc = "resolving" => Level(x) = 4 /\ Budget(x) >= MaxDelay
        /\ x.pc = "store" => Level(x) = 3 /\ Budget(x) >= MaxDelay
    BY <1>0, <1>1, <1>a, Measures, Values
  <1>7. CASE /\ y.tries = 0 /\ y.pc = "bypass" /\ y.left = 0
             /\ \/ x.pc = "start" /\ y.ret = "prepare"
                \/ x.pc \in {"prepare", "wait", "after", "again"} /\ y.ret = "acquire"
    <2>1. /\ y.ret = "prepare" => Level(y) = First + 11 /\ Budget(y) = Full + 3 * MaxDelay + Wait
          /\ y.ret = "acquire" => Level(y) = First + 1 /\ Budget(y) = Full
      BY <1>1, <1>7, <1>v, Measures
    <2> QED
      BY <1>1, <1>7, <1>m, <1>w, <2>1
  <1>8. CASE /\ y.tries = 0 /\ y.pc = "reclaim" /\ y.left = MaxDelay
             /\ \/ x.pc = "prepare" /\ y.ret = "held"
                \/ x.pc = "after" /\ y.ret = "recheck"
                \/ x.pc = "again" /\ y.ret = "last"
    <2>1. /\ y.ret = "held" => Level(y) = First + 9 /\ Budget(y) = Full + 3 * MaxDelay + Wait
          /\ y.ret = "recheck" => Level(y) = First + 5 /\ Budget(y) = Full + 2 * MaxDelay
          /\ y.ret = "last" => Level(y) = First + 2 /\ Budget(y) = Full + MaxDelay
      BY <1>1, <1>8, <1>v, Measures
    <2> QED
      BY <1>1, <1>8, <1>m, <1>w, <2>1
  <1>9. CASE /\ y.tries = 0 /\ y.left = 0
             /\ \/ x.pc = "start" /\ y.pc = "prepare"
                \/ x.pc = "prepare" /\ y.pc = "held"
                \/ x.pc = "wait" /\ y.pc = "after"
                \/ x.pc \in {"after", "recheck"} /\ y.pc = "again"
                \/ x.pc \in {"held", "after", "recheck", "again", "last"} /\ y.pc = "acquire"
    <2>1. /\ y.pc = "prepare" => Level(y) = First + 10 /\ Budget(y) = Full + 3 * MaxDelay + Wait
          /\ y.pc = "held" => Level(y) = First + 8 /\ Budget(y) = Full + 2 * MaxDelay + Wait
          /\ y.pc = "after" => Level(y) = First + 6 /\ Budget(y) = Full + 2 * MaxDelay
          /\ y.pc = "again" => Level(y) = First + 3 /\ Budget(y) = Full + MaxDelay
          /\ y.pc = "acquire" => Level(y) = First /\ Budget(y) = Full
      BY <1>0, <1>1, <1>9, <1>v, Measures, Values
    <2> QED
      BY <1>1, <1>9, <1>m, <1>w, <2>1
  <1>10. CASE /\ y.tries = 0 /\ y.left = 0
              /\ \/ x.pc = "acquire" /\ y.pc = "check"
                 \/ x.pc = "check" /\ y.pc = "purge"
                 \/ x.pc = "resolving" /\ y.pc = "store"
                 \/ x.pc \in {"check", "resolving", "store"} /\ y.pc = "finish"
    <2>1. /\ y.pc = "check" => Level(y) = 6 /\ Budget(y) = Holder + MaxDelay
          /\ y.pc = "purge" => Level(y) = 5 /\ Budget(y) = Holder + MaxDelay
          /\ y.pc = "store" => Level(y) = 3 /\ Budget(y) = MaxDelay
          /\ y.pc = "finish" => Level(y) = 2 /\ Budget(y) = MaxDelay
      BY <1>0, <1>1, <1>10, Measures, Values
    <2> QED
      BY <1>1, <1>10, <1>m, <1>z, <2>1
  <1>11. CASE \/ x.pc = "held" /\ y.pc = "wait" /\ y.left = Wait
              \/ x.pc \in {"check", "purge"} /\ y.pc = "resolving" /\ y.left = Holder
    <2>1. /\ y.pc = "wait" => Level(y) = First + 7 /\ Budget(y) = Full + 2 * MaxDelay + y.left
          /\ y.pc = "resolving" => Level(y) = 4 /\ Budget(y) = MaxDelay + y.left
      BY <1>0, <1>1, Measures, Values
    <2> QED
      BY <1>1, <1>11, <1>m, <1>w, <1>z, <2>1
  <1> QED
    BY <1>2, <1>3, <1>4, <1>5, <1>6, <1>7, <1>8, <1>9, <1>10, <1>11 DEF Advance

(* The records that Goto, GotoFor and Reclaim write.                       *)
LEMMA AtAdvance ==
  ASSUME NEW x, NEW l, NEW n, Advance(x, [pc |-> l, ret |-> l, left |-> n, tries |-> 0])
  PROVE  /\ Advance(x, [At(l) EXCEPT !.left = n])
         /\ n = 0 => Advance(x, At(l))
  <1>1. [At(l) EXCEPT !.left = n] = [pc |-> l, ret |-> l, left |-> n, tries |-> 0]
    BY DEF At
  <1> QED
    BY <1>1 DEF At

LEMMA UseCacheAdvance ==
  ASSUME NEW r \in Requests, NEW l, UseCache(r, l), req[r].pc \notin Ended,
         \/ req[r].pc = "start" /\ l = "prepare"
         \/ req[r].pc \in {"prepare", "wait", "after", "again"} /\ l = "acquire"
  PROVE  \E y : Moved(r, y) /\ Advance(req[r], y)
  <1>1. CASE NeedsRefresh
    <2> DEFINE y == [At("bypass") EXCEPT !.ret = l]
    <2>1. Moved(r, y)
      BY <1>1 DEF UseCache, Moved
    <2>2. y.pc = "bypass" /\ y.ret = l /\ y.tries = 0 /\ y.left = 0
      BY DEF At
    <2> HIDE DEF y
    <2> QED
      BY <2>1, <2>2 DEF Advance
  <1>2. CASE ~NeedsRefresh
    <2>1. Moved(r, At("done"))
      BY <1>2 DEF UseCache, Moved
    <2>2. At("done").pc \in Ended /\ At("done").left = 0
      BY DEF At, Ended
    <2> QED
      BY <2>1, <2>2 DEF Advance
  <1> QED
    BY <1>1, <1>2

LEMMA ReclaimAdvance ==
  ASSUME NEW r \in Requests, NEW l, NEW n, ReclaimStaleLock(r, l, n),
         \/ req[r].pc = "prepare" /\ l = "held" /\ n = 0
         \/ req[r].pc = "after" /\ l = "recheck" /\ n = 0 /\ ~cache /\ StaleLock
         \/ req[r].pc = "again" /\ l = "last" /\ n = 0 /\ ~cache /\ StaleLock
         \/ req[r].pc = "acquire" /\ l \in {"acquire", "failed"} /\ n = req[r].tries + 1
  PROVE  \E y : Moved(r, y) /\ Advance(req[r], y)
  <1> DEFINE stale == ~cache /\ StaleLock
             y == [pc |-> IF stale THEN "reclaim" ELSE l, ret |-> l,
                   left |-> IF stale THEN MaxDelay ELSE 0, tries |-> n]
  <1>1. Moved(r, y)
    BY DEF ReclaimStaleLock, Reclaim, Moved
  <1>2. /\ y.ret = l /\ y.tries = n
        /\ stale => y.pc = "reclaim" /\ y.left = MaxDelay
        /\ ~stale => y.pc = l /\ y.left = 0
    OBVIOUS
  <1>3. req[r].pc \in {"after", "again"} => stale
    OBVIOUS
  <1> HIDE DEF stale, y
  <1>4. Advance(req[r], y)
    <2>1. CASE stale
      BY <1>2, <2>1 DEF Advance
    <2>2. CASE ~stale
      BY <1>2, <1>3, <2>2 DEF Advance, Ended
    <2> QED
      BY <2>1, <2>2
  <1> QED
    BY <1>1, <1>4

LEMMA ActAdvances ==
  ASSUME TypeInv, NEW r \in Requests, Acts(r)
  PROVE  \E y : Moved(r, y) /\ Advance(req[r], y)
  <1> DEFINE x == req[r]
             Goal == \E y : Moved(r, y) /\ Advance(x, y)
             Rec(l, n) == [pc |-> l, ret |-> l, left |-> n, tries |-> 0]
  <1>0. GoodReq(x)
    BY DEF TypeInv
  <1>g. ASSUME NEW l, Goto(r, l), Advance(x, Rec(l, 0)) PROVE Goal
    BY <1>g, AtAdvance DEF Goto, Moved
  <1>f. ASSUME NEW l, NEW n, GotoFor(r, l, n), Advance(x, Rec(l, n)) PROVE Goal
    BY <1>f, AtAdvance DEF GotoFor, Moved
  <1>e. ASSUME NEW l \in Ended, x.pc \notin Ended PROVE Advance(x, Rec(l, 0))
    BY <1>e DEF Advance
  <1>n. ASSUME NEW l,
               \/ x.pc = "start" /\ l = "prepare"
               \/ x.pc = "wait" /\ l = "after"
               \/ x.pc \in {"after", "recheck"} /\ l = "again"
               \/ x.pc \in {"held", "after", "recheck", "again", "last"} /\ l = "acquire"
               \/ x.pc = "acquire" /\ l = "check"
               \/ x.pc = "check" /\ l = "purge"
               \/ x.pc = "resolving" /\ l = "store"
               \/ x.pc \in {"check", "resolving", "store"} /\ l = "finish"
        PROVE  Advance(x, Rec(l, 0))
    BY <1>n DEF Advance
  <1>w. x.pc = "held" => Advance(x, Rec("wait", Wait))
    BY DEF Advance
  <1>h. x.pc \in {"check", "purge"} => Advance(x, Rec("resolving", Holder))
    BY DEF Advance
  <1>d. ASSUME NEW l \in Releasing, x.pc \in Guarded PROVE Advance(x, Rec(l, MaxDelay))
    BY <1>d DEF Advance
  <1>b. x.pc = "bypass" => Advance(x, Rec(x.ret, 0))
    BY DEF Advance
  <1>u. ASSUME NEW l, UseCache(r, l),
               \/ x.pc = "start" /\ l = "prepare"
               \/ x.pc \in {"prepare", "wait", "after", "again"} /\ l = "acquire"
        PROVE  Goal
    <2>1. x.pc \notin Ended
      BY <1>u DEF Ended
    <2> QED
      BY <1>u, <2>1, UseCacheAdvance
  <1>p. /\ {"done", "failed", "gone"} \subseteq Ended /\ Ended \cap (Unguarded \cup Guarded) = {}
        /\ {"release", "dropping"} = Releasing /\ "reclaim" \notin Ended
        /\ Releasing \cap Ended = {}
        /\ Guarded = {"check", "purge", "resolving", "store", "finish"}
    BY DEF Ended, Unguarded, Guarded, Releasing
  <1>q. x.pc \in {"start", "prepare", "held", "wait", "after", "recheck", "again", "last",
                  "acquire"} => x.pc \notin Ended
    BY DEF Ended
  <1> SUFFICES Goal
    OBVIOUS
  <1> HIDE DEF Goal, Rec, x
  <1>1. CASE FirstLook(r)
    BY <1>1, <1>u, <1>g, <1>n DEF FirstLook, x
  <1>2. CASE Prepare(r)
    <2>1. CASE ReclaimStaleLock(r, "held", 0) /\ x.pc = "prepare"
      BY <2>1, ReclaimAdvance DEF x, Goal
    <2> QED
      BY <1>2, <1>u, <2>1 DEF Prepare, x
  <1>3. CASE Bypass(r)
    BY <1>3, <1>b, <1>g DEF Bypass, x
  <1>4. CASE CheckHeld(r)
    BY <1>4, <1>f, <1>w, <1>g, <1>n DEF CheckHeld, x
  <1>5. CASE WaitForCachedUrl(r)
    BY <1>5, <1>u, <1>g, <1>n DEF WaitForCachedUrl, x
  <1>6. CASE AfterWait(r)
    <2>0. x.pc = "after" /\ LookAgain(r, "again", "recheck")
      BY <1>6 DEF AfterWait, x
    <2>1. CASE StaleLock /\ ~cache /\ ReclaimStaleLock(r, "recheck", 0)
      BY <2>0, <2>1, ReclaimAdvance DEF x, Goal
    <2> QED
      BY <2>0, <2>1, <1>u, <1>g, <1>n DEF LookAgain
  <1>7. CASE TryReadyAfterWait(r)
    <2>0. x.pc = "again" /\ LookAgain(r, "failed", "last")
      BY <1>7 DEF TryReadyAfterWait, x
    <2>1. CASE StaleLock /\ ~cache /\ ReclaimStaleLock(r, "last", 0)
      BY <2>0, <2>1, ReclaimAdvance DEF x, Goal
    <2> QED
      BY <2>0, <2>1, <1>u, <1>g, <1>n, <1>e, <1>p, <1>q DEF LookAgain
  <1>8. CASE LookAfterReclaim(r)
    BY <1>8, <1>g, <1>n, <1>e, <1>p, <1>q DEF LookAfterReclaim, AfterReclaim, x
  <1>9. CASE ReclaimDel(r)
    <2> DEFINE y == [pc |-> x.ret, ret |-> x.ret, left |-> 0, tries |-> x.tries]
    <2>1. Moved(r, y) /\ x.pc = "reclaim"
      BY <1>9 DEF ReclaimDel, Reclaim, Moved, x
    <2>2. Advance(x, y)
      BY <2>1 DEF Advance
    <2> QED
      BY <2>1, <2>2 DEF Goal
  <1>10. CASE AcquireResolveLock(r)
    <2>1. x.pc = "acquire"
      BY <1>10 DEF AcquireResolveLock, x
    <2>2. CASE ~LockHeld
      BY <1>10, <2>1, <2>2, <1>g, <1>n DEF AcquireResolveLock
    <2>3. CASE LockHeld
      <3> DEFINE n == req[r].tries + 1
                 l == IF n < Retries THEN "acquire" ELSE "failed"
      <3>1. ReclaimStaleLock(r, l, n)
        BY <1>10, <2>3 DEF AcquireResolveLock
      <3>2. l \in {"acquire", "failed"} /\ n = req[r].tries + 1
        OBVIOUS
      <3> HIDE DEF l, n
      <3> QED
        BY <2>1, <3>1, <3>2, ReclaimAdvance DEF x, Goal
    <2> QED
      BY <2>2, <2>3
  <1>11. CASE AcquireDropped(r) \/ Crash(r)
    BY <1>11, <1>g, <1>e, <1>p, <1>q DEF AcquireDropped, Crash, x
  <1>12. CASE CheckCache(r)
    BY <1>12, <1>g, <1>n, <1>f, <1>h DEF CheckCache, x
  <1>13. CASE Purge(r)
    BY <1>13, <1>f, <1>h DEF Purge, x
  <1>14. CASE ResolveOk(r) \/ ResolveErr(r) \/ ResolveTimeout(r) \/ SetPlaybackCache(r)
    BY <1>14, <1>g, <1>n DEF ResolveOk, ResolveErr, ResolveTimeout, SetPlaybackCache, x
  <1>15. CASE Release(r)
    BY <1>15, <1>f, <1>d, <1>p DEF Release, x
  <1>16. CASE ReleaseLock(r)
    <2>1. x.pc \in Releasing /\ (Goto(r, "done") \/ Goto(r, "gone"))
      BY <1>16, <1>p DEF ReleaseLock, x
    <2> QED
      BY <2>1, <1>g, <1>e, <1>p
  <1>17. CASE Drop(r)
    <2>1. CASE x.pc \in Guarded
      BY <1>17, <2>1, <1>f, <1>d, <1>p DEF Drop, x
    <2>2. CASE x.pc \notin Guarded
      <3>1. Goto(r, "gone") /\ x.pc \in Unguarded \cup {"reclaim", "release"}
        BY <1>17, <2>2 DEF Drop, x
      <3> QED
        BY <3>1, <1>g, <1>e, <1>p
    <2> QED
      BY <2>1, <2>2
  <1> QED
    BY <1>1, <1>2, <1>3, <1>4, <1>5, <1>6, <1>7, <1>8, <1>9, <1>10, <1>11, <1>12, <1>13,
       <1>14, <1>15, <1>16, <1>17 DEF Acts, Step, Fault

(* A step leaves every request as it is, brings one nearer to its end, or  *)
(* uses up one interval of those that wait, resolve or delete.             *)
LEMMA NextProgress ==
  ASSUME TypeInv, [Next]_vars, NEW r \in Requests
  PROVE  \/ req'[r] = req[r] /\ (Tick => req[r].pc \notin Timed)
         \/ /\ GoodReq(req'[r]) /\ ~Tick
            /\ Level(req'[r]) < Level(req[r]) /\ Budget(req'[r]) <= Budget(req[r])
         \/ /\ Tick /\ req[r].pc \in Timed /\ GoodReq(req'[r])
            /\ Level(req'[r]) = Level(req[r]) /\ Budget(req'[r]) = Budget(req[r]) - 1
            /\ req'[r].left = req[r].left - 1
  <1>0. TypeOK /\ GoodReq(req[r])
    BY DEF TypeInv
  <1>1. ASSUME NEW s \in Requests, Acts(s), ~Tick
        PROVE  \/ req'[r] = req[r]
               \/ /\ GoodReq(req'[r])
                  /\ Level(req'[r]) < Level(req[r]) /\ Budget(req'[r]) <= Budget(req[r])
    <2>1. PICK y : Moved(s, y) /\ Advance(req[s], y)
      BY <1>1, ActAdvances
    <2>2. req'[s] = y /\ \A q \in Requests \ {s} : req'[q] = req[q]
      BY <1>0, <2>1, MovedOne
    <2>3. PICK z : Moved(s, z) /\ GoodReq(z)
      BY <1>1, ActKinds
    <2>4. GoodReq(y)
      BY <1>0, <2>2, <2>3, MovedOne
    <2>5. CASE r = s
      BY <1>0, <2>1, <2>2, <2>4, <2>5, Forward
    <2>6. CASE r # s
      BY <2>2, <2>6
    <2> QED
      BY <2>5, <2>6
  <1>2. CASE Tick
    <2>1. /\ req'[r] = [req[r] EXCEPT !.left = IF req[r].pc \in Timed THEN @ - 1 ELSE @]
          /\ req[r] \in Req
      BY <1>0, <1>2 DEF Tick, GoodReq
    <2>2. CASE req[r].pc \notin Timed
      BY <2>1, <2>2 DEF Req
    <2>3. CASE req[r].pc \in Timed
      <3> DEFINE x == req[r]
                 y == req'[r]
      <3>1. GoodReq(y) /\ y.left = x.left - 1
        BY <1>2, <2>3, TickReq
      <3>2. y.pc = x.pc /\ y.ret = x.ret /\ y.tries = x.tries
        BY <2>1 DEF Req
      <3>3. GoodReq(x) /\ x.left \in Nat
        BY <1>0, Measures
      <3> HIDE DEF x, y
      <3>4. Level(y) = Level(x)
        BY <3>2 DEF Level
      <3>5. /\ Budget(y) \in Nat /\ Budget(x) \in Nat
            /\ x.ret \in Labels \/ x.pc \notin {"bypass", "reclaim"}
        BY <3>1, <3>3, MeasureBounds DEF GoodReq, Labels, Resumes, Ended
      <3>6. \E o : Budget(x) = o + x.left /\ Budget(y) = o + y.left /\ o \in Nat
        <4> DEFINE o == CASE x.pc = "bypass" -> Owed(x.ret, 0)
                          [] x.pc = "reclaim" -> Owed(x.ret, x.tries)
                          [] OTHER -> Owed(x.pc, x.tries)
        <4>1. Budget(x) = o + x.left /\ Budget(y) = o + y.left
          BY <3>2 DEF Budget
        <4>2. /\ x.pc \in Labels \cup {"bypass", "reclaim"}
              /\ x.tries \in 0..Retries /\ 0 \in 0..Retries
          BY <3>3, Measures, Constants
          DEF Labels, PCs, Ended, Guarded, Deleting, Unguarded, Releasing
        <4>3. o \in Nat
          BY <3>5, <4>2, ValueBounds
        <4> QED
          BY <4>1, <4>3
      <3>7. Budget(y) = Budget(x) - 1
        BY <3>1, <3>3, <3>6
      <3> QED
        BY <1>2, <2>3, <3>1, <3>4, <3>7 DEF x, y
    <2> QED
      BY <1>2, <2>2, <2>3
  <1>3. CASE ~Tick /\ (UpdateMetadata \/ UNCHANGED vars)
    BY <1>3 DEF UpdateMetadata, vars
  <1> QED
    BY <1>1, <1>2, <1>3 DEF Next, Acts

(* Steps and time in one number: a step is worth more than any wait.       *)
Span == Wait + Holder + MaxDelay + 1
Rank(x) == Span * Level(x) + x.left

LEMMA RankLess ==
  ASSUME NEW k \in Nat, NEW a \in Nat, NEW b \in Nat, a < b, NEW m \in Nat, NEW n \in Nat, m < k
  PROVE  k * a + m < k * b + n
  <1>1. b - (a + 1) \in Nat
    OBVIOUS
  <1>2. k * b = k * a + k + k * (b - (a + 1))
    OBVIOUS
  <1>3. k * (b - (a + 1)) \in Nat /\ k * a \in Nat
    BY <1>1
  <1> QED
    BY <1>2, <1>3

(* No chain of waits, reclaims and retries goes on for ever: whatever      *)
(* happens to a request, a step of its own, of a peer, a fault or the      *)
(* passing of time, lowers a natural number or leaves it where it is.      *)
THEOREM RequestsGoOn ==
  Spec => [][\A r \in Requests :
               /\ Rank(req[r]) \in Nat
               /\ req'[r] # req[r] => Rank(req'[r]) < Rank(req[r])]_vars
  <1> DEFINE P == \A r \in Requests :
                    /\ Rank(req[r]) \in Nat
                    /\ req'[r] # req[r] => Rank(req'[r]) < Rank(req[r])
  <1>1. TypeInv /\ [Next]_vars => P
    <2> SUFFICES ASSUME TypeInv, [Next]_vars, NEW r \in Requests
                 PROVE  /\ Rank(req[r]) \in Nat
                        /\ req'[r] # req[r] => Rank(req'[r]) < Rank(req[r])
      OBVIOUS
    <2> DEFINE x == req[r]
               y == req'[r]
    <2>0. Span \in Nat /\ \A t \in Times : t \in Nat /\ t < Span
      BY Constants DEF Span, Times
    <2>1. GoodReq(x) /\ Level(x) \in Nat /\ x.left \in Times
      BY MeasureBounds DEF TypeInv, GoodReq, Req
    <2>2. GoodReq(y) => Level(y) \in Nat /\ y.left \in Times
      BY MeasureBounds DEF GoodReq, Req
    <2>3. \/ y = x
          \/ GoodReq(y) /\ Level(y) < Level(x)
          \/ GoodReq(y) /\ Level(y) = Level(x) /\ y.left = x.left - 1
      BY NextProgress
    <2> HIDE DEF x, y, Span
    <2>4. Rank(x) \in Nat
      BY <2>0, <2>1 DEF Rank
    <2>5. y # x => Rank(y) < Rank(x)
      <3>1. CASE GoodReq(y) /\ Level(y) < Level(x)
        BY <2>0, <2>1, <2>2, <3>1, RankLess DEF Rank
      <3>2. CASE GoodReq(y) /\ Level(y) = Level(x) /\ y.left = x.left - 1
        <4> DEFINE k == Span * Level(x)
        <4>1. k \in Nat /\ Rank(x) = k + x.left /\ Rank(y) = k + y.left
          BY <2>0, <2>1, <3>2 DEF Rank
        <4> QED
          BY <2>0, <2>1, <3>2, <4>1
      <3> QED
        BY <2>3, <3>1, <3>2
    <2> QED
      BY <2>4, <2>5 DEF x, y
  <1> QED
    BY <1>1, TypeInvariant, PTL DEF Spec

Allowance == Wait + Holder + (Retries + 4) * MaxDelay

(* A request waits, resolves and deletes for at most Allowance intervals   *)
(* altogether: it starts with that many, an interval in which it does one  *)
(* of these uses one up, and nothing gives any back.                       *)
THEOREM TimeIsBounded ==
  Spec => /\ [](\A r \in Requests : Budget(req[r]) \in 0..Allowance)
          /\ [][\A r \in Requests :
                  /\ Budget(req'[r]) <= Budget(req[r])
                  /\ Tick /\ req[r].pc \in Timed => Budget(req'[r]) < Budget(req[r])]_vars
  <1> DEFINE I == \A r \in Requests : Budget(req[r]) \in 0..Allowance
             P == \A r \in Requests :
                    /\ Budget(req'[r]) <= Budget(req[r])
                    /\ Tick /\ req[r].pc \in Timed => Budget(req'[r]) < Budget(req[r])
  <1>1. Init => I
    <2> SUFFICES ASSUME Init, NEW r \in Requests PROVE Budget(req[r]) \in 0..Allowance
      OBVIOUS
    <2>1. req[r] = At("start") /\ At("start").pc = "start" /\ At("start").left = 0
          /\ At("start").tries = 0 /\ GoodReq(At("start"))
      BY AtGood DEF Init, At, PCs, Unguarded
    <2>2. 0 \in 0..Retries /\ {MaxDelay, Holder, Wait, Retries} \subseteq Nat
      BY Constants
    <2>3. Budget(req[r]) = Full + 3 * MaxDelay + Wait + 0
      BY <2>1, <2>2, Measures, Values
    <2>4. (Retries + 4) * MaxDelay = MaxDelay * Retries + 4 * MaxDelay /\ MaxDelay * Retries \in Nat
      BY <2>2
    <2> QED
      BY <2>2, <2>3, <2>4 DEF Full, Allowance
  <1>2. TypeInv /\ [Next]_vars => P
    <2> SUFFICES ASSUME TypeInv, [Next]_vars, NEW r \in Requests
                 PROVE  /\ Budget(req'[r]) <= Budget(req[r])
                        /\ Tick /\ req[r].pc \in Timed => Budget(req'[r]) < Budget(req[r])
      OBVIOUS
    <2>1. Budget(req[r]) \in Nat
      BY MeasureBounds DEF TypeInv
    <2> QED
      BY <2>1, NextProgress
  <1>3. TypeInv /\ TypeInv' /\ I /\ P => I'
    <2> SUFFICES ASSUME TypeInv, TypeInv', I, P, NEW r \in Requests
                 PROVE  Budget(req'[r]) \in 0..Allowance
      BY DEF Budget, Owed
    <2>1. GoodReq(req'[r])
      BY DEF TypeInv, GoodReq, Req
    <2>2. Budget(req'[r]) \in Nat /\ Budget(req[r]) \in 0..Allowance /\ Allowance \in Nat
      BY <2>1, MeasureBounds, Constants DEF Allowance
    <2> QED
      BY <2>2
  <1> HIDE DEF I, P
  <1> QED
    BY <1>1, <1>2, <1>3, TypeInvariant, TypeStep, PTL DEF Spec, I, P

(***************************************************************************)
(* A lock nobody will release runs out                                     *)
(***************************************************************************)

(* A lock that exists has an expiry: SET and EXPIRE both give it one.      *)
Expires == LockHeld => lock.ttl > 0

Quiet == \A r \in Requests : req[r].pc \in Ended

LEMMA TickKeepsLock ==
  ASSUME TypeOK, Tick, LockHeld, Expires,
         NEW g \in BOOLEAN, g = (\E r \in Requests : req[r].pc \in Guarded)
  PROVE  \/ lock' = Free /\ ~g
         \/ /\ lock'.owner = lock.owner /\ lock'.ttl > 0
            /\ ~g => lock'.ttl = lock.ttl - 1
  <1>1. /\ lock \in [owner : Requests \cup {NoOne, Earlier}, age : 0..Stale, ttl : 0..TTL]
        /\ lock.ttl \in Nat /\ lock.ttl > 0 /\ TTL \in Nat /\ TTL > 0
    BY Constants, PlaybackDedupAssumption DEF TypeOK, Expires
  <1>2. CASE lock.ttl = 1 /\ ~g
    BY <1>2 DEF Tick, NextLock
  <1>3. CASE ~(lock.ttl = 1 /\ ~g)
    <2> DEFINE a == IF lock.age < Stale THEN lock.age + 1 ELSE lock.age
               t == IF g THEN TTL ELSE IF lock.ttl = 0 THEN 0 ELSE lock.ttl - 1
    <2>1. lock' = [lock EXCEPT !.age = a, !.ttl = t]
      BY <1>3 DEF Tick, NextLock
    <2>2. t > 0 /\ (~g => t = lock.ttl - 1)
      BY <1>1, <1>3
    <2> HIDE DEF a, t
    <2>3. lock'.owner = lock.owner /\ lock'.ttl = t
      BY <1>1, <2>1
    <2> QED
      BY <2>2, <2>3
  <1> QED
    BY <1>2, <1>3

LEMMA ExpiresStep == TypeInv /\ Expires /\ [Next]_vars => Expires'
  <1> SUFFICES ASSUME TypeInv, Expires, [Next]_vars PROVE Expires'
    OBVIOUS
  <1>0. TypeOK /\ Free.owner = NoOne
    BY DEF TypeInv, Free
  <1>1. ASSUME NEW r \in Requests, Acts(r) PROVE Expires'
    <2>1. PICK x : Moved(r, x) /\ Kinds(r, x)
      BY <1>1, ActKinds
    <2>2. lock' = lock \/ lock' = Free \/ lock' = Taken(r)
      BY <2>1 DEF Kinds, Outside, Inside, Ends, Takes, Deletes, Reclaims
    <2>3. Taken(r).ttl > 0
      BY Constants, PlaybackDedupAssumption DEF Taken
    <2> QED
      BY <1>0, <2>2, <2>3 DEF Expires, LockHeld
  <1>2. CASE Tick
    <2>1. CASE LockHeld
      BY <1>0, <1>2, <2>1, TickKeepsLock DEF Expires, LockHeld
    <2>2. CASE ~LockHeld
      BY <1>0, <1>2, <2>2 DEF Tick, NextLock, Expires, LockHeld
    <2> QED
      BY <2>1, <2>2
  <1>3. CASE UNCHANGED lock
    BY <1>3 DEF Expires, LockHeld
  <1> QED
    BY <1>1, <1>2, <1>3 DEF Next, Acts, UpdateMetadata, vars

LEMMA QuietStep ==
  ASSUME TypeInv, Expires, [Next]_vars, Quiet
  PROVE  /\ Quiet'
         /\ ~LockHeld => lock' = lock \/ lock' = Free
         /\ LockHeld => \/ lock' = lock /\ ~Tick
                        \/ lock' = Free
                        \/ lock'.owner = lock.owner /\ lock'.ttl = lock.ttl - 1
  <1>0. TypeOK /\ Ended \cap Guarded = {} /\ NoOne \notin Requests
    BY PlaybackDedupAssumption DEF TypeInv, Ended, Guarded
  <1>1. ASSUME NEW r \in Requests, Acts(r) PROVE FALSE
    <2>1. PICK y : Moved(r, y) /\ Advance(req[r], y)
      BY <1>1, ActAdvances
    <2>2. GoodReq(req[r]) /\ GoodReq(y)
      <3>1. PICK z : Moved(r, z) /\ GoodReq(z)
        BY <1>1, ActKinds
      <3>2. y = z
        BY <1>0, <2>1, <3>1, MovedOne
      <3> QED
        BY <3>1, <3>2 DEF TypeInv
    <2>3. Level(y) < Level(req[r]) /\ Level(y) \in Nat
      BY <2>1, <2>2, Forward, MeasureBounds
    <2>4. req[r].pc \in Ended /\ req[r].pc \notin {"bypass", "reclaim"}
      BY DEF Quiet, Ended
    <2>5. Level(req[r]) = 0
      BY <2>2, <2>4, Measures, Values
    <2> QED
      BY <2>3, <2>5
  <1>2. CASE Tick
    <2>1. \A r \in Requests : req'[r].pc = req[r].pc
      BY <1>2, TickReq
    <2>2. ~\E r \in Requests : req[r].pc \in Guarded
      BY <1>0 DEF Quiet
    <2>3. CASE LockHeld
      BY <1>0, <1>2, <2>1, <2>2, <2>3, TickKeepsLock DEF Quiet
    <2>4. CASE ~LockHeld
      BY <1>2, <2>1, <2>4 DEF Quiet, Tick, NextLock
    <2> QED
      BY <2>3, <2>4
  <1>3. CASE ~Tick /\ UNCHANGED <<lock, req>>
    BY <1>3 DEF Quiet
  <1> QED
    BY <1>1, <1>2, <1>3 DEF Next, Acts, UpdateMetadata, vars

(* The lock of a holder that crashed, or was dropped between SET and guard *)
(* or inside release(): once no request is left, nobody takes the lock and *)
(* nobody extends it, and every interval uses up some of its TTL or ends   *)
(* it, so it is gone after at most TTL of them.                            *)
THEOREM AbandonedLockExpires ==
  Spec => /\ []Expires
          /\ [][Quiet => /\ Quiet'
                         /\ LockHeld' => /\ LockHeld /\ lock'.owner = lock.owner
                                         /\ lock'.ttl <= lock.ttl /\ lock.ttl <= TTL
                                         /\ Tick => lock'.ttl < lock.ttl]_vars
  <1> DEFINE P == Quiet => /\ Quiet'
                           /\ LockHeld' => /\ LockHeld /\ lock'.owner = lock.owner
                                           /\ lock'.ttl <= lock.ttl /\ lock.ttl <= TTL
                                           /\ Tick => lock'.ttl < lock.ttl
  <1>1. Init => Expires
    BY DEF Init, Expires, LockHeld, Free
  <1>2. TypeInv /\ Expires /\ [Next]_vars => P
    <2> SUFFICES ASSUME TypeInv, Expires, [Next]_vars, Quiet
                 PROVE  /\ Quiet'
                        /\ LockHeld' => /\ LockHeld /\ lock'.owner = lock.owner
                                        /\ lock'.ttl <= lock.ttl /\ lock.ttl <= TTL
                                        /\ Tick => lock'.ttl < lock.ttl
      OBVIOUS
    <2>1. lock.ttl \in Nat /\ lock.ttl <= TTL /\ Free.owner = NoOne
      BY Constants DEF TypeInv, TypeOK, Free
    <2>2. Quiet' /\ (~LockHeld => ~LockHeld')
      BY <2>1, QuietStep DEF LockHeld
    <2>3. CASE lock' = Free
      BY <2>1, <2>2, <2>3 DEF LockHeld
    <2>4. CASE LockHeld /\ lock' # Free
      BY <2>1, <2>2, <2>4, QuietStep
    <2> QED
      BY <2>2, <2>3, <2>4
  <1> HIDE DEF P
  <1> QED
    BY <1>1, <1>2, TypeInvariant, ExpiresStep, PTL DEF Spec, P
=============================================================================
