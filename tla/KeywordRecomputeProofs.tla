----------------------- MODULE KeywordRecomputeProofs -----------------------
(***************************************************************************)
(* Proofs about the keyword recompute, for any number of tasks, versions   *)
(* and batches and any limits with Abort < Stale.                          *)
(***************************************************************************)
EXTENDS KeywordRecompute, TLAPS

(* The lease row, if there is one, belongs to the task that claimed last.  *)
LeaseIsLatest == lease.owner \in {Nobody, latest}

(* A task that is about to write a batch has one left.                     *)
BatchLeft == \A t \in Tasks : At(t, {"sweep"}) => task[t].batch < Batches

(* A sweep that waits for its next tick has not been quiet for too long.   *)
InTime(x) == x.pc \in Sweeping /\ x.ask = "idle" => x.quiet <= Abort
IdleInTime == \A t \in Tasks : InTime(task[t])

Inv1 == TypeOK /\ LeaseIsLatest /\ BatchLeft /\ IdleInTime

-----------------------------------------------------------------------------

(* What replacing one task does to the function of tasks.                  *)
LEMMA BecomeFacts ==
    ASSUME task \in [Tasks -> Task], NEW t \in Tasks, NEW r \in Task, Become(t, r)
    PROVE  /\ task' \in [Tasks -> Task]
           /\ task'[t] = r
           /\ \A u \in Tasks : u # t => task'[u] = task[u]
BY DEF Become

(* Every label an action moves a task to keeps the task in its type.       *)
LEMMA PcUpdate ==
    ASSUME NEW r \in Task, NEW l \in PCs
    PROVE  /\ [r EXCEPT !.pc = l] \in Task
           /\ [r EXCEPT !.pc = l].pc = l
           /\ [r EXCEPT !.pc = l].batch = r.batch
           /\ [r EXCEPT !.pc = l].ver = r.ver
           /\ [r EXCEPT !.pc = l].quiet = r.quiet
           /\ [r EXCEPT !.pc = l].ask = r.ask
           /\ [r EXCEPT !.pc = l].lost = r.lost
BY DEF Task

LEMMA FreshType ==
    ASSUME NEW l \in PCs, NEW n \in 0..MaxAttempts
    PROVE  Fresh(l, n) \in Task /\ Fresh(l, n).pc = l
<1>1. 0 \in 0..(Abort + 1) /\ 0 \in 0..MaxLost /\ 0 \in 0..MaxVersion /\ 0 \in 0..Batches
  BY KeywordRecomputeAssumption DEF MaxLost
<1>2. QED
  BY <1>1 DEF Fresh, Task, Asks

LEMMA GotoFacts ==
    ASSUME task \in [Tasks -> Task], NEW t \in Tasks, NEW l \in PCs, Goto(t, l)
    PROVE  /\ task' \in [Tasks -> Task]
           /\ task'[t].pc = l
           /\ task'[t].batch = task[t].batch
           /\ task'[t].ver = task[t].ver
           /\ task'[t].quiet = task[t].quiet
           /\ task'[t].ok = task[t].ok
           /\ task'[t].ask = task[t].ask
           /\ task'[t].lost = task[t].lost
           /\ \A u \in Tasks : u # t => task'[u] = task[u]
<1>1. task[t] \in Task
  OBVIOUS
<1>2. [task[t] EXCEPT !.pc = l] \in Task
  BY <1>1, PcUpdate
<1>3. QED
  BY <1>1, <1>2, BecomeFacts, PcUpdate DEF Goto, Task

LEMMA RestFacts ==
    ASSUME task \in [Tasks -> Task], NEW t \in Tasks, Loop(t) \/ End(t)
    PROVE  /\ task' \in [Tasks -> Task]
           /\ task'[t].pc \in {"loop", "ended"}
           /\ \A u \in Tasks : u # t => task'[u] = task[u]
<1>1. task[t].tries \in 0..MaxAttempts /\ 0 \in 0..MaxAttempts
  BY KeywordRecomputeAssumption DEF Task
<1>2. /\ Fresh("loop", task[t].tries) \in Task
      /\ Fresh("ended", 0) \in Task
  BY <1>1, FreshType DEF PCs
<1>3. CASE Loop(t)
  BY <1>2, <1>3, BecomeFacts DEF Loop, Fresh
<1>4. CASE End(t)
  BY <1>2, <1>4, BecomeFacts DEF End, Fresh
<1>5. QED
  BY <1>3, <1>4

(* The end of a sweep, and its beginning.                                  *)
LEMMA SweptFacts ==
    ASSUME task \in [Tasks -> Task], NEW t \in Tasks, NEW s \in BOOLEAN,
           Become(t, Swept(t, s))
    PROVE  /\ task' \in [Tasks -> Task]
           /\ task'[t].pc = "swept" /\ task'[t].ok = s /\ task'[t].ver = task[t].ver
           /\ \A u \in Tasks : u # t => task'[u] = task[u]
<1>1. task[t].ver \in 0..MaxVersion /\ task[t].tries \in 0..MaxAttempts
  BY DEF Task
<1>2. Fresh("swept", task[t].tries) \in Task
  BY <1>1, FreshType DEF PCs
<1>3. Swept(t, s) \in Task
  BY <1>1, <1>2 DEF Swept, Task
<1>4. Swept(t, s).pc = "swept" /\ Swept(t, s).ok = s /\ Swept(t, s).ver = task[t].ver
  BY <1>2 DEF Swept, Fresh, Task
<1>5. QED
  BY <1>3, <1>4, BecomeFacts

LEMMA BeginFacts ==
    ASSUME task \in [Tasks -> Task], NEW t \in Tasks, Become(t, Begin(t))
    PROVE  /\ task' \in [Tasks -> Task]
           /\ task'[t].pc = "sweep" /\ task'[t].batch = 0 /\ task'[t].quiet = 0
           /\ task'[t].ask = "asked" /\ task'[t].lost = 0
           /\ task'[t].ver = task[t].ver
           /\ \A u \in Tasks : u # t => task'[u] = task[u]
<1>1. task[t].ver \in 0..MaxVersion /\ task[t].tries \in 0..MaxAttempts
  BY DEF Task
<1>2. Fresh("sweep", task[t].tries) \in Task
  BY <1>1, FreshType DEF PCs, Sweeping
<1>3. Begin(t) \in Task
  BY <1>1, <1>2 DEF Begin, Task, Asks
<1>4. /\ Begin(t).pc = "sweep" /\ Begin(t).batch = 0 /\ Begin(t).quiet = 0
      /\ Begin(t).ask = "asked" /\ Begin(t).lost = 0 /\ Begin(t).ver = task[t].ver
  BY <1>2 DEF Begin, Fresh, Task
<1>5. QED
  BY <1>3, <1>4, BecomeFacts

(* The end of a renewal touches nothing but what belongs to the renewals.  *)
LEMMA NextRenewalFacts ==
    ASSUME task \in [Tasks -> Task], NEW t \in Tasks, NEW q \in 0..(Abort + 1),
           NextRenewal(t, q)
    PROVE  /\ task' \in [Tasks -> Task]
           /\ task'[t].quiet = q /\ task'[t].ask \in {"idle", "asked"}
           /\ task'[t].pc = task[t].pc /\ task'[t].batch = task[t].batch
           /\ task'[t].ver = task[t].ver /\ task'[t].ok = task[t].ok
           /\ task'[t].lost = task[t].lost
           /\ \A u \in Tasks : u # t => task'[u] = task[u]
<1>1. task[t] \in Task /\ task[t].missed \in BOOLEAN
  BY DEF Task
<1>2. PICK m \in BOOLEAN, a \in {"idle", "asked"} :
        Become(t, [task[t] EXCEPT !.quiet = q, !.missed = m, !.ask = a])
  BY <1>1 DEF NextRenewal
<1> DEFINE r == [task[t] EXCEPT !.quiet = q, !.missed = m, !.ask = a]
<1>3. /\ r \in Task /\ r.quiet = q /\ r.ask = a /\ r.pc = task[t].pc
      /\ r.batch = task[t].batch /\ r.ver = task[t].ver /\ r.ok = task[t].ok
      /\ r.lost = task[t].lost
  BY <1>1, <1>2 DEF Task, Asks
<1>4. Become(t, r)
  BY <1>2
<1> HIDE DEF r
<1>5. QED
  BY <1>2, <1>3, <1>4, BecomeFacts

(* The statement of a renewal is executed.                                 *)
LEMMA RenewLeaseFacts ==
    ASSUME task \in [Tasks -> Task], NEW t \in Tasks, RenewLease(t)
    PROVE  /\ task' \in [Tasks -> Task]
           /\ task'[t].ask = IF Owns(t) THEN "done" ELSE "lost"
           /\ task'[t].quiet = task[t].quiet
           /\ task'[t].pc = task[t].pc /\ task'[t].batch = task[t].batch
           /\ task'[t].ver = task[t].ver /\ task'[t].ok = task[t].ok
           /\ task'[t].lost = task[t].lost
           /\ \A u \in Tasks : u # t => task'[u] = task[u]
<1> DEFINE a == IF Owns(t) THEN "done" ELSE "lost"
           r == [task[t] EXCEPT !.ask = a]
<1>1. task[t] \in Task /\ a \in Asks
  BY DEF Asks
<1>2. /\ r \in Task /\ r.quiet = task[t].quiet /\ r.ask = a /\ r.pc = task[t].pc
      /\ r.batch = task[t].batch /\ r.ver = task[t].ver /\ r.ok = task[t].ok
      /\ r.lost = task[t].lost
  BY <1>1 DEF Task
<1>3. Become(t, r)
  BY DEF RenewLease
<1> HIDE DEF r
<1>4. QED
  BY <1>2, <1>3, BecomeFacts

(* A tick, for a task that sweeps and for one that does not.               *)
LEMMA TickFacts ==
    ASSUME Inv1, Tick, NEW t \in Tasks
    PROVE  /\ task' \in [Tasks -> Task]
           /\ task'[t].pc = task[t].pc /\ task'[t].batch = task[t].batch
           /\ task'[t].ver = task[t].ver /\ task'[t].ok = task[t].ok
           /\ ~At(t, Sweeping) => task'[t] = task[t]
           /\ At(t, Sweeping) =>
                /\ task'[t] = Ticked(t)
                /\ task'[t].quiet = task[t].quiet + 1
                /\ task'[t].ask = IF task[t].ask = "idle" THEN "asked" ELSE task[t].ask
                /\ task'[t].lost \in {task[t].lost, task[t].lost + 1}
                /\ Owns(t) => task'[t].lost = task[t].lost
                /\ task[t].ask = "idle" \/ (Faulty /\ task[t].quiet < Abort)
<1>0. task \in [Tasks -> Task]
  BY DEF Inv1, TypeOK
<1>1. ASSUME NEW u \in Tasks, At(u, Sweeping)
      PROVE  /\ task'[u] = Ticked(u) /\ task'[u] \in Task
             /\ task'[u].pc = task[u].pc /\ task'[u].batch = task[u].batch
             /\ task'[u].ver = task[u].ver /\ task'[u].ok = task[u].ok
             /\ task'[u].quiet = task[u].quiet + 1
             /\ task'[u].ask = IF task[u].ask = "idle" THEN "asked" ELSE task[u].ask
             /\ task'[u].lost \in {task[u].lost, task[u].lost + 1}
             /\ Owns(u) => task'[u].lost = task[u].lost
             /\ task[u].ask = "idle" \/ (Faulty /\ task[u].quiet < Abort)
  <2>1. task'[u] = Ticked(u)
    BY <1>1 DEF Tick
  <2>2. task[u].ask = "idle" \/ (Faulty /\ task[u].quiet < Abort)
    BY <1>1 DEF Tick, MayWait
  <2>3. task[u] \in Task /\ (task[u].ask = "idle" => task[u].quiet <= Abort)
    BY <1>0, <1>1 DEF Inv1, IdleInTime, InTime, At
  <2>4. task[u].quiet + 1 \in 0..(Abort + 1)
    BY <2>2, <2>3, KeywordRecomputeAssumption DEF Task
  <2> DEFINE a == IF task[u].ask = "idle" THEN "asked" ELSE task[u].ask
             m == task[u].missed \/ task[u].ask # "idle"
             n == IF Owns(u) \/ task[u].lost = MaxLost THEN task[u].lost ELSE task[u].lost + 1
             q == task[u].quiet + 1
  <2>5. n \in 0..MaxLost /\ n \in {task[u].lost, task[u].lost + 1}
        /\ (Owns(u) => n = task[u].lost)
    <3>1. MaxLost \in Nat /\ task[u].lost \in 0..MaxLost
      BY <2>3, KeywordRecomputeAssumption DEF Task, MaxLost
    <3>2. QED
      BY <3>1
  <2>6. a \in Asks /\ m \in BOOLEAN
    BY <2>3 DEF Task, Asks
  <2>7. Ticked(u) = [task[u] EXCEPT !.quiet = q, !.ask = a, !.missed = m, !.lost = n]
    BY <2>3 DEF Ticked, Task
  <2>8. q \in 0..(Abort + 1)
    BY <2>4
  <2> HIDE DEF a, m, n, q
  <2> DEFINE r == [task[u] EXCEPT !.quiet = q, !.ask = a, !.missed = m, !.lost = n]
  <2>r. /\ r \in Task /\ r.pc = task[u].pc /\ r.batch = task[u].batch
        /\ r.ver = task[u].ver /\ r.ok = task[u].ok
        /\ r.quiet = q /\ r.ask = a /\ r.lost = n
    BY <2>3, <2>5, <2>6, <2>8 DEF Task
  <2>9. /\ task'[u] \in Task /\ task'[u].pc = task[u].pc /\ task'[u].batch = task[u].batch
        /\ task'[u].ver = task[u].ver /\ task'[u].ok = task[u].ok
        /\ task'[u].quiet = q /\ task'[u].ask = a /\ task'[u].lost = n
    BY <2>1, <2>7, <2>r
  <2>10. QED
    BY <2>1, <2>2, <2>5, <2>9 DEF a, q
<1>2. ASSUME NEW u \in Tasks, ~At(u, Sweeping) PROVE task'[u] = task[u]
  BY <1>2 DEF Tick
<1>3. task' \in [Tasks -> Task]
  <2>1. \A u \in Tasks : task'[u] \in Task
    BY <1>0, <1>1, <1>2
  <2>2. QED
    BY <2>1 DEF Tick
<1>4. QED
  BY <1>1, <1>2, <1>3

-----------------------------------------------------------------------------

(***************************************************************************)
(* Type correctness, and whose lease it is                                 *)
(***************************************************************************)

LEMMA Init1 == Init => Inv1
<1> SUFFICES ASSUME Init PROVE Inv1
  OBVIOUS
<1>1. Fresh("idle", 0) \in Task /\ Fresh("idle", 0).pc = "idle"
  BY FreshType, KeywordRecomputeAssumption DEF PCs
<1>2. task \in [Tasks -> Task] /\ \A t \in Tasks : task[t].pc = "idle"
  BY <1>1 DEF Init
<1>3. /\ live \in Versions /\ request \in 0..MaxVersion /\ marker \in 0..MaxVersion
      /\ rows \in [1..Batches -> 0..MaxVersion]
  BY KeywordRecomputeAssumption DEF Init, Versions
<1>4. lease \in [owner : Tasks \cup {Nobody}, age : 0..Stale] /\ lease.owner = Nobody
  BY KeywordRecomputeAssumption DEF Init, NoLease
<1>5. QED
  BY <1>2, <1>3, <1>4
  DEF Init, Inv1, TypeOK, LeaseIsLatest, BatchLeft, At, IdleInTime, InTime, Sweeping

(* Writing the lease row leaves a lease row.                               *)
LEMMA LeaseTypes ==
    ASSUME lease \in [owner : Tasks \cup {Nobody}, age : 0..Stale]
    PROVE  /\ NoLease \in [owner : Tasks \cup {Nobody}, age : 0..Stale]
           /\ NoLease.owner = Nobody
           /\ [lease EXCEPT !.age = 0] \in [owner : Tasks \cup {Nobody}, age : 0..Stale]
           /\ [lease EXCEPT !.age = 0].owner = lease.owner
           /\ [lease EXCEPT !.age = 0].age = 0
           /\ \A t \in Tasks : [owner |-> t, age |-> 0]
                                 \in [owner : Tasks \cup {Nobody}, age : 0..Stale]
BY KeywordRecomputeAssumption DEF NoLease

LEMMA Step1 == Inv1 /\ [Next]_vars => Inv1'
<1> SUFFICES ASSUME Inv1, [Next]_vars PROVE Inv1'
  OBVIOUS
<1> USE DEF Inv1
<1>0. /\ task \in [Tasks -> Task]
      /\ lease \in [owner : Tasks \cup {Nobody}, age : 0..Stale]
  BY DEF TypeOK
<1>s. Sweeping = {"sweep", "batched"} /\ "sweep" \in PCs /\ "batched" \in PCs
  BY DEF Sweeping, PCs
<1>a. live \in 0..MaxVersion
  BY KeywordRecomputeAssumption DEF TypeOK, Versions
<1>1. ASSUME NEW t \in Tasks, Trigger(t), UNCHANGED <<request, marker, lease, rows, history>>,
             live' \in Versions
      PROVE  Inv1'
  <2>1. Goto(t, "start") /\ "start" \in PCs
    BY <1>1 DEF Trigger, PCs, Scheduling
  <2>2. QED
    BY <1>0, <1>1, <1>s, <2>1, GotoFacts
    DEF TypeOK, LeaseIsLatest, BatchLeft, At, history, IdleInTime, InTime
<1>2. ASSUME NEW t \in Tasks, EditKeywords(t) PROVE Inv1'
  BY <1>1, <1>2 DEF EditKeywords, TypeOK
<1>3. ASSUME NEW t \in Tasks, Startup(t) PROVE Inv1'
  BY <1>1, <1>3 DEF Startup, TypeOK, db, history
<1>4. ASSUME NEW t \in Tasks, UNCHANGED <<db, history>>, task' \in [Tasks -> Task],
             task'[t].pc # "sweep" \/ task'[t].batch < Batches, InTime(task'[t]),
             \A u \in Tasks : u # t => task'[u] = task[u]
      PROVE  Inv1'
  BY <1>4 DEF TypeOK, LeaseIsLatest, BatchLeft, IdleInTime, At, db, history
<1>5. ASSUME NEW t \in Tasks, LoadLive(t) PROVE Inv1'
  <2> DEFINE r == [task[t] EXCEPT !.pc = "check", !.ver = live]
  <2>1. "check" \in PCs /\ task[t] \in Task
    BY <1>0 DEF PCs, Scheduling
  <2>2. r \in Task /\ r.pc = "check"
    BY <1>a, <2>1 DEF Task
  <2>3. Become(t, r)
    BY <1>5 DEF LoadLive
  <2> HIDE DEF r
  <2>4. QED
    BY <1>0, <1>4, <1>5, <1>s, <2>2, <2>3, BecomeFacts DEF LoadLive, InTime
<1>6. ASSUME NEW t \in Tasks, CheckMarker(t) PROVE Inv1'
  <2> DEFINE c == request # task[t].ver
             r == [task[t] EXCEPT !.pc = "request", !.changed = c]
  <2>1. "request" \in PCs /\ task[t] \in Task /\ c \in BOOLEAN
    BY <1>0 DEF PCs, Scheduling
  <2>2. End(t) \/ Become(t, r)
    BY <1>6 DEF CheckMarker
  <2> HIDE DEF c
  <2>3. r \in Task /\ r.pc = "request"
    BY <2>1 DEF Task
  <2> HIDE DEF r
  <2>4. QED
    BY <1>0, <1>4, <1>6, <1>s, <2>2, <2>3, BecomeFacts, RestFacts DEF CheckMarker, InTime
<1>7. ASSUME NEW t \in Tasks, NEW l \in PCs \ Sweeping, Goto(t, l), UNCHANGED <<db, history>>
      PROVE  Inv1'
  BY <1>0, <1>4, <1>7, <1>s, GotoFacts DEF InTime
<1>8. ASSUME NEW t \in Tasks, Loop(t) \/ End(t), UNCHANGED <<db, history>>
      PROVE  Inv1'
  BY <1>0, <1>4, <1>8, <1>s, RestFacts DEF InTime
<1>9. ASSUME NEW t \in Tasks, SetRequest(t) PROVE Inv1'
  <2>1. PICK l \in {"abort", "active"} : Goto(t, l)
    BY <1>9 DEF SetRequest
  <2>2. l \in PCs /\ task[t].ver \in 0..MaxVersion
    BY <1>0 DEF PCs, Scheduling, Task
  <2>3. QED
    BY <1>0, <1>9, <1>s, <2>1, <2>2, GotoFacts
    DEF SetRequest, TypeOK, LeaseIsLatest, BatchLeft, At, history, IdleInTime, InTime
<1>10. ASSUME NEW t \in Tasks, AbortRecomputeLease(t) PROVE Inv1'
  BY <1>0, <1>10, <1>s, RestFacts, LeaseTypes
  DEF AbortRecomputeLease, TypeOK, LeaseIsLatest, BatchLeft, At, history, IdleInTime, InTime
<1>11. ASSUME NEW t \in Tasks, CheckActive(t) PROVE Inv1'
  BY <1>8, <1>11 DEF CheckActive
<1>c. ASSUME NEW t \in Tasks, task[t].tries # MaxAttempts, UNCHANGED <<db, history>>,
             Become(t, [task[t] EXCEPT !.pc = "claim", !.ver = live, !.tries = @ + 1])
      PROVE  Inv1'
  <2> DEFINE r == [task[t] EXCEPT !.pc = "claim", !.ver = live, !.tries = @ + 1]
  <2>1. task[t].tries + 1 \in 0..MaxAttempts
    BY <1>0, <1>c, KeywordRecomputeAssumption DEF Task
  <2>2. r \in Task /\ r.pc = "claim"
    <3>1. "claim" \in PCs /\ task[t] \in Task
      BY <1>0 DEF PCs
    <3>2. QED
      BY <1>a, <2>1, <3>1 DEF Task
  <2>3. Become(t, r)
    BY <1>c
  <2> HIDE DEF r
  <2>4. QED
    BY <1>0, <1>4, <1>c, <1>s, <2>2, <2>3, BecomeFacts DEF InTime
<1>12. ASSUME NEW t \in Tasks, Attempt(t) PROVE Inv1'
  BY <1>8, <1>12, <1>c DEF Attempt
<1>13. ASSUME NEW t \in Tasks, ClaimLease(t) PROVE Inv1'
  <2>1. CASE ~Held \/ Expired
    <3>1. /\ lease' = [owner |-> t, age |-> 0] /\ latest' = t /\ Goto(t, "claimed")
          /\ UNCHANGED <<live, request, marker, rows, aborted, late>>
      BY <1>13, <2>1 DEF ClaimLease
    <3>2. QED
      BY <1>0, <1>s, <3>1, GotoFacts, LeaseTypes
      DEF TypeOK, LeaseIsLatest, BatchLeft, At, PCs, IdleInTime, InTime
  <2>2. CASE ~(~Held \/ Expired)
    BY <1>8, <1>13, <2>2 DEF ClaimLease, db, history
  <2>3. QED
    BY <2>1, <2>2
<1>14. ASSUME NEW t \in Tasks, Recheck(t) PROVE Inv1'
  BY <1>7, <1>14, <1>s DEF Recheck, PCs
<1>15. ASSUME NEW t \in Tasks, ConfirmLease(t) PROVE Inv1'
  <2> DEFINE r == [task[t] EXCEPT !.pc = "confirm", !.ok = Owns(t)]
  <2>1. r \in Task /\ r.pc = "confirm"
    <3>1. "confirm" \in PCs /\ task[t] \in Task /\ Owns(t) \in BOOLEAN
      BY <1>0 DEF PCs, Owns
    <3>2. QED
      BY <3>1 DEF Task
  <2>2. Become(t, r)
    BY <1>15 DEF ConfirmLease
  <2>3. /\ lease' \in [owner : Tasks \cup {Nobody}, age : 0..Stale]
        /\ lease'.owner = lease.owner
    BY <1>0, <1>15, LeaseTypes DEF ConfirmLease
  <2> HIDE DEF r
  <2>4. QED
    BY <1>0, <1>15, <1>s, <2>1, <2>2, <2>3, BecomeFacts
    DEF ConfirmLease, TypeOK, LeaseIsLatest, BatchLeft, At, history, IdleInTime, InTime
<1>e. ASSUME NEW t \in Tasks, StartSweep(t) PROVE Inv1'
  <2>1. CASE Become(t, Begin(t))
    <3>1. 0 < Batches
      BY KeywordRecomputeAssumption
    <3>2. QED
      BY <1>0, <1>4, <1>e, <2>1, <3>1, BeginFacts DEF StartSweep, InTime
  <2>2. QED
    BY <1>8, <1>e, <2>1 DEF StartSweep
<1>16. ASSUME NEW t \in Tasks, SweepBatch(t) PROVE Inv1'
  <2> DEFINE r == [task[t] EXCEPT !.pc = "batched", !.batch = @ + 1]
  <2>1. task[t].batch \in 0..Batches /\ task[t].batch < Batches
        /\ task[t].ver \in 0..MaxVersion
    BY <1>0, <1>16 DEF SweepBatch, BatchLeft, At, Task
  <2>2. task[t].batch + 1 \in 1..Batches
    BY <2>1, KeywordRecomputeAssumption
  <2>3. r \in Task /\ r.pc = "batched" /\ r.ask = task[t].ask /\ r.quiet = task[t].quiet
    <3>1. "batched" \in PCs /\ task[t] \in Task /\ task[t].batch + 1 \in 0..Batches
      BY <1>0, <2>2 DEF PCs, Sweeping
    <3>2. QED
      BY <3>1 DEF Task
  <2>4. rows' \in [1..Batches -> 0..MaxVersion]
    BY <1>16, <2>1 DEF SweepBatch, TypeOK
  <2>5. Become(t, r)
    BY <1>16 DEF SweepBatch
  <2> HIDE DEF r
  <2>6. QED
    BY <1>0, <1>16, <1>s, <2>3, <2>4, <2>5, BecomeFacts
    DEF SweepBatch, TypeOK, LeaseIsLatest, BatchLeft, At, IdleInTime, InTime
<1>17. ASSUME NEW t \in Tasks, NEW s \in BOOLEAN, Become(t, Swept(t, s)),
              UNCHANGED <<db, history>>
       PROVE  Inv1'
  BY <1>0, <1>4, <1>17, <1>s, SweptFacts DEF InTime
<1>b. ASSUME NEW t \in Tasks, At(t, {"batched"}), NEW s \in BOOLEAN, BatchDone(t, s),
             UNCHANGED <<db, history>>
      PROVE  Inv1'
  <2>1. CASE Goto(t, "sweep") /\ task[t].batch # Batches
    <3>0. InTime(task[t]) /\ task[t].pc \in Sweeping
      BY <1>b, <1>s DEF IdleInTime, At
    <3>1. task[t].batch < Batches
      BY <1>0, <2>1, KeywordRecomputeAssumption DEF Task
    <3>2. QED
      BY <1>0, <1>4, <1>b, <2>1, <3>1, <3>0, GotoFacts DEF PCs, Sweeping, InTime, IdleInTime, At
  <2>2. CASE \E v \in BOOLEAN : Become(t, Swept(t, v))
    BY <1>17, <1>b, <2>2
  <2>3. QED
    BY <1>b, <2>1, <2>2 DEF BatchDone
<1>18. ASSUME NEW t \in Tasks, AfterBatch(t) PROVE Inv1'
  BY <1>b, <1>18 DEF AfterBatch, Superseded
<1>19. ASSUME NEW t \in Tasks, RenewLease(t) PROVE Inv1'
  <2>1. /\ lease' \in [owner : Tasks \cup {Nobody}, age : 0..Stale]
        /\ lease'.owner = lease.owner
    BY <1>0, <1>19, LeaseTypes DEF RenewLease
  <2>2. QED
    BY <1>0, <1>19, <2>1, RenewLeaseFacts
    DEF RenewLease, TypeOK, LeaseIsLatest, BatchLeft, At, history, IdleInTime, InTime
<1>f. ASSUME NEW t \in Tasks, NEW q \in 0..Abort, NextRenewal(t, q), UNCHANGED <<db, history>>
      PROVE  Inv1'
  <2>1. q \in 0..(Abort + 1) /\ q <= Abort
    BY KeywordRecomputeAssumption
  <2>2. task[t].pc # "sweep" \/ task[t].batch < Batches
    BY DEF BatchLeft, At
  <2>3. QED
    BY <1>0, <1>4, <1>f, <2>1, <2>2, NextRenewalFacts DEF InTime
<1>20. ASSUME NEW t \in Tasks, RenewConfirmed(t) PROVE Inv1'
  <2>1. 0 \in 0..Abort
    BY KeywordRecomputeAssumption
  <2>2. QED
    BY <1>f, <1>20, <2>1 DEF RenewConfirmed
<1>g. ASSUME NEW t \in Tasks, RenewLost(t) PROVE Inv1'
  BY <1>17, <1>g DEF RenewLost
<1>h. ASSUME NEW t \in Tasks, RenewFails(t) PROVE Inv1'
  <2>1. CASE Become(t, Swept(t, FALSE))
    BY <1>17, <1>h, <2>1 DEF RenewFails
  <2>2. CASE task[t].quiet <= Abort /\ NextRenewal(t, task[t].quiet)
    <3>1. task[t].quiet \in 0..Abort
      BY <1>0, <2>2, KeywordRecomputeAssumption DEF Task
    <3>2. QED
      BY <1>f, <1>h, <2>2, <3>1 DEF RenewFails
  <2>3. QED
    BY <1>h, <2>1, <2>2 DEF RenewFails
<1>21. ASSUME NEW t \in Tasks, Judge(t) PROVE Inv1'
  BY <1>7, <1>21, <1>s DEF Judge, AfterSweep, PCs
<1>22. ASSUME NEW t \in Tasks, PublishMarker(t) PROVE Inv1'
  <2>1. task[t].ver \in 0..MaxVersion /\ "back" \in PCs
    BY <1>0 DEF Task, PCs
  <2>2. /\ marker' \in 0..MaxVersion
        /\ lease' \in [owner : Tasks \cup {Nobody}, age : 0..Stale]
        /\ lease'.owner = lease.owner
    BY <1>0, <1>22, <2>1, LeaseTypes DEF PublishMarker, TypeOK
  <2>3. QED
    BY <1>0, <1>22, <1>s, <2>1, <2>2, GotoFacts
    DEF PublishMarker, TypeOK, LeaseIsLatest, BatchLeft, At, history, IdleInTime, InTime
<1>23. ASSUME NEW t \in Tasks, ReleaseLease(t) PROVE Inv1'
  <2>1. /\ lease' \in [owner : Tasks \cup {Nobody}, age : 0..Stale]
        /\ lease'.owner \in {Nobody, latest}
    BY <1>0, <1>23, LeaseTypes DEF ReleaseLease, LeaseIsLatest
  <2>2. QED
    BY <1>0, <1>23, <1>s, <2>1, RestFacts
    DEF ReleaseLease, TypeOK, LeaseIsLatest, BatchLeft, At, history, IdleInTime, InTime
<1>24. ASSUME NEW t \in Tasks, StatementFails(t) PROVE Inv1'
  <2>1. CASE At(t, {"loop"}) /\ task[t].tries < MaxAttempts
             /\ Become(t, Fresh("loop", task[t].tries + 1))
    <3>1. task[t].tries + 1 \in 0..MaxAttempts
      BY <1>0, <2>1, KeywordRecomputeAssumption DEF Task
    <3>2. Fresh("loop", task[t].tries + 1) \in Task
          /\ Fresh("loop", task[t].tries + 1).pc = "loop"
      BY <3>1, FreshType DEF PCs
    <3>3. QED
      BY <1>0, <1>4, <1>24, <1>s, <2>1, <3>2, BecomeFacts DEF StatementFails, InTime
  <2>2. CASE \E l \in {"abort", "active", "back"} : Goto(t, l)
    BY <1>7, <1>24, <1>s, <2>2 DEF StatementFails, PCs, Scheduling
  <2>3. CASE Loop(t) \/ End(t)
    BY <1>8, <1>24, <2>3 DEF StatementFails
  <2>4. CASE Become(t, Swept(t, FALSE))
    BY <1>17, <1>24, <2>4 DEF StatementFails
  <2>5. QED
    BY <1>24, <2>1, <2>2, <2>3, <2>4 DEF StatementFails
<1>d. ASSUME NEW t \in Tasks, ReadFails(t) PROVE Inv1'
  <2>1. CASE At(t, {"check"}) /\ \E c \in {TRUE, request # task[t].ver} :
               Become(t, [task[t] EXCEPT !.pc = "request", !.changed = c])
    <3>1. PICK c \in BOOLEAN : Become(t, [task[t] EXCEPT !.pc = "request", !.changed = c])
      BY <2>1
    <3>2. [task[t] EXCEPT !.pc = "request", !.changed = c] \in Task
      <4>1. "request" \in PCs /\ task[t] \in Task
        BY <1>0 DEF PCs, Scheduling
      <4>2. QED
        BY <3>1, <4>1 DEF Task
    <3>3. [task[t] EXCEPT !.pc = "request", !.changed = c].pc = "request"
      BY <1>0 DEF Task
    <3>4. QED
      BY <1>0, <1>4, <1>d, <1>s, <3>1, <3>2, <3>3, BecomeFacts DEF ReadFails, InTime
  <2>2. CASE At(t, {"loop"}) /\ task[t].tries < MaxAttempts
             /\ Become(t, [task[t] EXCEPT !.pc = "claim", !.ver = live, !.tries = @ + 1])
    <3>1. task[t].tries # MaxAttempts
      BY <1>0, <2>2, KeywordRecomputeAssumption DEF Task
    <3>2. QED
      BY <1>c, <1>d, <2>2, <3>1 DEF ReadFails
  <2>3. CASE \E l \in {"renew", "back", "publish"} : Goto(t, l)
    BY <1>7, <1>d, <1>s, <2>3 DEF ReadFails, PCs
  <2>4. CASE At(t, {"batched"}) /\ \E s \in BOOLEAN : BatchDone(t, s)
    BY <1>b, <1>d, <2>4 DEF ReadFails
  <2>5. QED
    BY <1>d, <2>1, <2>2, <2>3, <2>4 DEF ReadFails, AfterSweep
<1>25. ASSUME NEW t \in Tasks, Die(t) PROVE Inv1'
  BY <1>8, <1>25 DEF Die
<1>26. CASE Tick
  <2>1. /\ lease' \in [owner : Tasks \cup {Nobody}, age : 0..Stale]
        /\ lease'.owner = lease.owner
    BY <1>0, <1>26, KeywordRecomputeAssumption DEF Tick
  <2>2. task' \in [Tasks -> Task]
    <3>1. CASE Tasks = {}
      BY <1>0, <1>26, <3>1 DEF Tick
    <3>2. CASE \E t \in Tasks : TRUE
      BY <1>26, <3>2, TickFacts
    <3>3. QED
      BY <3>1, <3>2
  <2>3. ASSUME NEW t \in Tasks
        PROVE  /\ task'[t].pc = task[t].pc /\ task'[t].batch = task[t].batch
               /\ InTime(task'[t])
    <3>1. CASE At(t, Sweeping)
      BY <1>26, <3>1, TickFacts DEF InTime
    <3>2. CASE ~At(t, Sweeping)
      BY <1>26, <3>2, TickFacts DEF IdleInTime
    <3>3. QED
      BY <3>1, <3>2
  <2>4. QED
    BY <1>26, <2>1, <2>2, <2>3
    DEF Tick, TypeOK, LeaseIsLatest, BatchLeft, IdleInTime, At, history
<1>27. CASE UNCHANGED vars
  BY <1>27 DEF vars, TypeOK, LeaseIsLatest, BatchLeft, At, IdleInTime, InTime
<1>28. QED
  BY <1>2, <1>3, <1>5, <1>6, <1>9, <1>10, <1>11, <1>12, <1>13, <1>14, <1>15, <1>16,
     <1>18, <1>19, <1>20, <1>21, <1>22, <1>23, <1>24, <1>25, <1>26, <1>27, <1>d, <1>e,
     <1>g, <1>h
  DEF Next, Schedule, SingleFlight, Renew

(* Every state is well typed: no statement, retry or fault leads out of    *)
(* the types of the rows and of the tasks (state.rs).                      *)
THEOREM TypeCorrect == Spec => []TypeOK
<1>1. Inv1 => TypeOK
  BY DEF Inv1
<1>2. QED
  BY <1>1, Init1, Step1, PTL DEF Spec

(* "a stale holder can never overwrite a successor's completion marker":   *)
(* publish_marker_fenced only ever writes for the task that claimed the    *)
(* lease last.                                                             *)
THEOREM MarkerIsFenced == Spec => PublishedByLatest
<1>1. Inv1 /\ [Next]_vars =>
        [marker' # marker =>
           \E t \in Tasks : At(t, {"publish"}) /\ latest = t /\ marker' = task[t].ver]_vars
  <2> SUFFICES ASSUME Inv1, Next, marker' # marker
               PROVE  \E t \in Tasks : At(t, {"publish"}) /\ latest = t /\ marker' = task[t].ver
    BY DEF vars
  <2>1. PICK t \in Tasks : PublishMarker(t)
    BY DEF Next, Schedule, SingleFlight, EditKeywords, Startup, LoadLive, CheckMarker,
           SetRequest, AbortRecomputeLease, CheckActive, Attempt, ClaimLease, Recheck,
           ConfirmLease, StartSweep, SweepBatch, AfterBatch, Judge, ReleaseLease, Renew,
           RenewLease, RenewConfirmed, RenewLost, RenewFails, StatementFails, ReadFails,
           Die, Tick, db
  <2>2. lease.owner = t /\ marker' = task[t].ver /\ At(t, {"publish"})
    BY <2>1 DEF PublishMarker, Owns
  <2>3. QED
    BY <2>2, KeywordRecomputeAssumption DEF Inv1, LeaseIsLatest
<1>2. QED
  BY <1>1, Init1, Step1, PTL DEF Spec, PublishedByLatest

-----------------------------------------------------------------------------

(***************************************************************************)
(* Exclusive sweeps                                                        *)
(***************************************************************************)

(* What a step is for the sweeps and their lease: most leave both alone.   *)
Others(t) == \A u \in Tasks : u # t => task'[u] = task[u]
Outside(t) == task'[t].pc \notin Sweeping \cup {"confirm"}
SweepsOn(t) ==
    /\ task[t].pc \in Sweeping /\ task'[t].pc \in Sweeping
    /\ task'[t].quiet = task[t].quiet /\ task'[t].ask = task[t].ask
    /\ task'[t].lost = task[t].lost
Aside(t) ==
    lease' = lease /\ aborted' = aborted /\ Others(t) /\ (Outside(t) \/ SweepsOn(t))
Deletes(t) ==
    /\ lease'.owner = Nobody /\ aborted' = (aborted \/ Held)
    /\ Others(t) /\ Outside(t)
Claims(t) ==
    /\ ~Held \/ Expired
    /\ lease'.owner = t /\ aborted' = aborted /\ Others(t) /\ Outside(t)
OwnerWrites(t) ==
    /\ Owns(t) /\ lease'.owner \in {t, Nobody}
    /\ aborted' = aborted /\ Others(t) /\ Outside(t)
GoesOn(t) ==
    /\ Faulty /\ task[t].pc \in Sweeping
    /\ lease' = lease /\ aborted' = aborted /\ Others(t)
    /\ task'[t].quiet = task[t].quiet /\ task'[t].lost = task[t].lost
    /\ task'[t].ask \in {"idle", "asked"}
Shape(t) ==
    \/ Aside(t) \/ Deletes(t) \/ Claims(t) \/ OwnerWrites(t) \/ GoesOn(t)
    \/ ConfirmLease(t) \/ RenewLease(t) \/ RenewConfirmed(t)
    \/ StartSweep(t) /\ task[t].ok /\ Become(t, Begin(t))

LEMMA StepShape ==
    ASSUME Inv1, [Next]_vars
    PROVE  (\E t \in Tasks : Shape(t)) \/ Tick \/ UNCHANGED vars
<1>0. /\ task \in [Tasks -> Task]
      /\ lease \in [owner : Tasks \cup {Nobody}, age : 0..Stale]
  BY DEF Inv1, TypeOK
<1>a. PCs = {"idle", "loop", "claim", "claimed", "renew", "confirm", "swept", "publish",
             "back", "leave", "ended", "start", "check", "request", "abort", "active",
             "sweep", "batched"}
      /\ Sweeping = {"sweep", "batched"}
  BY DEF PCs, Scheduling, Sweeping
<1>1. ASSUME NEW t \in Tasks, lease' = lease, aborted' = aborted, Others(t), Outside(t)
      PROVE  Shape(t)
  BY <1>1 DEF Shape, Aside
<1>2. ASSUME NEW t \in Tasks, NEW l \in PCs \ (Sweeping \cup {"confirm"}), Goto(t, l)
      PROVE  Others(t) /\ Outside(t)
  BY <1>0, <1>2, GotoFacts DEF Others, Outside
<1>3. ASSUME NEW t \in Tasks, Loop(t) \/ End(t)
      PROVE  Others(t) /\ Outside(t)
  BY <1>0, <1>3, <1>a, RestFacts DEF Others, Outside
<1>4. ASSUME NEW t \in Tasks, NEW s \in BOOLEAN, Become(t, Swept(t, s))
      PROVE  Others(t) /\ Outside(t)
  BY <1>0, <1>4, <1>a, SweptFacts DEF Others, Outside
<1>5. ASSUME NEW t \in Tasks, NEW l \in {"check", "request", "claim", "loop"}, NEW r,
             r.pc = l, Become(t, r)
      PROVE  Others(t) /\ Outside(t)
  BY <1>0, <1>5, <1>a DEF Others, Outside, Become
<1>b. ASSUME NEW t \in Tasks, At(t, {"batched"}), NEW s \in BOOLEAN, BatchDone(t, s),
             lease' = lease, aborted' = aborted
      PROVE  Shape(t)
  <2>1. CASE Goto(t, "sweep")
    <3>1. task[t].pc = "batched" /\ "sweep" \in PCs
      BY <1>b, <1>a DEF At
    <3>2. SweepsOn(t) /\ Others(t)
      BY <1>0, <1>a, <2>1, <3>1, GotoFacts DEF SweepsOn, Others
    <3>3. QED
      BY <1>b, <3>2 DEF Shape, Aside
  <2>2. QED
    BY <1>1, <1>4, <1>b, <2>1 DEF BatchDone
<1>6. ASSUME NEW t \in Tasks, EditKeywords(t) \/ Startup(t) PROVE Shape(t)
  BY <1>1, <1>2, <1>6, <1>a DEF EditKeywords, Startup, Trigger, db, history
<1>7. ASSUME NEW t \in Tasks, LoadLive(t) PROVE Shape(t)
  <2>1. [task[t] EXCEPT !.pc = "check", !.ver = live].pc = "check"
    BY <1>0 DEF Task
  <2>2. QED
    BY <1>1, <1>5, <1>7, <2>1 DEF LoadLive, db, history
<1>8. ASSUME NEW t \in Tasks, CheckMarker(t) PROVE Shape(t)
  <2>1. \A c : [task[t] EXCEPT !.pc = "request", !.changed = c].pc = "request"
    BY <1>0 DEF Task
  <2>2. QED
    <3>1. CASE End(t)
      BY <1>1, <1>3, <1>8, <3>1 DEF CheckMarker, db, history
    <3> DEFINE r == [task[t] EXCEPT !.pc = "request", !.changed = request # task[t].ver]
    <3>2. CASE Become(t, r)
      <4>1. r.pc = "request"
        BY <2>1
      <4> HIDE DEF r
      <4>2. Others(t) /\ Outside(t)
        BY <1>5, <3>2, <4>1
      <4>3. QED
        BY <1>1, <1>8, <4>2 DEF CheckMarker, db, history
    <3>3. QED
      BY <1>8, <3>1, <3>2 DEF CheckMarker
<1>9. ASSUME NEW t \in Tasks, SetRequest(t) PROVE Shape(t)
  BY <1>1, <1>2, <1>9, <1>a DEF SetRequest, history
<1>10. ASSUME NEW t \in Tasks, AbortRecomputeLease(t) PROVE Shape(t)
  BY <1>3, <1>10, LeaseTypes, <1>0 DEF AbortRecomputeLease, Shape, Deletes
<1>11. ASSUME NEW t \in Tasks, CheckActive(t) PROVE Shape(t)
  BY <1>1, <1>3, <1>11 DEF CheckActive, db, history
<1>12. ASSUME NEW t \in Tasks, Attempt(t) PROVE Shape(t)
  <2>1. [task[t] EXCEPT !.pc = "claim", !.ver = live, !.tries = @ + 1].pc = "claim"
    BY <1>0 DEF Task
  <2>2. QED
    BY <1>1, <1>3, <1>5, <1>12, <2>1 DEF Attempt, db, history
<1>13. ASSUME NEW t \in Tasks, ClaimLease(t) PROVE Shape(t)
  <2>1. CASE ~Held \/ Expired
    BY <1>2, <1>13, <1>a, <2>1 DEF ClaimLease, Shape, Claims
  <2>2. CASE ~(~Held \/ Expired)
    BY <1>1, <1>3, <1>13, <2>2 DEF ClaimLease
  <2>3. QED
    BY <2>1, <2>2
<1>14. ASSUME NEW t \in Tasks, Recheck(t) PROVE Shape(t)
  BY <1>1, <1>2, <1>14, <1>a DEF Recheck, db, history
<1>15. ASSUME NEW t \in Tasks, StartSweep(t) PROVE Shape(t)
  BY <1>1, <1>3, <1>15 DEF StartSweep, Shape, db, history
<1>16. ASSUME NEW t \in Tasks, SweepBatch(t) PROVE Shape(t)
  <2>1. SweepsOn(t) /\ Others(t)
    BY <1>0, <1>16, <1>a DEF SweepBatch, Become, At, Task, SweepsOn, Others
  <2>2. QED
    BY <1>16, <2>1 DEF SweepBatch, Shape, Aside
<1>17. ASSUME NEW t \in Tasks, AfterBatch(t) PROVE Shape(t)
  BY <1>b, <1>17 DEF AfterBatch, Superseded, db, history
<1>18. ASSUME NEW t \in Tasks, RenewLost(t) PROVE Shape(t)
  BY <1>1, <1>4, <1>18 DEF RenewLost, db, history
<1>19. ASSUME NEW t \in Tasks, RenewFails(t) PROVE Shape(t)
  <2>1. lease' = lease /\ aborted' = aborted /\ Faulty /\ task[t].pc \in Sweeping
    BY <1>19 DEF RenewFails, db, history, At
  <2>2. CASE Become(t, Swept(t, FALSE))
    BY <1>1, <1>4, <2>1, <2>2
  <2>3. CASE NextRenewal(t, task[t].quiet)
    <3>1. task[t].quiet \in 0..(Abort + 1)
      BY <1>0 DEF Task
    <3>2. QED
      BY <1>0, <2>1, <2>3, <3>1, NextRenewalFacts DEF Shape, GoesOn, Others
  <2>4. QED
    BY <1>19, <2>2, <2>3 DEF RenewFails
<1>20. ASSUME NEW t \in Tasks, Judge(t) PROVE Shape(t)
  BY <1>1, <1>2, <1>20, <1>a DEF Judge, AfterSweep, db, history
<1>21. ASSUME NEW t \in Tasks, PublishMarker(t) PROVE Shape(t)
  <2>1. CASE Owns(t)
    BY <1>0, <1>2, <1>21, <1>a, <2>1, LeaseTypes
    DEF PublishMarker, history, Shape, OwnerWrites, Owns
  <2>2. CASE ~Owns(t)
    BY <1>1, <1>2, <1>21, <1>a, <2>2 DEF PublishMarker, history
  <2>3. QED
    BY <2>1, <2>2
<1>22. ASSUME NEW t \in Tasks, ReleaseLease(t) PROVE Shape(t)
  <2>1. CASE Owns(t)
    BY <1>0, <1>3, <1>22, <2>1, LeaseTypes
    DEF ReleaseLease, history, Shape, OwnerWrites
  <2>2. CASE ~Owns(t)
    BY <1>1, <1>3, <1>22, <2>2 DEF ReleaseLease, history
  <2>3. QED
    BY <2>1, <2>2
<1>23. ASSUME NEW t \in Tasks, StatementFails(t) PROVE Shape(t)
  <2>1. lease' = lease /\ aborted' = aborted
    BY <1>23 DEF StatementFails, db, history
  <2>2. CASE Become(t, Fresh("loop", task[t].tries + 1))
    BY <1>1, <1>5, <2>1, <2>2 DEF Fresh
  <2>3. CASE \E l \in {"abort", "active", "back"} : Goto(t, l)
    BY <1>1, <1>2, <1>a, <2>1, <2>3
  <2>4. CASE Loop(t) \/ End(t)
    BY <1>1, <1>3, <2>1, <2>4
  <2>5. CASE Become(t, Swept(t, FALSE))
    BY <1>1, <1>4, <2>1, <2>5
  <2>6. QED
    BY <1>23, <2>2, <2>3, <2>4, <2>5 DEF StatementFails
<1>24. ASSUME NEW t \in Tasks, ReadFails(t) PROVE Shape(t)
  <2>1. lease' = lease /\ aborted' = aborted
    BY <1>24 DEF ReadFails, db, history
  <2>2. CASE \E c \in BOOLEAN :
               Become(t, [task[t] EXCEPT !.pc = "request", !.changed = c])
    <3>1. \A c : [task[t] EXCEPT !.pc = "request", !.changed = c].pc = "request"
      BY <1>0 DEF Task
    <3>2. QED
      BY <1>1, <1>5, <2>1, <2>2, <3>1
  <2>3. CASE Become(t, [task[t] EXCEPT !.pc = "claim", !.ver = live, !.tries = @ + 1])
    <3>1. [task[t] EXCEPT !.pc = "claim", !.ver = live, !.tries = @ + 1].pc = "claim"
      BY <1>0 DEF Task
    <3>2. QED
      BY <1>1, <1>5, <2>1, <2>3, <3>1
  <2>4. CASE \E l \in {"renew", "back", "publish"} : Goto(t, l)
    BY <1>1, <1>2, <1>a, <2>1, <2>4
  <2>5. CASE At(t, {"batched"}) /\ \E s \in BOOLEAN : BatchDone(t, s)
    BY <1>b, <2>1, <2>5
  <2>6. QED
    BY <1>24, <2>2, <2>3, <2>4, <2>5 DEF ReadFails, AfterSweep
<1>25. ASSUME NEW t \in Tasks, Die(t) PROVE Shape(t)
  BY <1>1, <1>3, <1>25 DEF Die, db, history
<1>26. ASSUME NEW t \in Tasks, ConfirmLease(t) \/ RenewLease(t) \/ RenewConfirmed(t)
       PROVE  Shape(t)
  BY <1>26 DEF Shape
<1>27. QED
  BY <1>6, <1>7, <1>8, <1>9, <1>10, <1>11, <1>12, <1>13, <1>14, <1>15, <1>16, <1>17,
     <1>18, <1>19, <1>20, <1>21, <1>22, <1>23, <1>24, <1>25, <1>26
  DEF Next, Schedule, SingleFlight, Renew

(* While no statement fails and no lease is deleted under its holder, a    *)
(* sweeping task owns the lease, which was renewed within the last tick or *)
(* is about to be; so does a task whose confirmation is on its way back.   *)
SweepOwned ==
    ~aborted => \A t \in Tasks :
        /\ At(t, Sweeping) =>
             /\ Owns(t) /\ task[t].ask # "lost"
             /\ lease.age <= IF task[t].ask = "asked" THEN 1 ELSE 0
        /\ At(t, {"confirm"}) /\ task[t].ok => Owns(t) /\ lease.age <= 0

LEMMA SweepOwnedStep == ~Faulty /\ Inv1 /\ SweepOwned /\ [Next]_vars => SweepOwned'
<1> SUFFICES ASSUME ~Faulty, Inv1, SweepOwned, [Next]_vars, ~aborted' PROVE SweepOwned'
  BY DEF SweepOwned
<1>0. /\ task \in [Tasks -> Task]
      /\ lease \in [owner : Tasks \cup {Nobody}, age : 0..Stale]
      /\ lease.age \in Nat /\ Stale \in Nat /\ Stale > 1 /\ Nobody \notin Tasks
  BY KeywordRecomputeAssumption DEF Inv1, TypeOK
(* Other tasks keep what they had if the lease stays, or goes to nobody.   *)
<1>1. ASSUME NEW t \in Tasks, Others(t), ~aborted,
             \/ Outside(t)
             \/ /\ task'[t].pc \in Sweeping
                /\ lease'.owner = t /\ task'[t].ask # "lost"
                /\ lease'.age <= IF task'[t].ask = "asked" THEN 1 ELSE 0
             \/ /\ task'[t].pc = "confirm"
                /\ task'[t].ok => lease'.owner = t /\ lease'.age <= 0,
             \A u \in Tasks \ {t} : Owns(u) =>
                lease' = lease \/ (task[u].pc \notin Sweeping \cup {"confirm"})
      PROVE  SweepOwned'
  <2>1. ASSUME NEW u \in Tasks
        PROVE  /\ task'[u].pc \in Sweeping =>
                    /\ lease'.owner = u /\ task'[u].ask # "lost"
                    /\ lease'.age <= IF task'[u].ask = "asked" THEN 1 ELSE 0
               /\ task'[u].pc = "confirm" /\ task'[u].ok => lease'.owner = u /\ lease'.age <= 0
    <3>1. CASE u = t
      BY <1>1, <3>1 DEF Outside, Sweeping
    <3>2. CASE u # t
      <4>1. task'[u] = task[u]
        BY <1>1, <3>2 DEF Others
      <4>2. CASE (task[u].pc \in Sweeping \/ (task[u].pc = "confirm" /\ task[u].ok)) /\ Owns(u)
        <5>1. lease' = lease
          BY <1>1, <3>2, <4>2
        <5>2. QED
          BY <1>1, <4>1, <5>1 DEF SweepOwned, At, Owns
      <4>3. QED
        BY <1>1, <4>1, <4>2 DEF SweepOwned, At
    <3>3. QED
      BY <3>1, <3>2
  <2>2. QED
    BY <2>1 DEF SweepOwned, At, Owns
(* Nobody else sweeps, or waits to, on the lease the task owns.            *)
<1>2. ASSUME NEW t \in Tasks, Owns(t) PROVE \A u \in Tasks \ {t} : ~Owns(u)
  BY <1>2 DEF Owns
<1>3. ASSUME NEW t \in Tasks, Shape(t) PROVE SweepOwned'
  <2>1. CASE Aside(t)
    <3>1. CASE Outside(t)
      BY <1>1, <2>1, <3>1 DEF Aside
    <3>2. CASE SweepsOn(t)
      BY <1>1, <2>1, <3>2 DEF Aside, SweepsOn, SweepOwned, At, Owns
    <3>3. QED
      BY <2>1, <3>1, <3>2 DEF Aside
  <2>2. CASE Deletes(t)
    <3>1. ~aborted /\ lease.owner = Nobody
      BY <2>2 DEF Deletes, Held
    <3>2. \A u \in Tasks : ~Owns(u)
      BY <1>0, <3>1 DEF Owns
    <3>3. QED
      BY <1>1, <2>2, <3>1, <3>2 DEF Deletes
  <2>3. CASE Claims(t)
    <3>1. ~aborted
      BY <2>3 DEF Claims
    <3>2. ASSUME NEW u \in Tasks, Owns(u)
          PROVE  task[u].pc \notin Sweeping /\ ~(task[u].pc = "confirm" /\ task[u].ok)
      <4>1. lease.age >= Stale
        BY <1>0, <2>3, <3>2 DEF Claims, Held, Expired, Owns
      <4>2. QED
        BY <1>0, <3>1, <4>1 DEF SweepOwned, At
    <3>3. ASSUME NEW u \in Tasks
          PROVE  task'[u].pc \notin Sweeping /\ ~(task'[u].pc = "confirm" /\ task'[u].ok)
      <4>1. CASE u = t
        BY <2>3, <4>1 DEF Claims, Outside
      <4>2. CASE u # t
        <5>1. task'[u] = task[u]
          BY <2>3, <4>2 DEF Claims, Others
        <5>2. QED
          BY <3>1, <3>2, <5>1 DEF SweepOwned, At
      <4>3. QED
        BY <4>1, <4>2
    <3>4. QED
      BY <3>3 DEF SweepOwned, At
  <2>4. CASE OwnerWrites(t)
    BY <1>1, <1>2, <2>4 DEF OwnerWrites
  <2>5. CASE ConfirmLease(t)
    <3>1. /\ task'[t].pc = "confirm" /\ task'[t].ok = Owns(t) /\ Others(t)
          /\ aborted' = aborted
      BY <1>0, <2>5 DEF ConfirmLease, Become, Task, Others, history
    <3>2. CASE Owns(t)
      <4>1. lease'.owner = t /\ lease'.age = 0
        BY <1>0, <2>5, <3>2, LeaseTypes DEF ConfirmLease, Owns
      <4>2. QED
        BY <1>1, <1>2, <3>1, <3>2, <4>1
    <3>3. CASE ~Owns(t)
      BY <1>1, <2>5, <3>1, <3>3 DEF ConfirmLease
    <3>4. QED
      BY <3>2, <3>3
  <2>6. CASE RenewLease(t)
    <3>1. /\ task'[t].pc \in Sweeping /\ task'[t].ask = (IF Owns(t) THEN "done" ELSE "lost")
          /\ Others(t) /\ aborted' = aborted
      BY <1>0, <2>6, RenewLeaseFacts DEF RenewLease, Others, history, At
    <3>2. Owns(t)
      BY <2>6, <3>1 DEF RenewLease, SweepOwned
    <3>3. lease'.owner = t /\ lease'.age = 0
      BY <1>0, <2>6, <3>2, LeaseTypes DEF RenewLease, Owns
    <3>4. QED
      BY <1>1, <1>2, <3>1, <3>2, <3>3
  <2>7. CASE RenewConfirmed(t)
    <3>1. 0 \in 0..(Abort + 1)
      BY KeywordRecomputeAssumption
    <3>2. /\ task'[t].pc \in Sweeping /\ task'[t].ask \in {"idle", "asked"}
          /\ Others(t) /\ aborted' = aborted /\ lease' = lease
      BY <1>0, <2>7, <3>1, NextRenewalFacts DEF RenewConfirmed, Others, db, history, At
    <3>3. lease.owner = t /\ lease.age <= 0
      BY <2>7, <3>2 DEF RenewConfirmed, SweepOwned, Owns
    <3>4. QED
      BY <1>0, <1>1, <3>2, <3>3
  <2>8. CASE StartSweep(t) /\ task[t].ok /\ Become(t, Begin(t))
    <3>1. /\ task'[t].pc = "sweep" /\ task'[t].ask = "asked"
          /\ Others(t) /\ aborted' = aborted /\ lease' = lease
      BY <1>0, <2>8, BeginFacts DEF StartSweep, Others, db, history
    <3>2. lease.owner = t /\ lease.age <= 0
      BY <2>8, <3>1 DEF StartSweep, SweepOwned, Owns
    <3>3. QED
      BY <1>0, <1>1, <3>1, <3>2 DEF Sweeping
  <2>9. QED
    BY <1>3, <2>1, <2>2, <2>3, <2>4, <2>5, <2>6, <2>7, <2>8 DEF Shape, GoesOn
<1>4. CASE Tick
  <2>1. SUFFICES ASSUME ~aborted, NEW t \in Tasks
                 PROVE  /\ task'[t].pc \in Sweeping =>
                              /\ lease'.owner = t /\ task'[t].ask # "lost"
                              /\ lease'.age <= IF task'[t].ask = "asked" THEN 1 ELSE 0
                        /\ ~(task'[t].pc = "confirm")
    BY <1>4 DEF SweepOwned, At, Owns, Tick, history
  <2>2. task'[t].pc = task[t].pc
    BY <1>4, TickFacts
  <2>3. task[t].pc # "confirm"
    BY <1>4 DEF Tick, MayWait, At
  <2>4. ASSUME task[t].pc \in Sweeping
        PROVE  /\ lease'.owner = t /\ task'[t].ask = "asked" /\ lease'.age <= 1
    <3>1. task[t].ask = "idle" /\ task'[t].ask = "asked"
      BY <1>4, <2>4, TickFacts DEF At
    <3>2. lease.owner = t /\ lease.age <= 0
      BY <2>1, <2>4, <3>1 DEF SweepOwned, At, Owns
    <3>3. lease'.owner = lease.owner /\ (lease'.age = lease.age + 1 \/ lease'.age = lease.age)
      BY <1>0, <1>4 DEF Tick
    <3>4. QED
      BY <1>0, <3>1, <3>2, <3>3
  <2>5. QED
    BY <2>2, <2>3, <2>4
<1>5. CASE UNCHANGED vars
  BY <1>5 DEF vars, SweepOwned, At, Owns
<1>6. QED
  BY <1>3, <1>4, <1>5, StepShape

(* "two sweeps never overlap", for every number of tasks and all limits    *)
(* with RECOMPUTE_RENEW_ABORT_SECS below RECOMPUTE_LEASE_STALE_SECS, as    *)
(* long as statements do not fail and no schedule has deleted a lease that *)
(* was held.                                                               *)
THEOREM SweepsAreExclusive == ~Faulty /\ Spec => []SweepsExclusive
<1>1. Init => SweepOwned
  <2> SUFFICES ASSUME Init PROVE \A t \in Tasks : ~At(t, Sweeping \cup {"confirm"})
    BY DEF SweepOwned, At
  <2>1. \A t \in Tasks : task[t].pc = "idle"
    BY DEF Init, Fresh
  <2>2. QED
    BY <2>1 DEF At, Sweeping
<1>2. SweepOwned => SweepsExclusive
  BY DEF SweepOwned, SweepsExclusive, Owns
<1>3. SUFFICES ASSUME ~Faulty PROVE Spec => []SweepsExclusive
  OBVIOUS
<1>4. SweepOwned /\ Inv1 /\ [Next]_vars => SweepOwned'
  BY <1>3, SweepOwnedStep
<1>5. QED
  BY <1>1, <1>2, <1>4, Init1, Step1, PTL DEF Spec

(* How long a sweep has been at work without the lease.  The lease is not  *)
(* lost while a renewal that has renewed it is answered, unless a schedule *)
(* deletes it: such a reply is the only thing that makes a sweep without a *)
(* lease look confirmed.                                                   *)
LostTimed ==
    \A t \in Tasks : At(t, Sweeping) =>
        /\ Owns(t) => task[t].lost = 0
        /\ task[t].lost <= task[t].quiet + Abort
        /\ task[t].ask = "done" => task[t].lost <= task[t].quiet /\ task[t].lost <= Abort
        /\ ~aborted =>
             /\ task[t].lost <= task[t].quiet
             /\ task[t].ask = "done" =>
                  Owns(t) /\ lease.age <= task[t].quiet /\ lease.age <= Abort

LEMMA LostTimedStep == Inv1 /\ LostTimed /\ [Next]_vars => LostTimed'
<1> SUFFICES ASSUME Inv1, LostTimed, [Next]_vars PROVE LostTimed'
  OBVIOUS
<1>0. /\ task \in [Tasks -> Task]
      /\ lease \in [owner : Tasks \cup {Nobody}, age : 0..Stale]
      /\ lease.age \in Nat /\ Stale \in Nat /\ Abort \in Nat /\ Abort < Stale
      /\ Nobody \notin Tasks
      /\ \A t \in Tasks : task[t].quiet \in Nat /\ task[t].lost \in Nat
  <2>1. task \in [Tasks -> Task] /\ lease \in [owner : Tasks \cup {Nobody}, age : 0..Stale]
    BY DEF Inv1, TypeOK
  <2>2. MaxLost \in Nat /\ Abort + 1 \in Nat
    BY KeywordRecomputeAssumption DEF MaxLost
  <2>3. QED
    BY <2>1, <2>2, KeywordRecomputeAssumption DEF Task
<1> DEFINE G(t) ==
      task[t].pc \in Sweeping =>
        /\ lease.owner = t => task[t].lost = 0
        /\ task[t].lost <= task[t].quiet + Abort
        /\ task[t].ask = "done" => task[t].lost <= task[t].quiet /\ task[t].lost <= Abort
        /\ ~aborted =>
             /\ task[t].lost <= task[t].quiet
             /\ task[t].ask = "done" => /\ lease.owner = t
                                        /\ lease.age <= task[t].quiet /\ lease.age <= Abort
<1>g. /\ \A t \in Tasks : G(t)
      /\ (\A t \in Tasks : G(t)') => LostTimed'
  BY DEF LostTimed, At, Owns
<1> HIDE DEF G
(* A task that does not move: its lease stays, or goes to another task or  *)
(* to nobody - not under a renewal on its way back, unless a schedule      *)
(* deletes it.                                                             *)
<1>1. ASSUME NEW u \in Tasks, task'[u] = task[u],
             lease' = lease \/ lease'.owner # u,
             aborted => aborted',
             \/ lease' = lease \/ aborted'
             \/ ~(task[u].pc \in Sweeping /\ task[u].ask = "done")
      PROVE  G(u)'
  <2>1. G(u)
    BY <1>g
  <2>2. CASE lease' = lease
    BY <1>1, <2>1, <2>2, Zenon DEF G
  <2>3. CASE lease'.owner # u /\ (aborted' \/ ~(task[u].pc \in Sweeping /\ task[u].ask = "done"))
    BY <1>1, <2>1, <2>3, Zenon DEF G
  <2>4. QED
    BY <1>1, <2>2, <2>3
<1>2. ASSUME NEW t \in Tasks, Others(t), G(t)',
             aborted' = aborted,
             \A u \in Tasks \ {t} :
               /\ lease' = lease \/ lease'.owner # u
               /\ \/ lease' = lease \/ aborted
                  \/ ~(task[u].pc \in Sweeping /\ task[u].ask = "done")
      PROVE  LostTimed'
  <2>1. ASSUME NEW u \in Tasks, u # t PROVE G(u)'
    BY <1>1, <1>2, <2>1 DEF Others
  <2>2. QED
    BY <1>2, <1>g, <2>1
(* A renewal on its way back has an owner: nobody else owns the lease.     *)
<1>3. ASSUME NEW t \in Tasks, Owns(t), NEW u \in Tasks \ {t}, ~aborted
      PROVE  ~(task[u].pc \in Sweeping /\ task[u].ask = "done")
  BY <1>3, <1>g DEF G, Owns
<1>4. ASSUME NEW t \in Tasks, Shape(t) PROVE LostTimed'
  <2>1. CASE Aside(t)
    <3>1. G(t)'
      BY <1>g, <2>1, Zenon DEF Aside, Outside, SweepsOn, G
    <3>2. QED
      BY <1>2, <2>1, <3>1 DEF Aside
  <2>2. CASE Deletes(t)
    <3>1. G(t)'
      BY <2>2 DEF Deletes, Outside, G
    <3>2. ASSUME NEW u \in Tasks, u # t PROVE G(u)'
      <4>1. /\ task'[u] = task[u] /\ lease'.owner = Nobody
            /\ aborted' = (aborted \/ lease.owner # Nobody) /\ aborted \in BOOLEAN
        BY <2>2, <3>2 DEF Deletes, Others, Held, Inv1, TypeOK
      <4>2. (aborted => aborted') /\ lease'.owner # u
        BY <1>0, <4>1
      <4>3. CASE aborted'
        BY <1>1, <4>1, <4>2, <4>3
      <4>4. CASE ~aborted'
        <5>1. ~aborted /\ lease.owner # u
          BY <1>0, <4>1, <4>4
        <5>2. ~(task[u].pc \in Sweeping /\ task[u].ask = "done")
          BY <1>g, <5>1 DEF G
        <5>3. QED
          BY <1>1, <4>1, <4>2, <5>2
      <4>5. QED
        BY <4>3, <4>4
    <3>3. QED
      BY <1>g, <3>1, <3>2
  <2>3. CASE Claims(t)
    <3>1. G(t)' /\ Others(t) /\ aborted' = aborted
      BY <2>3 DEF Claims, Outside, G
    <3>2. ASSUME NEW u \in Tasks \ {t}, ~aborted
          PROVE  ~(task[u].pc \in Sweeping /\ task[u].ask = "done")
      BY <1>0, <1>g, <2>3, <3>2 DEF Claims, Held, Expired, G
    <3>3. lease'.owner = t
      BY <2>3 DEF Claims
    <3>4. QED
      BY <1>0, <1>2, <3>1, <3>2, <3>3
  <2>4. CASE OwnerWrites(t)
    <3>1. G(t)' /\ Others(t) /\ aborted' = aborted
      BY <2>4 DEF OwnerWrites, Outside, G
    <3>2. lease'.owner \in {t, Nobody}
      BY <2>4 DEF OwnerWrites
    <3>3. QED
      BY <1>0, <1>2, <1>3, <2>4, <3>1, <3>2 DEF OwnerWrites
  <2>5. CASE ConfirmLease(t)
    <3>1. /\ task'[t].pc = "confirm" /\ Others(t) /\ aborted' = aborted
      BY <1>0, <2>5 DEF ConfirmLease, Become, Task, Others, history
    <3>2. G(t)'
      BY <3>1 DEF G, Sweeping
    <3>3. lease' = lease \/ (Owns(t) /\ lease'.owner = t)
      BY <1>0, <2>5, LeaseTypes DEF ConfirmLease, Owns
    <3>4. QED
      BY <1>2, <1>3, <3>1, <3>2, <3>3
  <2>6. CASE RenewLease(t)
    <3>1. /\ task'[t].pc = task[t].pc /\ task[t].pc \in Sweeping
          /\ task'[t].ask = (IF Owns(t) THEN "done" ELSE "lost")
          /\ task'[t].quiet = task[t].quiet /\ task'[t].lost = task[t].lost
          /\ Others(t) /\ aborted' = aborted
      BY <1>0, <2>6, RenewLeaseFacts DEF RenewLease, Others, history, At
    <3>2. lease' = lease \/ (Owns(t) /\ lease'.owner = t)
      BY <1>0, <2>6, LeaseTypes DEF RenewLease, Owns
    <3>3. G(t)'
      <4>1. CASE Owns(t)
        <5>1. lease'.owner = t /\ lease'.age = 0 /\ task[t].lost = 0
          BY <1>0, <1>g, <2>6, <3>1, <4>1, LeaseTypes DEF RenewLease, Owns, G
        <5>2. QED
          BY <1>0, <3>1, <5>1 DEF G
      <4>2. CASE ~Owns(t)
        BY <1>0, <1>g, <2>6, <3>1, <4>2 DEF RenewLease, Owns, G
      <4>3. QED
        BY <4>1, <4>2
    <3>4. QED
      BY <1>2, <1>3, <3>1, <3>2, <3>3
  <2>7. CASE RenewConfirmed(t)
    <3>0. 0 \in 0..(Abort + 1)
      BY KeywordRecomputeAssumption
    <3>1. /\ task'[t].pc = task[t].pc /\ task[t].pc \in Sweeping
          /\ task'[t].ask \in {"idle", "asked"} /\ task[t].ask = "done"
          /\ task'[t].quiet = 0 /\ task'[t].lost = task[t].lost
          /\ Others(t) /\ aborted' = aborted /\ lease' = lease
      BY <1>0, <2>7, <3>0, NextRenewalFacts DEF RenewConfirmed, Others, db, history, At
    <3>2. G(t)'
      BY <1>0, <1>g, <3>1 DEF G
    <3>3. QED
      BY <1>2, <3>1, <3>2
  <2>8. CASE StartSweep(t) /\ task[t].ok /\ Become(t, Begin(t))
    <3>1. /\ task'[t].quiet = 0 /\ task'[t].ask = "asked" /\ task'[t].lost = 0
          /\ Others(t) /\ aborted' = aborted /\ lease' = lease
      BY <1>0, <2>8, BeginFacts DEF StartSweep, Others, db, history
    <3>2. G(t)'
      BY <1>0, <3>1 DEF G
    <3>3. QED
      BY <1>2, <3>1, <3>2
  <2>9. CASE GoesOn(t)
    <3>1. G(t)'
      BY <1>g, <2>9 DEF GoesOn, G
    <3>2. QED
      BY <1>2, <2>9, <3>1 DEF GoesOn
  <2>10. QED
    BY <1>4, <2>1, <2>2, <2>3, <2>4, <2>5, <2>6, <2>7, <2>8, <2>9 DEF Shape
<1>5. CASE Tick
  <2>1. /\ lease'.owner = lease.owner /\ aborted' = aborted
        /\ lease'.age = lease.age + 1 \/ lease'.age = lease.age
    BY <1>0, <1>5 DEF Tick, history
  <2>2. ASSUME NEW t \in Tasks PROVE G(t)'
    <3>1. CASE task[t].pc \in Sweeping
      <4>1. /\ task'[t].quiet = task[t].quiet + 1
            /\ task'[t].ask = IF task[t].ask = "idle" THEN "asked" ELSE task[t].ask
            /\ task'[t].lost \in {task[t].lost, task[t].lost + 1}
            /\ Owns(t) => task'[t].lost = task[t].lost
            /\ task[t].ask = "idle" \/ task[t].quiet < Abort
        BY <1>5, <3>1, TickFacts DEF At
      <4>2. task'[t].ask = "done" => task[t].ask = "done" /\ task[t].quiet < Abort
        BY <4>1
      <4>3. QED
        BY <1>0, <1>g, <2>1, <3>1, <4>1, <4>2 DEF G, Owns
    <3>2. CASE task[t].pc \notin Sweeping
      BY <1>5, <3>2, TickFacts DEF G
    <3>3. QED
      BY <3>1, <3>2
  <2>3. QED
    BY <1>g, <2>2
<1>6. CASE UNCHANGED vars
  BY <1>6 DEF vars, LostTimed, At, Owns
<1>7. QED
  BY <1>4, <1>5, <1>6, StepShape

(* A sweep without the lease comes to an end: the fenced renewals and the  *)
(* test of RECOMPUTE_RENEW_ABORT_SECS after each of them leave it Abort +  *)
(* 1 ticks, or 2 * Abort + 1 if its lease was deleted while a renewal was  *)
(* being answered (renew_until_lost), for any number of tasks and all      *)
(* limits with Abort < Stale.                                              *)
THEOREM LostSweepsEnd == Spec => []LostSweepEnds
<1>1. Init => LostTimed
  <2> SUFFICES ASSUME Init PROVE \A t \in Tasks : ~At(t, Sweeping)
    BY DEF LostTimed
  <2>1. \A t \in Tasks : task[t].pc = "idle"
    BY DEF Init, Fresh
  <2>2. QED
    BY <2>1 DEF At, Sweeping
<1>2. Inv1 /\ LostTimed => LostSweepEnds
  <2> SUFFICES ASSUME Inv1, LostTimed, NEW t \in Tasks, At(t, Sweeping)
               PROVE  task[t].lost <= IF aborted THEN 2 * Abort + 1 ELSE Abort + 1
    BY DEF LostSweepEnds
  <2>1. task[t].quiet \in 0..(Abort + 1) /\ task[t].lost \in 0..MaxLost
    BY DEF Inv1, TypeOK, Task
  <2>2. MaxLost \in Nat /\ Abort \in Nat
    BY KeywordRecomputeAssumption DEF MaxLost
  <2>3. QED
    BY <2>1, <2>2 DEF LostTimed
<1>3. QED
  BY <1>1, <1>2, Init1, Step1, LostTimedStep, PTL DEF Spec

-----------------------------------------------------------------------------

(***************************************************************************)
(* What the marker says about the rows                                     *)
(***************************************************************************)

(* What a task has swept: the batches so far, or all of them.              *)
Covered(t) ==
    /\ At(t, Sweeping) => \A b \in 1..task[t].batch : rows[b] = task[t].ver
    /\ At(t, {"publish"}) \/ (At(t, {"swept"}) /\ task[t].ok)
          => \A b \in 1..Batches : rows[b] = task[t].ver

(* Unless a batch was written without the lease, the owner of the lease    *)
(* has swept what it believes to have swept.                               *)
SweptRows == ~late => \A t \in Tasks : Owns(t) => Covered(t)

LEMMA SweptRowsStep == Inv1 /\ SweptRows /\ [Next]_vars => SweptRows'
<1> SUFFICES ASSUME Inv1, SweptRows, [Next]_vars PROVE SweptRows'
  OBVIOUS
<1>0. /\ task \in [Tasks -> Task]
      /\ lease \in [owner : Tasks \cup {Nobody}, age : 0..Stale]
      /\ rows \in [1..Batches -> 0..MaxVersion]
      /\ Batches \in Nat
  BY KeywordRecomputeAssumption DEF Inv1, TypeOK
<1>a. PCs = {"idle", "loop", "claim", "claimed", "renew", "confirm", "swept", "publish",
             "back", "leave", "ended", "start", "check", "request", "abort", "active",
             "sweep", "batched"}
      /\ Sweeping = {"sweep", "batched"}
  BY DEF PCs, Scheduling, Sweeping
(* One task moves, the rows stay, and nobody becomes the owner.            *)
<1>1. ASSUME NEW t \in Tasks, rows' = rows, late' = late,
             lease'.owner \in {lease.owner, Nobody},
             ~late /\ Owns(t) => Covered(t)',
             \A u \in Tasks : u # t => task'[u] = task[u]
      PROVE  SweptRows'
  <2>1. SUFFICES ASSUME ~late, NEW u \in Tasks, lease'.owner = u PROVE Covered(u)'
    BY <1>1 DEF SweptRows, Owns
  <2>2. Owns(u)
    BY <1>1, <2>1, KeywordRecomputeAssumption DEF Owns
  <2>3. CASE u = t
    BY <1>1, <2>1, <2>2, <2>3
  <2>4. CASE u # t
    BY <1>1, <2>1, <2>2, <2>4 DEF SweptRows, Covered, At
  <2>5. QED
    BY <2>3, <2>4
(* The task goes where nothing is claimed about the rows.                  *)
<1>2. ASSUME NEW t \in Tasks, rows' = rows, late' = late,
             lease'.owner \in {lease.owner, Nobody},
             task'[t].pc \notin Sweeping \cup {"swept", "publish"},
             \A u \in Tasks : u # t => task'[u] = task[u]
      PROVE  SweptRows'
  BY <1>1, <1>2 DEF Covered, At
<1>3. ASSUME NEW t \in Tasks, NEW l \in PCs \ (Sweeping \cup {"swept", "publish"}),
             Goto(t, l), rows' = rows, late' = late, lease'.owner \in {lease.owner, Nobody}
      PROVE  SweptRows'
  BY <1>0, <1>2, <1>3, GotoFacts
<1>4. ASSUME NEW t \in Tasks, Loop(t) \/ End(t), rows' = rows, late' = late,
             lease'.owner \in {lease.owner, Nobody}
      PROVE  SweptRows'
  BY <1>0, <1>2, <1>4, <1>a, RestFacts
<1>5. ASSUME NEW t \in Tasks, Become(t, Swept(t, FALSE)), rows' = rows, late' = late,
             lease' = lease
      PROVE  SweptRows'
  <2>1. task'[t].pc = "swept" /\ task'[t].ok = FALSE
        /\ \A u \in Tasks : u # t => task'[u] = task[u]
    BY <1>0, <1>5, SweptFacts
  <2>2. Covered(t)'
    BY <1>a, <2>1 DEF Covered, At
  <2>3. QED
    BY <1>1, <1>5, <2>1, <2>2
<1>6. ASSUME NEW t \in Tasks, EditKeywords(t) \/ Startup(t) PROVE SweptRows'
  BY <1>3, <1>6, <1>a DEF EditKeywords, Startup, Trigger, db, history
<1>7. ASSUME NEW t \in Tasks, UNCHANGED <<db, history>>,
             NEW v, Become(t, [task[t] EXCEPT !.pc = "check", !.ver = v])
      PROVE  SweptRows'
  <2>1. task'[t].pc = "check" /\ \A u \in Tasks : u # t => task'[u] = task[u]
    BY <1>0, <1>7 DEF Become, Task
  <2>2. QED
    BY <1>2, <1>7, <1>a, <2>1 DEF db, history
<1>8. ASSUME NEW t \in Tasks, UNCHANGED <<db, history>>,
             NEW c, Become(t, [task[t] EXCEPT !.pc = "request", !.changed = c])
      PROVE  SweptRows'
  <2>1. task'[t].pc = "request" /\ \A u \in Tasks : u # t => task'[u] = task[u]
    BY <1>0, <1>8 DEF Become, Task
  <2>2. QED
    BY <1>2, <1>8, <1>a, <2>1 DEF db, history
<1>9. ASSUME NEW t \in Tasks, UNCHANGED <<db, history>>,
             Become(t, [task[t] EXCEPT !.pc = "claim", !.ver = live, !.tries = @ + 1])
      PROVE  SweptRows'
  <2>1. task'[t].pc = "claim" /\ \A u \in Tasks : u # t => task'[u] = task[u]
    BY <1>0, <1>9 DEF Become, Task
  <2>2. QED
    BY <1>2, <1>9, <1>a, <2>1 DEF db, history
<1>10. ASSUME NEW t \in Tasks, At(t, {"batched"}), NEW s \in BOOLEAN, BatchDone(t, s),
              UNCHANGED <<db, history>>
       PROVE  SweptRows'
  <2>0. rows' = rows /\ late' = late /\ lease' = lease
    BY <1>10 DEF db, history
  <2>1. CASE Become(t, Swept(t, FALSE))
    BY <1>5, <2>0, <2>1
  <2>2. CASE task[t].batch = Batches /\ Become(t, Swept(t, TRUE))
    <3>1. /\ task'[t].pc = "swept" /\ task'[t].ver = task[t].ver
          /\ \A u \in Tasks : u # t => task'[u] = task[u]
      BY <1>0, <2>2, SweptFacts
    <3>2. ~late /\ Owns(t) => Covered(t)'
      BY <1>10, <1>a, <2>0, <2>2, <3>1 DEF SweptRows, Covered, At
    <3>3. QED
      BY <1>1, <2>0, <3>1, <3>2
  <2>3. CASE Goto(t, "sweep")
    <3>1. /\ task'[t].pc = "sweep" /\ task'[t].ver = task[t].ver
          /\ task'[t].batch = task[t].batch
          /\ \A u \in Tasks : u # t => task'[u] = task[u]
      BY <1>0, <1>a, <2>3, GotoFacts
    <3>2. ~late /\ Owns(t) => Covered(t)'
      BY <1>10, <1>a, <2>0, <3>1 DEF SweptRows, Covered, At
    <3>3. QED
      BY <1>1, <2>0, <3>1, <3>2
  <2>4. QED
    BY <1>10, <2>1, <2>2, <2>3 DEF BatchDone
<1>11. ASSUME NEW t \in Tasks, At(t, {"swept"}), NEW s \in BOOLEAN, AfterSweep(t, s),
              UNCHANGED <<db, history>>
       PROVE  SweptRows'
  <2>0. rows' = rows /\ late' = late /\ lease' = lease
    BY <1>11 DEF db, history
  <2>1. CASE Goto(t, "back")
    BY <1>3, <1>a, <2>0, <2>1
  <2>2. CASE task[t].ok /\ Goto(t, "publish")
    <3>1. /\ task'[t].pc = "publish" /\ task'[t].ver = task[t].ver
          /\ \A u \in Tasks : u # t => task'[u] = task[u]
      BY <1>0, <1>a, <2>2, GotoFacts
    <3>2. ~late /\ Owns(t) => Covered(t)'
      BY <1>11, <1>a, <2>0, <2>2, <3>1 DEF SweptRows, Covered, At
    <3>3. QED
      BY <1>1, <2>0, <3>1, <3>2
  <2>3. QED
    BY <1>11, <2>1, <2>2 DEF AfterSweep
<1>12. ASSUME NEW t \in Tasks, LoadLive(t) PROVE SweptRows'
  BY <1>7, <1>12 DEF LoadLive
<1>13. ASSUME NEW t \in Tasks, CheckMarker(t) PROVE SweptRows'
  BY <1>4, <1>8, <1>13 DEF CheckMarker, db, history
<1>14. ASSUME NEW t \in Tasks, SetRequest(t) PROVE SweptRows'
  BY <1>3, <1>14, <1>a DEF SetRequest, history
<1>15. ASSUME NEW t \in Tasks, AbortRecomputeLease(t) PROVE SweptRows'
  BY <1>4, <1>15, <1>0, LeaseTypes DEF AbortRecomputeLease
<1>16. ASSUME NEW t \in Tasks, CheckActive(t) PROVE SweptRows'
  BY <1>4, <1>16 DEF CheckActive, db, history
<1>17. ASSUME NEW t \in Tasks, Attempt(t) PROVE SweptRows'
  BY <1>4, <1>9, <1>17 DEF Attempt, db, history
<1>18. ASSUME NEW t \in Tasks, ClaimLease(t) PROVE SweptRows'
  <2>1. CASE ~Held \/ Expired
    <3>1. lease'.owner = t /\ Goto(t, "claimed")
      BY <1>18, <2>1 DEF ClaimLease
    <3>2. task'[t].pc = "claimed"
      BY <1>0, <1>a, <3>1, GotoFacts
    <3>3. QED
      BY <1>a, <3>1, <3>2 DEF SweptRows, Covered, At, Owns
  <2>2. CASE ~(~Held \/ Expired)
    BY <1>4, <1>18, <2>2 DEF ClaimLease
  <2>3. QED
    BY <2>1, <2>2
<1>19. ASSUME NEW t \in Tasks, Recheck(t) PROVE SweptRows'
  BY <1>3, <1>19, <1>a DEF Recheck, db, history
<1>20. ASSUME NEW t \in Tasks, ConfirmLease(t) PROVE SweptRows'
  <2>1. task'[t].pc = "confirm" /\ \A u \in Tasks : u # t => task'[u] = task[u]
    BY <1>0, <1>20 DEF ConfirmLease, Become, Task
  <2>2. lease'.owner = lease.owner
    BY <1>0, <1>20, LeaseTypes DEF ConfirmLease
  <2>3. QED
    BY <1>2, <1>20, <1>a, <2>1, <2>2 DEF ConfirmLease, history
<1>34. ASSUME NEW t \in Tasks, StartSweep(t) PROVE SweptRows'
  <2>1. CASE Become(t, Begin(t))
    <3>1. task'[t].pc = "sweep" /\ task'[t].batch = 0
          /\ \A u \in Tasks : u # t => task'[u] = task[u]
      BY <1>0, <2>1, BeginFacts
    <3>2. Covered(t)'
      BY <1>a, <3>1 DEF Covered, At
    <3>3. QED
      BY <1>1, <1>34, <3>1, <3>2 DEF StartSweep, db, history
  <2>2. QED
    BY <1>4, <1>34, <2>1 DEF StartSweep, db, history
<1>21. ASSUME NEW t \in Tasks, SweepBatch(t) PROVE SweptRows'
  <2>1. SUFFICES ASSUME ~late', NEW u \in Tasks, lease.owner = u PROVE Covered(u)'
    BY <1>21 DEF SweptRows, Owns, SweepBatch
  <2>2. ~late /\ u = t /\ task[t].pc = "sweep"
    BY <1>21, <2>1 DEF SweepBatch, Owns, At
  <2>3. \A b \in 1..task[t].batch : rows[b] = task[t].ver
    BY <1>a, <2>1, <2>2 DEF SweptRows, Covered, At, Owns
  <2>4. task[t].batch \in 0..Batches /\ task[t].batch < Batches
    BY <1>0, <2>2 DEF Task, Inv1, BatchLeft, At
  <2>5. /\ task'[t].pc = "batched" /\ task'[t].batch = task[t].batch + 1
        /\ task'[t].ver = task[t].ver
    BY <1>0, <1>21 DEF SweepBatch, Become, Task
  <2>6. rows' = [rows EXCEPT ![task[t].batch + 1] = task[t].ver]
    BY <1>21 DEF SweepBatch
  <2>7. ASSUME NEW b \in 1..(task[t].batch + 1) PROVE rows'[b] = task[t].ver
    <3>1. /\ b \in 1..Batches /\ task[t].batch + 1 \in 1..Batches
          /\ b # task[t].batch + 1 => b \in 1..task[t].batch
      BY <1>0, <2>4
    <3>2. CASE b = task[t].batch + 1
      BY <1>0, <2>6, <3>1, <3>2
    <3>3. CASE b # task[t].batch + 1
      BY <1>0, <2>3, <2>6, <3>1, <3>3
    <3>4. QED
      BY <3>2, <3>3
  <2>8. QED
    BY <1>a, <2>2, <2>5, <2>7 DEF Covered, At
<1>22. ASSUME NEW t \in Tasks, AfterBatch(t) PROVE SweptRows'
  BY <1>10, <1>22 DEF AfterBatch, Superseded
(* A renewal leaves what has been swept alone.                             *)
<1>23. ASSUME NEW t \in Tasks, rows' = rows, late' = late, lease'.owner = lease.owner,
              task'[t].pc = task[t].pc, task'[t].batch = task[t].batch,
              task'[t].ver = task[t].ver, task'[t].ok = task[t].ok,
              \A u \in Tasks : u # t => task'[u] = task[u]
       PROVE  SweptRows'
  BY <1>1, <1>23 DEF SweptRows, Covered, At
<1>35. ASSUME NEW t \in Tasks, RenewLease(t) PROVE SweptRows'
  <2>1. lease'.owner = lease.owner
    BY <1>0, <1>35, LeaseTypes DEF RenewLease
  <2>2. QED
    BY <1>0, <1>23, <1>35, <2>1, RenewLeaseFacts DEF RenewLease, history
<1>36. ASSUME NEW t \in Tasks, RenewConfirmed(t) PROVE SweptRows'
  <2>1. 0 \in 0..(Abort + 1)
    BY KeywordRecomputeAssumption
  <2>2. QED
    BY <1>0, <1>23, <1>36, <2>1, NextRenewalFacts DEF RenewConfirmed, db, history
<1>37. ASSUME NEW t \in Tasks, RenewLost(t) PROVE SweptRows'
  BY <1>5, <1>37 DEF RenewLost, db, history
<1>24. ASSUME NEW t \in Tasks, RenewFails(t) PROVE SweptRows'
  <2>1. task[t].quiet \in 0..(Abort + 1)
    BY <1>0 DEF Task
  <2>2. CASE NextRenewal(t, task[t].quiet)
    BY <1>0, <1>23, <1>24, <2>1, <2>2, NextRenewalFacts DEF RenewFails, db, history
  <2>3. QED
    BY <1>5, <1>24, <2>2 DEF RenewFails, db, history
<1>25. ASSUME NEW t \in Tasks, Judge(t) PROVE SweptRows'
  BY <1>11, <1>25 DEF Judge, Superseded
<1>26. ASSUME NEW t \in Tasks, PublishMarker(t) PROVE SweptRows'
  <2>1. lease'.owner = lease.owner
    BY <1>0, <1>26, LeaseTypes DEF PublishMarker
  <2>2. QED
    BY <1>3, <1>26, <1>a, <2>1 DEF PublishMarker, history
<1>27. ASSUME NEW t \in Tasks, ReleaseLease(t) PROVE SweptRows'
  <2>1. lease'.owner \in {lease.owner, Nobody}
    BY <1>0, <1>27, LeaseTypes DEF ReleaseLease
  <2>2. QED
    BY <1>4, <1>27, <2>1 DEF ReleaseLease, history
<1>28. ASSUME NEW t \in Tasks, StatementFails(t) PROVE SweptRows'
  <2>1. lease' = lease /\ rows' = rows /\ late' = late
    BY <1>28 DEF StatementFails, db, history
  <2>2. CASE Become(t, Fresh("loop", task[t].tries + 1))
    <3>1. task'[t].pc = "loop" /\ \A u \in Tasks : u # t => task'[u] = task[u]
      BY <1>0, <2>2 DEF Become, Fresh
    <3>2. QED
      BY <1>2, <1>a, <2>1, <3>1
  <2>3. CASE \E l \in {"abort", "active", "back"} : Goto(t, l)
    BY <1>3, <1>a, <2>1, <2>3
  <2>4. CASE Loop(t) \/ End(t)
    BY <1>4, <2>1, <2>4
  <2>5. CASE Become(t, Swept(t, FALSE))
    BY <1>5, <2>1, <2>5
  <2>6. QED
    BY <1>28, <2>2, <2>3, <2>4, <2>5 DEF StatementFails
<1>29. ASSUME NEW t \in Tasks, ReadFails(t) PROVE SweptRows'
  <2>1. UNCHANGED <<db, history>> /\ lease' = lease /\ rows' = rows /\ late' = late
    BY <1>29 DEF ReadFails, db, history
  <2>2. CASE \E c \in BOOLEAN :
               Become(t, [task[t] EXCEPT !.pc = "request", !.changed = c])
    BY <1>8, <2>1, <2>2
  <2>3. CASE Become(t, [task[t] EXCEPT !.pc = "claim", !.ver = live, !.tries = @ + 1])
    BY <1>9, <2>1, <2>3
  <2>4. CASE \E l \in {"renew", "back"} : Goto(t, l)
    BY <1>3, <1>a, <2>1, <2>4
  <2>5. CASE At(t, {"batched"}) /\ \E s \in BOOLEAN : BatchDone(t, s)
    BY <1>10, <2>1, <2>5
  <2>6. CASE At(t, {"swept"}) /\ \E s \in BOOLEAN : AfterSweep(t, s)
    BY <1>11, <2>1, <2>6
  <2>7. QED
    BY <1>29, <2>2, <2>3, <2>4, <2>5, <2>6 DEF ReadFails
<1>30. ASSUME NEW t \in Tasks, Die(t) PROVE SweptRows'
  BY <1>4, <1>30 DEF Die, db, history
<1>31. CASE Tick
  <2>1. lease'.owner = lease.owner /\ rows' = rows /\ late' = late
    BY <1>0, <1>31 DEF Tick, history
  <2>2. ASSUME NEW t \in Tasks
        PROVE  /\ task'[t].pc = task[t].pc /\ task'[t].batch = task[t].batch
               /\ task'[t].ver = task[t].ver /\ task'[t].ok = task[t].ok
    BY <1>31, TickFacts
  <2>3. QED
    BY <2>1, <2>2 DEF SweptRows, Covered, At, Owns
<1>32. CASE UNCHANGED vars
  BY <1>32 DEF vars, SweptRows, Covered, At, Owns
<1>33. QED
  BY <1>6, <1>12, <1>13, <1>14, <1>15, <1>16, <1>17, <1>18, <1>19, <1>20, <1>21, <1>22,
     <1>24, <1>25, <1>26, <1>27, <1>28, <1>29, <1>30, <1>31, <1>32, <1>34, <1>35, <1>36,
     <1>37
  DEF Next, Schedule, SingleFlight, Renew

(* The completion marker is only set to a version that every batch of the  *)
(* table has just been computed from, whatever fails or dies, unless a     *)
(* task that had lost its lease has written a batch                        *)
(* (recompute_keyword_blocked, publish_marker_fenced).                     *)
THEOREM MarkerIsTruthful == Spec => PublishedWasSwept
<1>1. Init => SweptRows
  <2> SUFFICES ASSUME Init PROVE \A t \in Tasks : ~Owns(t)
    BY DEF SweptRows
  <2>1. lease.owner = Nobody
    BY DEF Init, NoLease
  <2>2. QED
    BY <2>1, KeywordRecomputeAssumption DEF Owns
<1>2. Inv1 /\ SweptRows /\ [Next]_vars =>
        [marker' # marker /\ ~late => \A b \in 1..Batches : rows[b] = marker']_vars
  <2> SUFFICES ASSUME Inv1, SweptRows, Next, marker' # marker, ~late
               PROVE  \A b \in 1..Batches : rows[b] = marker'
    BY DEF vars
  <2>1. PICK t \in Tasks : PublishMarker(t)
    BY DEF Next, Schedule, SingleFlight, EditKeywords, Startup, LoadLive, CheckMarker,
           SetRequest, AbortRecomputeLease, CheckActive, Attempt, ClaimLease, Recheck,
           ConfirmLease, StartSweep, SweepBatch, AfterBatch, Judge, ReleaseLease, Renew,
           RenewLease, RenewConfirmed, RenewLost, RenewFails, StatementFails, ReadFails,
           Die, Tick, db
  <2>2. Owns(t) /\ marker' = task[t].ver /\ At(t, {"publish"})
    BY <2>1 DEF PublishMarker
  <2>3. QED
    BY <2>2 DEF SweptRows, Covered
<1>3. QED
  BY <1>1, <1>2, Init1, Step1, SweptRowsStep, PTL DEF Spec, PublishedWasSwept

-----------------------------------------------------------------------------

(***************************************************************************)
(* Progress: a task comes to its end, whatever its peers do                *)
(***************************************************************************)

(* The steps a task may still take, at most: the attempts left, each of    *)
(* the cost of a complete sweep, and the rest of the present one.          *)
Cost == 2 * Batches + 8
Later(n) == (MaxAttempts - n) * Cost + 1
Place(pc, n, b) ==
    CASE pc = "idle" -> Later(n) + 5
      [] pc = "start" -> Later(n) + 4
      [] pc = "check" -> Later(n) + 3
      [] pc = "request" -> Later(n) + 2
      [] pc \in {"abort", "active"} -> Later(n) + 1
      [] pc = "loop" -> Later(n)
      [] pc = "claim" -> Later(n) + 2 * Batches + 7
      [] pc = "claimed" -> Later(n) + 2 * Batches + 6
      [] pc = "renew" -> Later(n) + 2 * Batches + 5
      [] pc = "confirm" -> Later(n) + 2 * Batches + 4
      [] pc = "batched" -> Later(n) + 2 * (Batches - b) + 4
      [] pc = "sweep" -> Later(n) + 2 * (Batches - b) + 3
      [] pc = "swept" -> Later(n) + 3
      [] pc = "publish" -> Later(n) + 2
      [] pc = "back" -> Later(n) + 1
      [] pc = "leave" -> 1
      [] OTHER -> 0
StepsLeft(x) == Place(x.pc, x.tries, x.batch)

LEMMA Attempts ==
    ASSUME NEW n \in 0..MaxAttempts
    PROVE  /\ Batches \in Nat /\ Batches > 0 /\ MaxAttempts \in Nat
           /\ Later(n) \in Nat /\ Later(n) > 0
           /\ n # MaxAttempts => /\ n + 1 \in 0..MaxAttempts
                                 /\ Later(n) = Later(n + 1) + 2 * Batches + 8
<1>1. Batches \in Nat /\ Batches > 0 /\ MaxAttempts \in Nat /\ n \in Nat
  BY KeywordRecomputeAssumption
<1> DEFINE m == MaxAttempts - n
<1>2. m \in Nat /\ Cost \in Nat
  BY <1>1 DEF Cost
<1>3. m * Cost \in Nat /\ m * Cost = (m - 1) * Cost + Cost
  BY <1>2
<1>4. m - 1 = MaxAttempts - (n + 1)
  BY <1>1
<1>5. n # MaxAttempts => n + 1 \in 0..MaxAttempts /\ (m - 1) \in Nat
  BY <1>1
<1>6. (m - 1) \in Nat => (m - 1) * Cost \in Nat
  BY <1>2
<1>7. QED
  BY <1>1, <1>2, <1>3, <1>4, <1>5, <1>6 DEF Later, Cost

LEMMA Places ==
    ASSUME NEW n, NEW b
    PROVE  /\ Place("idle", n, b) = Later(n) + 5 /\ Place("start", n, b) = Later(n) + 4
           /\ Place("check", n, b) = Later(n) + 3 /\ Place("request", n, b) = Later(n) + 2
           /\ Place("abort", n, b) = Later(n) + 1 /\ Place("active", n, b) = Later(n) + 1
           /\ Place("loop", n, b) = Later(n)
           /\ Place("claim", n, b) = Later(n) + 2 * Batches + 7
           /\ Place("claimed", n, b) = Later(n) + 2 * Batches + 6
           /\ Place("renew", n, b) = Later(n) + 2 * Batches + 5
           /\ Place("confirm", n, b) = Later(n) + 2 * Batches + 4
           /\ Place("batched", n, b) = Later(n) + 2 * (Batches - b) + 4
           /\ Place("sweep", n, b) = Later(n) + 2 * (Batches - b) + 3
           /\ Place("swept", n, b) = Later(n) + 3 /\ Place("publish", n, b) = Later(n) + 2
           /\ Place("back", n, b) = Later(n) + 1 /\ Place("leave", n, b) = 1
           /\ Place("ended", n, b) = 0
BY DEF Place

LEMMA TaskFacts ==
    ASSUME Inv1, NEW t \in Tasks
    PROVE  /\ task \in [Tasks -> Task] /\ task[t] \in Task /\ task[t].pc \in PCs
           /\ task[t].tries \in 0..MaxAttempts
           /\ task[t].batch \in 0..Batches /\ task[t].batch \in Nat
           /\ task[t].pc = "sweep" => task[t].batch < Batches
<1>1. task \in [Tasks -> Task] /\ task[t] \in Task
  BY DEF Inv1, TypeOK
<1>2. /\ task[t].pc \in PCs /\ task[t].tries \in 0..MaxAttempts
      /\ task[t].batch \in 0..Batches
  BY <1>1 DEF Task
<1>3. task[t].batch \in Nat
  BY <1>2, KeywordRecomputeAssumption
<1>4. task[t].pc = "sweep" => task[t].batch < Batches
  BY DEF Inv1, BatchLeft, At
<1>5. QED
  BY <1>1, <1>2, <1>3, <1>4

LEMMA StepsNat ==
    ASSUME Inv1, NEW t \in Tasks
    PROVE  /\ StepsLeft(task[t]) \in Nat
           /\ task[t].pc # "ended" => StepsLeft(task[t]) > 0
<1> DEFINE n == task[t].tries
           b == task[t].batch
           m == Later(n)
<1>1. /\ m \in Nat /\ m > 0 /\ Batches \in Nat /\ b \in 0..Batches /\ b \in Nat
  BY TaskFacts, Attempts
<1>2. task[t].pc \in {"idle", "start", "check", "request", "abort", "active", "loop", "claim",
        "claimed", "renew", "confirm", "batched", "sweep", "swept", "publish", "back",
        "leave", "ended"}
  BY TaskFacts DEF PCs, Scheduling, Sweeping
<1> DEFINE p == task[t].pc
<1>3. StepsLeft(task[t]) = Place(p, n, b)
  BY DEF StepsLeft
<1> HIDE DEF n, b, m, p
<1>4. CASE p \in {"idle", "start", "check", "request", "abort", "active", "swept",
                  "publish", "back"}
  <2>1. \E k \in 1..5 : Place(p, n, b) = m + k
    BY <1>4, Places DEF m
  <2>2. QED
    BY <1>1, <1>3, <2>1
<1>5. CASE p \in {"claim", "claimed", "renew", "confirm"}
  <2>1. \E k \in 0..7 : Place(p, n, b) = m + 2 * Batches + k
    BY <1>5, Places DEF m
  <2>2. QED
    BY <1>1, <1>3, <2>1
<1>6. CASE p \in {"batched", "sweep"}
  <2>1. \E k \in 0..4 : Place(p, n, b) = m + 2 * (Batches - b) + k
    BY <1>6, Places DEF m
  <2>2. QED
    BY <1>1, <1>3, <2>1
<1>7. CASE p \in {"loop", "leave", "ended"}
  <2>1. /\ Place("ended", n, b) = 0 /\ Place("leave", n, b) = 1
        /\ Place("loop", n, b) = m
    BY Places DEF m
  <2>2. QED
    BY <1>1, <1>3, <1>7, <2>1 DEF p
<1>8. QED
  BY <1>2, <1>4, <1>5, <1>6, <1>7 DEF p

(* The task has moved, to where fewer steps are left.                      *)
Ahead(t) == \E y : Become(t, y) /\ StepsLeft(y) < StepsLeft(task[t])

LEMMA GotoAhead ==
    ASSUME Inv1, NEW t \in Tasks, NEW l, Goto(t, l),
           Place(l, task[t].tries, task[t].batch) < StepsLeft(task[t])
    PROVE  Ahead(t)
<1> DEFINE y == [task[t] EXCEPT !.pc = l]
<1>1. y.pc = l /\ y.tries = task[t].tries /\ y.batch = task[t].batch
  BY TaskFacts DEF Task
<1>2. Become(t, y)
  BY DEF Goto
<1> HIDE DEF y
<1>3. QED
  BY <1>1, <1>2 DEF StepsLeft, Ahead

LEMMA LoopAhead ==
    ASSUME Inv1, NEW t \in Tasks, Loop(t),
           task[t].pc \in {"abort", "active", "claim", "renew", "confirm", "back"}
    PROVE  Ahead(t)
<1> DEFINE n == task[t].tries
           y == Fresh("loop", n)
<1>1. Become(t, y) /\ y.pc = "loop" /\ y.tries = n
  BY DEF Loop, Fresh
<1>2. StepsLeft(y) = Later(n)
  BY <1>1, Places DEF StepsLeft
<1>3. Later(n) \in Nat /\ Batches \in Nat
  BY TaskFacts, Attempts
<1>4. StepsLeft(task[t]) > Later(n)
  BY <1>3, Places DEF StepsLeft
<1> HIDE DEF y
<1>5. QED
  BY <1>1, <1>2, <1>4 DEF Ahead

LEMMA EndAhead ==
    ASSUME Inv1, NEW t \in Tasks, End(t), task[t].pc # "ended"
    PROVE  Ahead(t)
<1> DEFINE y == Fresh("ended", 0)
<1>1. Become(t, y) /\ y.pc = "ended"
  BY DEF End, Fresh
<1>2. StepsLeft(y) = 0
  BY <1>1, Places DEF StepsLeft
<1> HIDE DEF y
<1>3. QED
  BY <1>1, <1>2, StepsNat DEF Ahead

LEMMA SweptAhead ==
    ASSUME Inv1, NEW t \in Tasks, NEW s, Become(t, Swept(t, s)), At(t, Sweeping)
    PROVE  Ahead(t)
<1> DEFINE n == task[t].tries
           b == task[t].batch
           y == Swept(t, s)
<1>1. y.pc = "swept" /\ y.tries = n
  BY DEF Swept, Fresh
<1>2. StepsLeft(y) = Later(n) + 3
  BY <1>1, Places DEF StepsLeft
<1>3. /\ Later(n) \in Nat /\ Batches \in Nat /\ b \in 0..Batches /\ b \in Nat
      /\ task[t].pc = "sweep" => b < Batches
  BY TaskFacts, Attempts
<1>4. \/ task[t].pc = "sweep" /\ StepsLeft(task[t]) = Later(n) + 2 * (Batches - b) + 3
      \/ task[t].pc = "batched" /\ StepsLeft(task[t]) = Later(n) + 2 * (Batches - b) + 4
  BY Places DEF StepsLeft, At, Sweeping
<1>5. StepsLeft(y) < StepsLeft(task[t])
  BY <1>2, <1>3, <1>4
<1> HIDE DEF y
<1>6. QED
  BY <1>5 DEF Ahead, y

(* The next attempt, and a failed look at the tables that counts as one.   *)
LEMMA AttemptAhead ==
    ASSUME Inv1, NEW t \in Tasks, task[t].pc = "loop", task[t].tries # MaxAttempts,
           \/ Become(t, [task[t] EXCEPT !.pc = "claim", !.ver = live, !.tries = @ + 1])
           \/ Become(t, Fresh("loop", task[t].tries + 1))
    PROVE  Ahead(t)
<1> DEFINE n == task[t].tries
<1>1. /\ n + 1 \in 0..MaxAttempts /\ Batches \in Nat /\ Later(n + 1) \in Nat
      /\ Later(n) = Later(n + 1) + 2 * Batches + 8
  BY TaskFacts, Attempts
<1>2. StepsLeft(task[t]) = Later(n)
  BY Places DEF StepsLeft
<1>3. CASE Become(t, [task[t] EXCEPT !.pc = "claim", !.ver = live, !.tries = @ + 1])
  <2> DEFINE y == [task[t] EXCEPT !.pc = "claim", !.ver = live, !.tries = @ + 1]
  <2>1. y.pc = "claim" /\ y.tries = n + 1
    BY TaskFacts DEF Task
  <2>2. StepsLeft(y) = Later(n + 1) + 2 * Batches + 7
    BY <2>1, Places DEF StepsLeft
  <2> HIDE DEF y
  <2>3. StepsLeft(y) < StepsLeft(task[t])
    BY <1>1, <1>2, <2>2
  <2>4. QED
    BY <1>3, <2>3 DEF Ahead, y
<1>4. CASE Become(t, Fresh("loop", n + 1))
  <2> DEFINE y == Fresh("loop", n + 1)
  <2>1. y.pc = "loop" /\ y.tries = n + 1
    BY DEF Fresh
  <2>2. StepsLeft(y) = Later(n + 1)
    BY <2>1, Places DEF StepsLeft
  <2> HIDE DEF y
  <2>3. StepsLeft(y) < StepsLeft(task[t])
    BY <1>1, <1>2, <2>2
  <2>4. QED
    BY <1>4, <2>3 DEF Ahead, y
<1>5. QED
  BY <1>3, <1>4

LEMMA BatchAhead ==
    ASSUME Inv1, NEW t \in Tasks, NEW s, task[t].pc = "batched", BatchDone(t, s)
    PROVE  Ahead(t)
<1> DEFINE n == task[t].tries
           b == task[t].batch
<1>1. Later(n) \in Nat /\ Batches \in Nat /\ b \in Nat /\ b <= Batches
  BY TaskFacts, Attempts
<1>2. Place("sweep", n, b) < StepsLeft(task[t])
  BY <1>1, Places DEF StepsLeft
<1>3. At(t, Sweeping)
  BY DEF At, Sweeping
<1>4. QED
  BY <1>2, <1>3, GotoAhead, SweptAhead DEF BatchDone

(* Renewals beside a sweep, and time, change nothing but what belongs to   *)
(* the renewals.                                                           *)
Timed(x, y) ==
    y = [x EXCEPT !.quiet = y.quiet, !.ask = y.ask, !.missed = y.missed, !.lost = y.lost]
Renewed(t) ==
    At(t, Sweeping) /\ \E y : Become(t, y) /\ Timed(task[t], y)

Does(t) ==
    \/ EditKeywords(t) \/ Startup(t) \/ Schedule(t) \/ SingleFlight(t) \/ Renew(t)
    \/ RenewFails(t) \/ StatementFails(t) \/ ReadFails(t) \/ Die(t)

LEMMA DoesAhead ==
    ASSUME Inv1, NEW t \in Tasks, Does(t)
    PROVE  Ahead(t) \/ Renewed(t)
<1> DEFINE n == task[t].tries
           b == task[t].batch
           p == task[t].pc
<1>0. /\ Later(n) \in Nat /\ Batches \in Nat /\ Batches > 0 /\ b \in Nat /\ b <= Batches
      /\ p = "sweep" => b < Batches
      /\ task[t] \in Task /\ StepsLeft(task[t]) = Place(p, n, b)
  BY TaskFacts, Attempts DEF StepsLeft
<1>g. ASSUME NEW l, Goto(t, l), Place(l, n, b) < Place(p, n, b) PROVE Ahead(t)
  BY <1>0, <1>g, GotoAhead
<1>u. /\ Place("start", n, b) < Place("idle", n, b)
      /\ Place("check", n, b) < Place("start", n, b)
      /\ Place("request", n, b) < Place("check", n, b)
      /\ Place("abort", n, b) < Place("request", n, b)
      /\ Place("active", n, b) < Place("request", n, b)
      /\ Place("claimed", n, b) < Place("claim", n, b)
      /\ \A l \in {"renew", "back", "leave"} : Place(l, n, b) < Place("claimed", n, b)
      /\ \A l \in {"publish", "back"} : Place(l, n, b) < Place("swept", n, b)
      /\ Place("back", n, b) < Place("publish", n, b)
      /\ Place("confirm", n, b) < Place("renew", n, b)
      /\ Place("sweep", n, 0) < Place("confirm", n, b)
      /\ Place("batched", n, b + 1) < Place("sweep", n, b)
  BY <1>0, Places
<1>c. ASSUME NEW c, p = "check", Become(t, [task[t] EXCEPT !.pc = "request", !.changed = c])
      PROVE  Ahead(t)
  <2> DEFINE y == [task[t] EXCEPT !.pc = "request", !.changed = c]
  <2>1. StepsLeft(y) = Place("request", n, b)
    BY <1>0 DEF StepsLeft, Task
  <2> HIDE DEF y
  <2>2. QED
    BY <1>0, <1>u, <1>c, <2>1 DEF Ahead, y
<1>1. CASE EditKeywords(t) \/ Startup(t)
  BY <1>1, <1>g, <1>u DEF EditKeywords, Startup, Trigger, At
<1>2. CASE LoadLive(t)
  <2> DEFINE y == [task[t] EXCEPT !.pc = "check", !.ver = live]
  <2>1. StepsLeft(y) = Place("check", n, b)
    BY <1>0 DEF StepsLeft, Task
  <2>2. Become(t, y) /\ p = "start"
    BY <1>2 DEF LoadLive, At
  <2> HIDE DEF y
  <2>3. QED
    BY <1>0, <1>u, <2>1, <2>2 DEF Ahead
<1>3. CASE CheckMarker(t)
  BY <1>3, <1>c, EndAhead DEF CheckMarker, At
<1>4. CASE SetRequest(t)
  BY <1>4, <1>g, <1>u DEF SetRequest, At
<1>5. CASE AbortRecomputeLease(t) \/ CheckActive(t)
  BY <1>5, LoopAhead, EndAhead DEF AbortRecomputeLease, CheckActive, At
<1>6. CASE Attempt(t)
  BY <1>6, AttemptAhead, EndAhead DEF Attempt, At
<1>7. CASE ClaimLease(t)
  BY <1>7, <1>g, <1>u, LoopAhead DEF ClaimLease, At
<1>8. CASE Recheck(t)
  BY <1>8, <1>g, <1>u DEF Recheck, At
<1>9. CASE ConfirmLease(t)
  <2> DEFINE y == [task[t] EXCEPT !.pc = "confirm", !.ok = Owns(t)]
  <2>1. StepsLeft(y) = Place("confirm", n, b)
    BY <1>0 DEF StepsLeft, Task
  <2>2. Become(t, y) /\ p = "renew"
    BY <1>9 DEF ConfirmLease, At
  <2> HIDE DEF y
  <2>3. QED
    BY <1>0, <1>u, <2>1, <2>2 DEF Ahead
<1>21. CASE StartSweep(t)
  <2>1. CASE Become(t, Begin(t)) /\ p = "confirm"
    <3>1. StepsLeft(Begin(t)) = Place("sweep", n, 0)
      BY <1>0 DEF StepsLeft, Begin, Fresh, Task
    <3>2. QED
      BY <1>0, <1>u, <2>1, <3>1 DEF Ahead
  <2>2. QED
    BY <1>21, <2>1, LoopAhead DEF StartSweep, At
<1>10. CASE SweepBatch(t)
  <2> DEFINE y == [task[t] EXCEPT !.pc = "batched", !.batch = @ + 1]
  <2>1. StepsLeft(y) = Place("batched", n, b + 1)
    BY <1>0 DEF StepsLeft, Task
  <2>2. Become(t, y) /\ p = "sweep"
    BY <1>10 DEF SweepBatch, At
  <2> HIDE DEF y
  <2>3. QED
    BY <1>0, <1>u, <2>1, <2>2 DEF Ahead
<1>11. CASE AfterBatch(t)
  BY <1>11, BatchAhead DEF AfterBatch, At
<1>n. ASSUME NEW q, NextRenewal(t, q), At(t, Sweeping) PROVE Renewed(t)
  <2>1. PICK m, a : Become(t, [task[t] EXCEPT !.quiet = q, !.missed = m, !.ask = a])
    BY <1>n DEF NextRenewal
  <2> DEFINE y == [task[t] EXCEPT !.quiet = q, !.missed = m, !.ask = a]
  <2>2. Timed(task[t], y)
    BY <1>0 DEF Timed, Task
  <2> HIDE DEF y
  <2>3. QED
    BY <1>n, <2>1, <2>2 DEF Renewed, y
<1>12. CASE RenewFails(t)
  BY <1>12, <1>n, SweptAhead DEF RenewFails
<1>13. CASE Judge(t)
  BY <1>13, <1>g, <1>u DEF Judge, AfterSweep, At
<1>14. CASE PublishMarker(t)
  BY <1>14, <1>g, <1>u DEF PublishMarker, At
<1>15. CASE ReleaseLease(t)
  BY <1>15, LoopAhead, EndAhead DEF ReleaseLease, At
<1>16. CASE Renew(t)
  <2>1. CASE RenewLease(t)
    <3> DEFINE y == [task[t] EXCEPT !.ask = IF Owns(t) THEN "done" ELSE "lost"]
    <3>1. Timed(task[t], y)
      BY <1>0 DEF Timed, Task
    <3>2. Become(t, y) /\ At(t, Sweeping)
      BY <2>1 DEF RenewLease
    <3> HIDE DEF y
    <3>3. QED
      BY <3>1, <3>2 DEF Renewed
  <2>2. CASE RenewConfirmed(t)
    BY <1>n, <2>2 DEF RenewConfirmed
  <2>3. CASE RenewLost(t)
    BY <2>3, SweptAhead DEF RenewLost
  <2>4. QED
    BY <1>16, <2>1, <2>2, <2>3 DEF Renew
<1>17. CASE StatementFails(t)
  <2>1. CASE At(t, {"request"}) /\ Goto(t, IF task[t].changed THEN "abort" ELSE "active")
    BY <2>1, <1>g, <1>u DEF At
  <2>2. CASE At(t, {"sweep"}) /\ Become(t, Swept(t, FALSE))
    BY <2>2, SweptAhead DEF At, Sweeping
  <2>3. CASE At(t, {"publish"}) /\ Goto(t, "back")
    BY <2>3, <1>g, <1>u DEF At
  <2>4. CASE /\ At(t, {"loop"}) /\ task[t].tries < MaxAttempts
             /\ Become(t, Fresh("loop", task[t].tries + 1))
    <3>1. task[t].tries # MaxAttempts
      BY <2>4, TaskFacts, Attempts
    <3>2. QED
      BY <2>4, <3>1, AttemptAhead DEF At
  <2>5. CASE \/ At(t, {"start", "leave"}) /\ End(t)
             \/ At(t, {"abort", "active", "claim", "renew", "confirm", "back"}) /\ Loop(t)
    BY <2>5, LoopAhead, EndAhead DEF At
  <2>6. QED
    BY <1>17, <2>1, <2>2, <2>3, <2>4, <2>5 DEF StatementFails
<1>18. CASE ReadFails(t)
  <2>1. CASE /\ At(t, {"check"})
             /\ \E c \in {TRUE, request # task[t].ver} :
                  Become(t, [task[t] EXCEPT !.pc = "request", !.changed = c])
    BY <2>1, <1>c DEF At
  <2>2. CASE /\ At(t, {"loop"}) /\ task[t].tries < MaxAttempts
             /\ Become(t, [task[t] EXCEPT !.pc = "claim", !.ver = live, !.tries = @ + 1])
    <3>1. task[t].tries # MaxAttempts
      BY <2>2, TaskFacts, Attempts
    <3>2. QED
      BY <2>2, <3>1, AttemptAhead DEF At
  <2>3. CASE At(t, {"claimed"}) /\ (Goto(t, "renew") \/ Goto(t, "back"))
    BY <2>3, <1>g, <1>u DEF At
  <2>4. CASE At(t, {"batched"}) /\ \E s \in {FALSE, live # task[t].ver} : BatchDone(t, s)
    BY <2>4, BatchAhead DEF At
  <2>5. CASE At(t, {"swept"}) /\ \E s \in {FALSE, live # task[t].ver} : AfterSweep(t, s)
    BY <2>5, <1>g, <1>u DEF AfterSweep, At
  <2>6. QED
    BY <1>18, <2>1, <2>2, <2>3, <2>4, <2>5 DEF ReadFails
<1>19. CASE Die(t)
  BY <1>19, EndAhead DEF Die, At
<1>20. QED
  BY <1>1, <1>2, <1>3, <1>4, <1>5, <1>6, <1>7, <1>8, <1>9, <1>10, <1>11, <1>12, <1>13,
     <1>14, <1>15, <1>16, <1>17, <1>18, <1>19, <1>21 DEF Does, Schedule, SingleFlight

(* A recompute is not kept going for ever by edits, peers, lost leases and *)
(* failing statements: whatever moves a task leaves it with fewer steps to *)
(* take, but for the renewals and the passing of time during a sweep,      *)
(* which touch nothing of where the sweep is (kw_recompute_single_flight   *)
(* and its RECOMPUTE_MAX_ATTEMPTS).                                        *)
THEOREM TasksGoOn ==
    Spec => [][\A t \in Tasks :
                 /\ StepsLeft(task[t]) \in Nat
                 /\ task'[t] # task[t] =>
                      \/ StepsLeft(task'[t]) < StepsLeft(task[t])
                      \/ At(t, Sweeping) /\ Timed(task[t], task'[t])]_vars
<1> DEFINE P(t) == /\ StepsLeft(task[t]) \in Nat
                   /\ task'[t] # task[t] =>
                        \/ StepsLeft(task'[t]) < StepsLeft(task[t])
                        \/ At(t, Sweeping) /\ Timed(task[t], task'[t])
<1>1. ASSUME Inv1, [Next]_vars, NEW t \in Tasks PROVE P(t)
  <2>0. StepsLeft(task[t]) \in Nat /\ task \in [Tasks -> Task] /\ task[t] \in Task
    BY <1>1, StepsNat, TaskFacts
  <2>1. CASE \E u \in Tasks : Does(u)
    <3>1. PICK u \in Tasks : Ahead(u) \/ Renewed(u)
      BY <1>1, <2>1, DoesAhead
    <3>2. PICK y : /\ task' = [task EXCEPT ![u] = y]
                   /\ \/ StepsLeft(y) < StepsLeft(task[u])
                      \/ At(u, Sweeping) /\ Timed(task[u], y)
      BY <3>1 DEF Ahead, Renewed, Become
    <3>3. CASE t = u
      <4>1. task'[t] = y
        BY <2>0, <3>2, <3>3
      <4>2. QED
        BY <2>0, <3>2, <3>3, <4>1
    <3>4. CASE t # u
      BY <2>0, <3>2, <3>4
    <3>5. QED
      BY <3>3, <3>4
  <2>2. CASE Tick
    <3>1. CASE At(t, Sweeping)
      <4>1. task'[t] = Ticked(t)
        BY <1>1, <2>2, <3>1, TickFacts
      <4>2. Timed(task[t], Ticked(t))
        BY <2>0 DEF Timed, Ticked, Task
      <4>3. QED
        BY <2>0, <3>1, <4>1, <4>2
    <3>2. CASE ~At(t, Sweeping)
      BY <1>1, <2>0, <2>2, <3>2, TickFacts
    <3>3. QED
      BY <3>1, <3>2
  <2>3. CASE UNCHANGED vars
    BY <2>0, <2>3 DEF vars
  <2>4. QED
    BY <1>1, <2>1, <2>2, <2>3 DEF Next, Does
<1>2. Inv1 /\ [Next]_vars => \A t \in Tasks : P(t)
  BY <1>1
<1>3. QED
  BY <1>2, Init1, Step1, PTL DEF Spec
=============================================================================
