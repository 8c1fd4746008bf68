------------------------- MODULE JobSchedulerProofs -------------------------
(***************************************************************************)
(* Proofs about the cron scheduler, for every set of replicas, every       *)
(* period, every choice of faults and every bound on time and faults.      *)
(***************************************************************************)
EXTENDS JobScheduler, CountingLemmas, TLAPS

(***************************************************************************)
(* Time                                                                    *)
(***************************************************************************)

LEMMA DivMonotone ==
  ASSUME NEW n \in Nat \ {0}, NEW a \in Nat, NEW b \in Nat, a <= b
  PROVE  a \div n <= b \div n /\ a \div n \in Nat
  OBVIOUS

(* The next occurrence of the schedule is in the future.                   *)
LEMMA NextIsLater ==
  ASSUME NEW t \in Nat
  PROVE  NextAfter(t) \in Nat /\ NextAfter(t) > t
  BY JobSchedulerAssumption DEF NextAfter

LEMMA MinuteType ==
  ASSUME NEW t \in Times
  PROVE  Minute(t) \in Minutes
  <1>1. t \in Nat /\ MaxNow \in Nat /\ t <= MaxNow /\ TicksPerMinute \in Nat \ {0}
    BY JobSchedulerAssumption DEF Times
  <1>2. t \div TicksPerMinute <= MaxNow \div TicksPerMinute
        /\ t \div TicksPerMinute \in Nat
    BY <1>1, DivMonotone
  <1>3. MaxNow \div TicksPerMinute \in Nat
    BY <1>1, DivMonotone
  <1> QED
    BY <1>2, <1>3 DEF Minute, Minutes

(***************************************************************************)
(* Type correctness                                                        *)
(***************************************************************************)

LEMMA InsertType ==
  ASSUME TypeOK, NEW r \in Replicas, Insert(r)
  PROVE  /\ active' \in SUBSET Minutes /\ fires' \in [Occurrences -> Nat]
         /\ late' \in [Replicas -> Nat]
  <1>1. Key(r) \in Minutes
    BY MinuteType DEF TypeOK, Key
  <1>2. \A o \in Occurrences : fires[o] \in Nat /\ fires[o] + 1 \in Nat
    BY DEF TypeOK
  <1>3. late[r] \in Nat /\ late[r] + 1 \in Nat
    BY DEF TypeOK
  <1>4. fires' \in [Occurrences -> Nat]
    BY <1>2 DEF TypeOK, Insert
  <1>5. late' \in [Replicas -> Nat]
    BY <1>3 DEF TypeOK, Insert
  <1> QED
    BY <1>1, <1>4, <1>5 DEF TypeOK, Insert

LEMMA FaultType ==
  ASSUME TypeOK, NEW kind, Fault(kind)
  PROVE  faults' \in 0..MaxFaults /\ faults' = faults + 1
  BY JobSchedulerAssumption DEF TypeOK, Fault

LEMMA ReplicaType ==
  ASSUME TypeOK, NEW r \in Replicas,
         \/ TickLoop(r) \/ Shutdown(r) \/ LoseLock(r) \/ Crash(r)
         \/ EnqueueError(r) \/ StampLost(r) \/ CheckFails(r) \/ CloseIdle(r)
  PROVE  TypeOK'
  <1>0. \A l \in PCs : Goto(r, l) => pc' \in [Replicas -> PCs]
    BY DEF TypeOK, Goto
  <1>00. {"out", "idle", "first", "due", "stamp", "verify"} \subseteq PCs
    BY DEF PCs
  <1>1. CASE TryAcquireLock(r)
    BY <1>0, <1>00, <1>1 DEF TypeOK, TryAcquireLock
  <1>2. CASE StillHoldsLock(r)
    BY <1>0, <1>00, <1>2 DEF TypeOK, StillHoldsLock
  <1>3. CASE Shutdown(r)
    BY <1>0, <1>00, <1>3 DEF TypeOK, Shutdown
  <1>4. CASE LoseLock(r)
    BY <1>4, FaultType DEF TypeOK, LoseLock
  <1>5. CASE Crash(r)
    BY <1>0, <1>00, <1>5, FaultType DEF TypeOK, Crash
  <1>6. CASE ReadCron(r)
    <2>1. seen' \in [Replicas -> [now : Times, last : Times \cup {Null}]]
      BY <1>6 DEF TypeOK, ReadCron
    <2>2. pc' \in [Replicas -> PCs]
      BY <1>0, <1>00, <1>6 DEF ReadCron
    <2> QED
      BY <1>6, <2>1, <2>2 DEF TypeOK, ReadCron
  <1>7. CASE Enqueue(r)
    BY <1>0, <1>00, <1>7, InsertType DEF TypeOK, Enqueue
  <1>8. CASE EnqueueError(r)
    BY <1>0, <1>00, <1>8, InsertType, FaultType DEF TypeOK, EnqueueError
  <1>9. CASE Stamp(r)
    BY <1>0, <1>00, <1>9 DEF TypeOK, Stamp
  <1>10. CASE StampLost(r)
    BY <1>0, <1>00, <1>10, FaultType DEF TypeOK, StampLost
  <1>11. CASE CheckFails(r)
    BY <1>0, <1>00, <1>11, FaultType DEF TypeOK, CheckFails
  <1>12. CASE CloseIdle(r)
    BY <1>12 DEF TypeOK, CloseIdle
  <1> QED
    BY <1>1, <1>2, <1>3, <1>4, <1>5, <1>6, <1>7, <1>8, <1>9, <1>10, <1>11, <1>12
       DEF TickLoop

LEMMA TypeStep == TypeOK /\ [Next]_vars => TypeOK'
  <1> SUFFICES ASSUME TypeOK, [Next]_vars PROVE TypeOK'
    OBVIOUS
  <1>1. ASSUME NEW m \in Minutes, JobFinishes(m) PROVE TypeOK'
    BY <1>1 DEF TypeOK, JobFinishes
  <1>2. CASE Tick
    BY <1>2, JobSchedulerAssumption DEF TypeOK, Tick, Times
  <1>3. CASE UNCHANGED vars
    BY <1>3 DEF TypeOK, vars
  <1> QED
    BY <1>1, <1>2, <1>3, ReplicaType DEF Next

LEMMA TypeInit == Init => TypeOK
  BY JobSchedulerAssumption DEF Init, TypeOK, Times, PCs

(* Every reachable state of the scheduler is well typed; in particular the *)
(* minute buckets and the fault count stay within their bounds.            *)
THEOREM TypeCorrect == Spec => []TypeOK
  BY TypeInit, TypeStep, PTL DEF Spec

(***************************************************************************)
(* Ownership                                                               *)
(***************************************************************************)

LEMMA SoleStep == TypeOK /\ SoleOwner /\ [Next]_vars => SoleOwner'
  <1> SUFFICES ASSUME TypeOK, SoleOwner, [Next]_vars, faults' = 0,
                      NEW r \in Replicas, pc'[r] # "out"
               PROVE  holder' = r
    BY DEF SoleOwner
  <1>1. \A kind : Fault(kind) => FALSE
    BY FaultType DEF TypeOK
  <1>2. faults = 0 /\ \A s \in Replicas : pc[s] # "out" => holder = s
    BY <1>1 DEF SoleOwner, Next, TickLoop, TryAcquireLock, ReadCron, Enqueue, Stamp,
                StillHoldsLock, Shutdown, LoseLock, Crash, EnqueueError, StampLost,
                CheckFails, CloseIdle, JobFinishes, Tick, vars
  <1>3. ASSUME NEW s \in Replicas, TryAcquireLock(s) PROVE holder' = r
    BY <1>2, <1>3, JobSchedulerAssumption DEF TryAcquireLock, Goto, TypeOK
  <1>4. ASSUME NEW s \in Replicas, StillHoldsLock(s) \/ Shutdown(s) \/ CloseIdle(s)
        PROVE  holder' = r
    BY <1>2, <1>4 DEF StillHoldsLock, Shutdown, CloseIdle, Goto, TypeOK
  <1>5. ASSUME NEW s \in Replicas, ReadCron(s) \/ Enqueue(s) \/ Stamp(s)
        PROVE holder' = r
    BY <1>2, <1>5 DEF ReadCron, Enqueue, Stamp, Goto, TypeOK
  <1>6. CASE Tick \/ (\E m \in Minutes : JobFinishes(m)) \/ UNCHANGED vars
    BY <1>2, <1>6 DEF Tick, JobFinishes, vars
  <1> QED
    BY <1>1, <1>3, <1>4, <1>5, <1>6
       DEF Next, TickLoop, LoseLock, Crash, EnqueueError, StampLost, CheckFails

(* Without a fault the replica inside tick_loop is the one that owns the   *)
(* advisory lock, so there is one at most.                                 *)
THEOREM OwnerIsSole == Spec => []SoleOwner
  <1>1. Init => SoleOwner
    BY DEF Init, SoleOwner
  <1> QED
    BY <1>1, SoleStep, TypeCorrect, PTL DEF Spec

(* A replica that has enqueued without the lock is past the enqueue of its *)
(* tick, and the guard after the tick lies before the next one.            *)
LateInv ==
  \A r \in Replicas :
     \/ late[r] = 0
     \/ late[r] = 1 /\ holder # r /\ pc[r] \in {"stamp", "verify", "out"}

LEMMA LateStep == TypeOK /\ LateInv /\ [Next]_vars => LateInv'
  <1> SUFFICES ASSUME TypeOK, LateInv, [Next]_vars, NEW r \in Replicas
               PROVE  \/ late'[r] = 0
                      \/ /\ late'[r] = 1 /\ holder' # r
                         /\ pc'[r] \in {"stamp", "verify", "out"}
    BY DEF LateInv
  <1> USE DEF Goto
  <1>0. \/ late[r] = 0
        \/ late[r] = 1 /\ holder # r /\ pc[r] \in {"stamp", "verify", "out"}
    BY DEF LateInv
  <1>1. ASSUME NEW s \in Replicas, TryAcquireLock(s)
        PROVE  \/ late'[r] = 0
               \/ /\ late'[r] = 1 /\ holder' # r
                  /\ pc'[r] \in {"stamp", "verify", "out"}
    BY <1>0, <1>1 DEF TryAcquireLock, TypeOK
  <1>2. ASSUME NEW s \in Replicas,
               \/ StillHoldsLock(s) \/ Shutdown(s) \/ LoseLock(s) \/ Crash(s)
               \/ ReadCron(s) \/ Stamp(s) \/ StampLost(s) \/ CheckFails(s) \/ CloseIdle(s)
        PROVE  \/ late'[r] = 0
               \/ /\ late'[r] = 1 /\ holder' # r
                  /\ pc'[r] \in {"stamp", "verify", "out"}
    BY <1>0, <1>2, JobSchedulerAssumption
       DEF StillHoldsLock, Shutdown, LoseLock, Crash, ReadCron, Stamp, StampLost,
           CheckFails, CloseIdle, TypeOK
  <1>3. ASSUME NEW s \in Replicas, Enqueue(s) \/ EnqueueError(s)
        PROVE  \/ late'[r] = 0
               \/ /\ late'[r] = 1 /\ holder' # r
                  /\ pc'[r] \in {"stamp", "verify", "out"}
    <2>1. /\ pc[s] = "due" /\ holder' = holder
          /\ pc' = [pc EXCEPT ![s] = "stamp"] \/ pc' = [pc EXCEPT ![s] = "verify"]
          /\ \/ late' = late
             \/ late' = [late EXCEPT ![s] = IF holder = s THEN 0 ELSE @ + 1]
      BY <1>3 DEF Enqueue, EnqueueError, Insert
    <2> QED
      BY <1>0, <2>1 DEF TypeOK
  <1>4. CASE Tick \/ (\E m \in Minutes : JobFinishes(m)) \/ UNCHANGED vars
    BY <1>0, <1>4 DEF Tick, JobFinishes, vars
  <1> QED
    BY <1>1, <1>2, <1>3, <1>4 DEF Next, TickLoop

(* A replica whose lock connection died enqueues one more job at most      *)
(* before it leaves tick_loop.                                             *)
THEOREM DeposedReplicasStop == Spec => []DeposedStops
  <1>1. Init => LateInv
    BY DEF Init, LateInv
  <1>2. LateInv => DeposedStops
    BY DEF LateInv, DeposedStops
  <1> QED
    BY <1>1, <1>2, LateStep, TypeCorrect, PTL DEF Spec

(***************************************************************************)
(* How often an occurrence of the schedule is enqueued                     *)
(***************************************************************************)

(* Replicas inside tick_loop that lost the lock.                           *)
Deposed == {r \in Replicas : pc[r] # "out" /\ holder # r}

(* Whoever reads the row now may find occurrence o due, now or later.      *)
Ahead(o) == last = Null \/ NextAfter(last) <= o

(* Deposed replicas that may still enqueue o.                              *)
Threats(o) == {r \in Deposed : \/ pc[r] = "idle" /\ Ahead(o)
                               \/ pc[r] = "due" /\ NextAfter(seen[r].last) = o}

(* The owner, or the next one, may enqueue o without a further fault.      *)
OwnerMayFire(o) ==
  IF \E r \in Replicas : holder = r /\ pc[r] \in {"stamp", "due"}
  THEN \E r \in Replicas : holder = r /\ pc[r] = "due" /\ NextAfter(seen[r].last) = o
  ELSE Ahead(o)
OwnerChance(o) == IF OwnerMayFire(o) THEN 1 ELSE 0
Chances(o) == Cardinality(Threats(o))

(* A replica that found the job due saw an occurrence that has passed.     *)
DueSeen ==
  \A r \in Replicas : pc[r] = "due" =>
     /\ seen[r].last # Null
     /\ NextAfter(seen[r].last) <= seen[r].now /\ seen[r].now <= now

FutureUnfired == \A o \in Occurrences : o > now => fires[o] = 0

(* Every deposed replica stands for a fault of its own.                    *)
DeposedCounted == IsFiniteSet(Deposed) /\ Cardinality(Deposed) <= faults

(* The enqueues of a past occurrence and those that may still come without *)
(* a further fault.                                                        *)
FireBudget ==
  \A o \in Occurrences : o <= now =>
     fires[o] + Chances(o) + OwnerChance(o) <= 1 + faults

FireInv == DueSeen /\ FutureUnfired /\ DeposedCounted /\ FireBudget

LEMMA ThreatsTyped ==
  ASSUME DeposedCounted, TypeOK, NEW o
  PROVE  /\ IsFiniteSet(Threats(o)) /\ Chances(o) \in Nat /\ Chances(o) <= faults
         /\ OwnerChance(o) \in {0, 1} /\ faults \in Nat
  <1>1. Threats(o) \subseteq Deposed
    BY DEF Threats
  <1>2. faults \in Nat
    BY DEF TypeOK
  <1> QED
    BY <1>1, <1>2, SubsetCount DEF DeposedCounted, Chances, OwnerChance

(* A step that deposes nobody.                                             *)
LEMMA DeposedFrame ==
  ASSUME TypeOK, TypeOK', DeposedCounted, Deposed' \subseteq Deposed, faults' >= faults
  PROVE  DeposedCounted'
  <1>1. IsFiniteSet(Deposed') /\ Cardinality(Deposed') <= Cardinality(Deposed)
        /\ Cardinality(Deposed') \in Nat /\ Cardinality(Deposed) \in Nat
    BY SubsetCount DEF DeposedCounted
  <1>2. faults \in Nat /\ faults' \in Nat
    BY DEF TypeOK
  <1>3. Cardinality(Deposed') <= faults'
    BY <1>1, <1>2 DEF DeposedCounted
  <1> QED
    BY <1>1, <1>3 DEF DeposedCounted

LEMMA DeposedStep ==
  ASSUME TypeOK, TypeOK', DeposedCounted, [Next]_vars
  PROVE  DeposedCounted'
  <1>0. faults \in Nat /\ faults' \in Nat
    BY DEF TypeOK
  <1>1. ASSUME NEW r \in Replicas, LoseLock(r) PROVE DeposedCounted'
    <2>1. Deposed' \subseteq Deposed \cup {r} /\ faults' = faults + 1
      BY <1>1 DEF LoseLock, Deposed, Fault
    <2>2. IsFiniteSet(Deposed') /\ Cardinality(Deposed') <= Cardinality(Deposed) + 1
      BY <2>1, AddCount DEF DeposedCounted
    <2>3. Cardinality(Deposed) \in Nat /\ Cardinality(Deposed') \in Nat
      BY <2>2, SubsetCount DEF DeposedCounted
    <2>4. Cardinality(Deposed') <= faults'
      BY <1>0, <2>1, <2>2, <2>3 DEF DeposedCounted
    <2> QED
      BY <2>2, <2>4 DEF DeposedCounted
  <1>2. ASSUME NEW r \in Replicas, TryAcquireLock(r)
        PROVE  Deposed' \subseteq Deposed /\ faults' = faults
    BY <1>2, JobSchedulerAssumption DEF TryAcquireLock, Goto, Deposed, TypeOK
  <1>3. ASSUME NEW r \in Replicas, Shutdown(r) \/ Crash(r) \/ CheckFails(r) \/ CloseIdle(r)
        PROVE  Deposed' \subseteq Deposed /\ faults' >= faults
    BY <1>0, <1>3 DEF Shutdown, Crash, CheckFails, CloseIdle, Fault, Goto, Deposed, TypeOK
  <1>4. ASSUME NEW r \in Replicas,
               \/ StillHoldsLock(r) \/ ReadCron(r) \/ Enqueue(r) \/ EnqueueError(r)
               \/ Stamp(r) \/ StampLost(r)
        PROVE  Deposed' \subseteq Deposed /\ faults' >= faults
    <2>1. /\ holder' = holder /\ pc[r] # "out"
          /\ \A s \in Replicas : s # r => pc'[s] = pc[s]
      BY <1>4 DEF StillHoldsLock, ReadCron, Enqueue, EnqueueError, Stamp, StampLost,
                  Goto, TypeOK
    <2>2. faults' = faults \/ faults' = faults + 1
      BY <1>4 DEF StillHoldsLock, ReadCron, Enqueue, EnqueueError, Stamp, StampLost, Fault
    <2> QED
      BY <1>0, <2>1, <2>2 DEF Deposed
  <1>5. CASE Tick \/ (\E m \in Minutes : JobFinishes(m)) \/ UNCHANGED vars
    BY <1>0, <1>5 DEF Tick, JobFinishes, vars, Deposed, DeposedCounted
  <1>6. faults' = faults => faults' >= faults
    BY <1>0
  <1> QED
    BY <1>1, <1>2, <1>3, <1>4, <1>5, <1>6, DeposedFrame DEF Next, TickLoop

LEMMA DueStep ==
  ASSUME TypeOK, TypeOK', DueSeen, [Next]_vars
  PROVE  DueSeen'
  <1> SUFFICES ASSUME NEW r \in Replicas, pc'[r] = "due"
               PROVE  /\ seen'[r].last # Null
                      /\ NextAfter(seen'[r].last) <= seen'[r].now /\ seen'[r].now <= now'
    BY DEF DueSeen
  <1>1. now \in Nat /\ (now' = now \/ now' = now + 1)
    BY DEF TypeOK, Times, Next, TickLoop, TryAcquireLock, ReadCron, Enqueue, Stamp,
           StillHoldsLock, Shutdown, LoseLock, Crash, EnqueueError, StampLost,
           CheckFails, CloseIdle, JobFinishes, Tick, vars
  <1>2. CASE ReadCron(r)
    BY <1>1, <1>2 DEF ReadCron, Goto, TypeOK
  <1>3. CASE ~ReadCron(r)
    <2>1. pc[r] = "due" /\ seen'[r] = seen[r]
      <3>1. ASSUME NEW s \in Replicas, ReadCron(s) PROVE pc[r] = "due" /\ seen'[r] = seen[r]
        BY <1>3, <3>1 DEF ReadCron, Goto, TypeOK
      <3>2. ASSUME NEW s \in Replicas,
                   \/ TryAcquireLock(s) \/ StillHoldsLock(s) \/ Shutdown(s) \/ LoseLock(s)
                   \/ Crash(s) \/ Enqueue(s) \/ EnqueueError(s) \/ Stamp(s) \/ StampLost(s)
                   \/ CheckFails(s) \/ CloseIdle(s)
            PROVE  pc[r] = "due" /\ seen'[r] = seen[r]
        BY <3>2 DEF TryAcquireLock, StillHoldsLock, Shutdown, LoseLock, Crash, Enqueue,
                    EnqueueError, Stamp, StampLost, CheckFails, CloseIdle, Goto, TypeOK
      <3>3. CASE Tick \/ (\E m \in Minutes : JobFinishes(m)) \/ UNCHANGED vars
        BY <3>3 DEF Tick, JobFinishes, vars
      <3> QED
        BY <3>1, <3>2, <3>3 DEF Next, TickLoop
    <2>2. seen[r].now \in Nat
      BY DEF TypeOK, Times
    <2> QED
      BY <1>1, <2>1, <2>2 DEF DueSeen
  <1> QED
    BY <1>2, <1>3

(* What an enqueue, or a failed one, does to the count of o.               *)
LEMMA FireEffect ==
  ASSUME TypeOK, DueSeen, NEW r \in Replicas, pc[r] = "due",
         Insert(r) \/ UNCHANGED fires, NEW o \in Occurrences
  PROVE  /\ \/ fires'[o] = fires[o]
            \/ fires'[o] = fires[o] + 1 /\ NextAfter(seen[r].last) = o
         /\ NextAfter(seen[r].last) <= now
  <1>1. NextAfter(seen[r].last) <= now
    <2>1. /\ seen[r].last \in Nat /\ seen[r].now \in Nat /\ now \in Nat
          /\ NextAfter(seen[r].last) <= seen[r].now /\ seen[r].now <= now
      BY DEF DueSeen, TypeOK, Times
    <2> QED
      BY <2>1, NextIsLater
  <1>2. \/ fires'[o] = fires[o]
        \/ fires'[o] = fires[o] + 1 /\ NextAfter(seen[r].last) = o
    BY DEF Insert, TypeOK
  <1> QED
    BY <1>1, <1>2

LEMMA FutureStep ==
  ASSUME TypeOK, TypeOK', DueSeen, FutureUnfired, [Next]_vars
  PROVE  FutureUnfired'
  <1> SUFFICES ASSUME NEW o \in Occurrences, o > now' PROVE fires'[o] = 0
    BY DEF FutureUnfired
  <1>1. now \in Nat /\ o \in Nat /\ (now' = now \/ now' = now + 1)
    BY DEF TypeOK, Times, Occurrences, Next, TickLoop, TryAcquireLock, ReadCron, Enqueue,
           Stamp, StillHoldsLock, Shutdown, LoseLock, Crash, EnqueueError, StampLost,
           CheckFails, CloseIdle, JobFinishes, Tick, vars
  <1>2. fires[o] = 0
    BY <1>1 DEF FutureUnfired
  <1>3. ASSUME NEW r \in Replicas, Enqueue(r) \/ EnqueueError(r)
        PROVE  fires'[o] = fires[o]
    <2>1. pc[r] = "due" /\ (Insert(r) \/ UNCHANGED fires) /\ now' = now
      BY <1>3 DEF Enqueue, EnqueueError
    <2> QED
      BY <1>1, <2>1, FireEffect
  <1> QED
    BY <1>2, <1>3
       DEF Next, TickLoop, TryAcquireLock, ReadCron, Stamp, StillHoldsLock, Shutdown,
           LoseLock, Crash, StampLost, CheckFails, CloseIdle, JobFinishes, Tick, vars

BudgetAt(o) == fires[o] + Chances(o) + OwnerChance(o) <= 1 + faults

(* What may be enqueued still does not grow.                               *)
LEMMA BudgetKept ==
  ASSUME TypeOK, TypeOK', DeposedCounted, NEW o \in Occurrences, BudgetAt(o),
         Threats(o)' \subseteq Threats(o), OwnerMayFire(o)' => OwnerMayFire(o),
         fires'[o] = fires[o], faults' >= faults
  PROVE  BudgetAt(o)'
  <1>1. /\ IsFiniteSet(Threats(o)) /\ Chances(o) \in Nat
        /\ fires[o] \in Nat /\ faults \in Nat /\ faults' \in Nat
    BY ThreatsTyped DEF TypeOK
  <1>2. Chances(o)' <= Chances(o) /\ Chances(o)' \in Nat
    BY <1>1, SubsetCount DEF Chances
  <1>3. OwnerChance(o) \in {0, 1} /\ OwnerChance(o)' \in {0, 1}
        /\ OwnerChance(o)' <= OwnerChance(o)
    BY DEF OwnerChance
  <1> QED
    BY <1>1, <1>2, <1>3 DEF BudgetAt

(* A fault pays for one more chance of the owner.                          *)
LEMMA BudgetFault ==
  ASSUME TypeOK, TypeOK', DeposedCounted, NEW o \in Occurrences, BudgetAt(o),
         Threats(o)' \subseteq Threats(o),
         fires'[o] = fires[o], faults' = faults + 1
  PROVE  BudgetAt(o)'
  <1>1. /\ IsFiniteSet(Threats(o)) /\ Chances(o) \in Nat
        /\ fires[o] \in Nat /\ faults \in Nat
    BY ThreatsTyped DEF TypeOK
  <1>2. Chances(o)' <= Chances(o) /\ Chances(o)' \in Nat
    BY <1>1, SubsetCount DEF Chances
  <1>3. OwnerChance(o) \in {0, 1} /\ OwnerChance(o)' \in {0, 1}
    BY DEF OwnerChance
  <1> QED
    BY <1>1, <1>2, <1>3 DEF BudgetAt

(* Steps of a replica that change neither the lock nor the row: its own    *)
(* place in the tick is all that counts.                                   *)
LEMMA ThreatFrame ==
  ASSUME TypeOK, NEW r \in Replicas, NEW o,
         holder' = holder, last' = last,
         \A s \in Replicas : s # r => pc'[s] = pc[s] /\ seen'[s] = seen[s],
         pc[r] # "out"
  PROVE  /\ pc'[r] \notin {"idle", "due"} => Threats(o)' \subseteq Threats(o) \ {r}
         /\ Ahead(o)' = Ahead(o)
         /\ holder # r => OwnerMayFire(o)' = OwnerMayFire(o)
         /\ holder = r => r \notin Deposed /\ Threats(o)' \subseteq Threats(o)
  <1>1. Ahead(o)' = Ahead(o)
    BY DEF Ahead
  <1>2. pc'[r] \notin {"idle", "due"} => Threats(o)' \subseteq Threats(o) \ {r}
    BY <1>1 DEF Threats, Deposed
  <1>3. holder # r => OwnerMayFire(o)' = OwnerMayFire(o)
    BY <1>1 DEF OwnerMayFire
  <1>4. holder = r => r \notin Deposed /\ Threats(o)' \subseteq Threats(o)
    BY <1>1 DEF Threats, Deposed
  <1> QED
    BY <1>1, <1>2, <1>3, <1>4

(* With the owner in `label`, what it may enqueue.                         *)
LEMMA OwnerHolds ==
  ASSUME TypeOK, NEW o, NEW r \in Replicas, holder = r
  PROVE  /\ pc[r] = "stamp" => ~OwnerMayFire(o)
         /\ pc[r] = "due" => (OwnerMayFire(o) <=> NextAfter(seen[r].last) = o)
         /\ pc[r] \notin {"stamp", "due"} => (OwnerMayFire(o) <=> Ahead(o))
  BY DEF OwnerMayFire

LEMMA OwnerHoldsNext ==
  ASSUME TypeOK', NEW o, NEW r \in Replicas, holder' = r
  PROVE  /\ pc'[r] = "stamp" => ~OwnerMayFire(o)'
         /\ pc'[r] = "due" => (OwnerMayFire(o)' <=> NextAfter(seen'[r].last) = o)
         /\ pc'[r] \notin {"stamp", "due"} => (OwnerMayFire(o)' <=> Ahead(o)')
  BY DEF OwnerMayFire

LEMMA LockBudget ==
  ASSUME TypeOK, TypeOK', DeposedCounted, NEW o \in Occurrences, BudgetAt(o),
         NEW r \in Replicas,
         \/ TryAcquireLock(r) \/ StillHoldsLock(r) \/ Shutdown(r) \/ Crash(r)
         \/ CheckFails(r) \/ CloseIdle(r)
  PROVE  BudgetAt(o)'
  <1>0. /\ last' = last /\ seen' = seen /\ fires' = fires
        /\ \A s \in Replicas : s # r => pc'[s] = pc[s]
        /\ Ahead(o)' = Ahead(o)
    BY DEF TryAcquireLock, StillHoldsLock, Shutdown, Crash, CheckFails, CloseIdle, Goto,
           Ahead, TypeOK
  <1>00. faults \in Nat /\ (faults' = faults => faults' >= faults)
    BY DEF TypeOK
  <1>1. CASE TryAcquireLock(r)
    <2>1. /\ holder \in {NoOne, r} /\ holder' = r /\ pc[r] = "out" /\ pc'[r] = "idle"
          /\ faults' = faults
      BY <1>1 DEF TryAcquireLock, Goto, TypeOK
    <2>2. Threats(o)' \subseteq Threats(o)
      BY <1>0, <2>1, JobSchedulerAssumption DEF Threats, Deposed
    <2>3. OwnerMayFire(o) <=> Ahead(o)
      BY <2>1, OwnerHolds, JobSchedulerAssumption DEF OwnerMayFire
    <2>4. OwnerMayFire(o)' <=> Ahead(o)
      BY <1>0, <2>1, OwnerHoldsNext
    <2> QED
      BY <1>0, <1>00, <2>1, <2>2, <2>3, <2>4, BudgetKept
  <1>2. CASE StillHoldsLock(r)
    <2>1. /\ holder' = holder /\ faults' = faults /\ pc[r] = "verify"
          /\ pc'[r] = IF holder = r THEN "idle" ELSE "out"
      BY <1>2 DEF StillHoldsLock, Goto, TypeOK
    <2>2. CASE holder = r
      <3>1. Threats(o)' \subseteq Threats(o)
        BY <1>0, <2>1, <2>2, ThreatFrame
      <3>2. OwnerMayFire(o)' => OwnerMayFire(o)
        BY <1>0, <2>1, <2>2, OwnerHolds, OwnerHoldsNext
      <3> QED
        BY <1>0, <1>00, <2>1, <3>1, <3>2, BudgetKept
    <2>3. CASE holder # r
      <3>1. Threats(o)' \subseteq Threats(o) /\ OwnerMayFire(o)' = OwnerMayFire(o)
        BY <1>0, <2>1, <2>3, ThreatFrame
      <3> QED
        BY <1>0, <1>00, <2>1, <3>1, BudgetKept
    <2> QED
      BY <2>2, <2>3
  <1>3. CASE Shutdown(r)
    <2>1. /\ holder' = (IF holder = r THEN NoOne ELSE holder)
          /\ faults' = faults /\ pc[r] = "idle" /\ pc'[r] = "out"
      BY <1>3 DEF Shutdown, Goto, TypeOK
    <2>2. Threats(o)' \subseteq Threats(o)
      BY <1>0, <2>1 DEF Threats, Deposed
    <2>3. OwnerMayFire(o)' => OwnerMayFire(o)
      <3>1. CASE holder = r
        <4>1. OwnerMayFire(o)' <=> Ahead(o)
          BY <1>0, <2>1, <3>1, JobSchedulerAssumption DEF OwnerMayFire
        <4> QED
          BY <2>1, <3>1, <4>1, OwnerHolds
      <3>2. CASE holder # r
        BY <1>0, <2>1, <3>2 DEF OwnerMayFire
      <3> QED
        BY <3>1, <3>2
    <2> QED
      BY <1>0, <1>00, <2>1, <2>2, <2>3, BudgetKept
  <1>4. CASE Crash(r)
    <2>1. /\ holder' = (IF holder = r THEN NoOne ELSE holder)
          /\ faults' = faults + 1 /\ pc'[r] = "out"
      BY <1>4 DEF Crash, Fault, Goto, TypeOK
    <2>2. Threats(o)' \subseteq Threats(o)
      BY <1>0, <2>1 DEF Threats, Deposed
    <2> QED
      BY <1>0, <2>1, <2>2, BudgetFault
  <1>5. CASE CheckFails(r)
    <2>1. /\ holder' = holder \/ (holder = r /\ holder' = NoOne)
          /\ faults' = faults + 1 /\ pc'[r] = "out"
      BY <1>5 DEF CheckFails, Fault, Goto, TypeOK
    <2>2. Threats(o)' \subseteq Threats(o)
      BY <1>0, <2>1 DEF Threats, Deposed
    <2> QED
      BY <1>0, <2>1, <2>2, BudgetFault
  <1>6. CASE CloseIdle(r)
    <2>1. /\ holder = r /\ holder' = NoOne /\ faults' = faults
          /\ pc[r] = "out" /\ pc' = pc
      BY <1>6 DEF CloseIdle
    <2>2. Threats(o)' \subseteq Threats(o)
      BY <1>0, <2>1 DEF Threats, Deposed
    <2>3. OwnerMayFire(o)' <=> Ahead(o)
      BY <1>0, <2>1, JobSchedulerAssumption DEF OwnerMayFire
    <2>4. OwnerMayFire(o) <=> Ahead(o)
      BY <2>1, OwnerHolds
    <2> QED
      BY <1>0, <1>00, <2>1, <2>2, <2>3, <2>4, BudgetKept
  <1> QED
    BY <1>1, <1>2, <1>3, <1>4, <1>5, <1>6

(* Losing the lock makes the owner a threat and frees its place.           *)
LEMMA LoseBudget ==
  ASSUME TypeOK, TypeOK', DeposedCounted, NEW o \in Occurrences, BudgetAt(o),
         NEW r \in Replicas, LoseLock(r)
  PROVE  BudgetAt(o)'
  <1>1. /\ holder = r /\ holder' = NoOne /\ faults' = faults + 1
        /\ pc' = pc /\ seen' = seen /\ last' = last /\ fires' = fires
        /\ Ahead(o)' = Ahead(o)
    BY DEF LoseLock, Fault, Ahead
  <1>2. /\ IsFiniteSet(Threats(o)) /\ Chances(o) \in Nat
        /\ fires[o] \in Nat /\ faults \in Nat
    BY ThreatsTyped DEF TypeOK
  <1>3. OwnerChance(o) \in {0, 1} /\ OwnerChance(o)' \in {0, 1}
    BY DEF OwnerChance
  <1>4. CASE OwnerMayFire(o)
    <2>1. Threats(o)' \subseteq Threats(o) \cup {r}
      BY <1>1 DEF Threats, Deposed
    <2>2. IsFiniteSet(Threats(o)') /\ Chances(o)' <= Chances(o) + 1
      BY <1>2, <2>1, AddCount DEF Chances
    <2>3. Chances(o)' \in Nat
      BY <2>2, SubsetCount DEF Chances
    <2>4. OwnerChance(o) = 1
      BY <1>4 DEF OwnerChance
    <2> QED
      BY <1>1, <1>2, <1>3, <2>2, <2>3, <2>4 DEF BudgetAt
  <1>5. CASE ~OwnerMayFire(o)
    <2>1. r \notin Threats(o)'
      BY <1>1, <1>5, OwnerHolds DEF Threats
    <2>2. Threats(o)' \subseteq Threats(o)
      BY <1>1, <2>1 DEF Threats, Deposed
    <2> QED
      BY <1>1, <2>2, BudgetFault
  <1> QED
    BY <1>4, <1>5

LEMMA ReadBudget ==
  ASSUME TypeOK, TypeOK', DeposedCounted, NEW o \in Occurrences, BudgetAt(o),
         NEW r \in Replicas, ReadCron(r)
  PROVE  BudgetAt(o)'
  <1>1. /\ pc[r] = "idle" /\ holder' = holder /\ last' = last /\ fires' = fires
        /\ faults' = faults /\ pc'[r] \in {"first", "verify", "due"}
        /\ \A s \in Replicas : s # r => pc'[s] = pc[s] /\ seen'[s] = seen[s]
        /\ pc'[r] = "due" => last # Null /\ seen'[r].last = last
    BY DEF ReadCron, Goto, TypeOK
  <1>2. pc'[r] = "due" /\ NextAfter(seen'[r].last) = o => Ahead(o)
    <2>1. o \in Nat /\ (pc'[r] = "due" => NextAfter(last) \in Nat)
      BY <1>1, NextIsLater DEF Occurrences, TypeOK, Times
    <2> QED
      BY <1>1, <2>1 DEF Ahead
  <1>3. Ahead(o)' = Ahead(o)
    BY <1>1 DEF Ahead
  <1>4. Threats(o)' \subseteq Threats(o)
    BY <1>1, <1>2, <1>3 DEF Threats, Deposed
  <1>5. OwnerMayFire(o)' => OwnerMayFire(o)
    <2>1. CASE holder = r
      BY <1>1, <1>2, <1>3, <2>1, OwnerHolds, OwnerHoldsNext
    <2>2. CASE holder # r
      BY <1>1, <2>2, ThreatFrame
    <2> QED
      BY <2>1, <2>2
  <1>6. faults' >= faults
    BY <1>1 DEF TypeOK
  <1> QED
    BY <1>1, <1>4, <1>5, <1>6, BudgetKept

(* The stamp is later than every occurrence that has passed.               *)
LEMMA StampBudget ==
  ASSUME TypeOK, TypeOK', DeposedCounted, NEW o \in Occurrences, o <= now, BudgetAt(o),
         NEW r \in Replicas, Stamp(r)
  PROVE  BudgetAt(o)'
  <1>1. /\ pc[r] \in {"first", "stamp"} /\ pc'[r] = "verify" /\ last' = now
        /\ holder' = holder /\ fires' = fires /\ faults' = faults /\ seen' = seen
        /\ \A s \in Replicas : s # r => pc'[s] = pc[s]
    BY DEF Stamp, Goto, TypeOK
  <1>2. ~Ahead(o)'
    <2>1. now \in Nat /\ o \in Nat /\ NextAfter(now) \in Nat /\ NextAfter(now) > now
      BY NextIsLater DEF TypeOK, Times, Occurrences
    <2>2. now # Null
      BY <2>1 DEF Null
    <2> QED
      BY <1>1, <2>1, <2>2 DEF Ahead
  <1>3. Threats(o)' \subseteq Threats(o)
    BY <1>1, <1>2 DEF Threats, Deposed
  <1>4. OwnerMayFire(o)' => OwnerMayFire(o)
    BY <1>1, <1>2 DEF OwnerMayFire
  <1>5. faults' >= faults
    BY <1>1 DEF TypeOK
  <1> QED
    BY <1>1, <1>3, <1>4, <1>5, BudgetKept

LEMMA StampLostBudget ==
  ASSUME TypeOK, TypeOK', DeposedCounted, NEW o \in Occurrences, BudgetAt(o),
         NEW r \in Replicas, StampLost(r)
  PROVE  BudgetAt(o)'
  <1>1. /\ pc[r] # "out" /\ pc'[r] = "verify" /\ last' = last
        /\ holder' = holder /\ fires' = fires /\ faults' = faults + 1 /\ seen' = seen
        /\ \A s \in Replicas : s # r => pc'[s] = pc[s]
    BY DEF StampLost, Fault, Goto, TypeOK
  <1>2. Threats(o)' \subseteq Threats(o)
    BY <1>1, ThreatFrame
  <1> QED
    BY <1>1, <1>2, BudgetFault

(* An enqueue uses up the chance of the replica that makes it.             *)
LEMMA EnqueueBudget ==
  ASSUME TypeOK, TypeOK', DueSeen, DeposedCounted, NEW o \in Occurrences, BudgetAt(o),
         NEW r \in Replicas, Enqueue(r) \/ EnqueueError(r)
  PROVE  BudgetAt(o)'
  <1>1. /\ pc[r] = "due" /\ last' = last /\ holder' = holder /\ seen' = seen
        /\ \A s \in Replicas : s # r => pc'[s] = pc[s]
        /\ \/ faults' = faults /\ pc'[r] = "stamp"
           \/ faults' = faults + 1 /\ pc'[r] = "verify"
        /\ Insert(r) \/ UNCHANGED fires
    BY DEF Enqueue, EnqueueError, Fault, Goto, TypeOK
  <1>2. \/ fires'[o] = fires[o]
        \/ fires'[o] = fires[o] + 1 /\ NextAfter(seen[r].last) = o
    BY <1>1, FireEffect
  <1>3. /\ IsFiniteSet(Threats(o)) /\ Chances(o) \in Nat
        /\ fires[o] \in Nat /\ faults \in Nat
        /\ OwnerChance(o) \in {0, 1} /\ OwnerChance(o)' \in {0, 1}
    BY ThreatsTyped DEF TypeOK, OwnerChance
  <1>4. CASE holder = r
    <2>1. Threats(o)' \subseteq Threats(o)
      BY <1>1, <1>4, ThreatFrame
    <2>2. Chances(o)' <= Chances(o) /\ Chances(o)' \in Nat
      BY <1>3, <2>1, SubsetCount DEF Chances
    <2>3. /\ NextAfter(seen[r].last) = o => OwnerChance(o) = 1
          /\ pc'[r] = "stamp" => OwnerChance(o)' = 0
      BY <1>1, <1>4, OwnerHolds, OwnerHoldsNext DEF OwnerChance
    <2> QED
      BY <1>1, <1>2, <1>3, <2>2, <2>3 DEF BudgetAt
  <1>5. CASE holder # r
    <2>1. /\ Threats(o)' \subseteq Threats(o) \ {r}
          /\ OwnerMayFire(o)' = OwnerMayFire(o)
      BY <1>1, <1>5, ThreatFrame
    <2>2. OwnerChance(o)' = OwnerChance(o)
      BY <2>1 DEF OwnerChance
    <2>3. CASE fires'[o] = fires[o]
      <3>1. Chances(o)' <= Chances(o) /\ Chances(o)' \in Nat
        BY <1>3, <2>1, SubsetCount DEF Chances
      <3> QED
        BY <1>1, <1>3, <2>2, <2>3, <3>1 DEF BudgetAt
    <2>4. CASE fires'[o] = fires[o] + 1 /\ NextAfter(seen[r].last) = o
      <3>1. r \in Threats(o)
        BY <1>1, <1>5, <2>4 DEF Threats, Deposed
      <3>2. IsFiniteSet(Threats(o)') /\ Chances(o)' <= Chances(o) - 1
        BY <1>3, <2>1, <3>1, RemoveCount DEF Chances
      <3>3. Chances(o)' \in Nat
        BY <3>2, SubsetCount DEF Chances
      <3> QED
        BY <1>1, <1>3, <2>2, <2>4, <3>2, <3>3 DEF BudgetAt
    <2> QED
      BY <1>2, <2>3, <2>4
  <1> QED
    BY <1>4, <1>5

(* An occurrence that has just passed was not enqueued yet: the owner and  *)
(* every deposed replica may enqueue it once.                              *)
LEMMA TickBudget ==
  ASSUME TypeOK, TypeOK', FireInv, NEW o \in Occurrences, Tick, o <= now'
  PROVE  BudgetAt(o)'
  <1>1. /\ Threats(o)' = Threats(o) /\ OwnerMayFire(o)' = OwnerMayFire(o)
        /\ fires' = fires /\ faults' = faults /\ now' = now + 1
    BY DEF Tick, Threats, Deposed, Ahead, OwnerMayFire
  <1>2. Chances(o)' = Chances(o) /\ OwnerChance(o)' = OwnerChance(o)
    BY <1>1 DEF Chances, OwnerChance
  <1>3. /\ Chances(o) \in Nat /\ Chances(o) <= faults
        /\ OwnerChance(o) \in {0, 1} /\ faults \in Nat
    BY ThreatsTyped DEF FireInv
  <1>4. CASE o <= now
    BY <1>1, <1>2, <1>4 DEF FireInv, FireBudget, BudgetAt
  <1>5. CASE o > now
    BY <1>1, <1>2, <1>3, <1>5 DEF FireInv, FutureUnfired, BudgetAt
  <1> QED
    BY <1>4, <1>5 DEF Occurrences, TypeOK, Times

LEMMA BudgetStep ==
  ASSUME TypeOK, TypeOK', FireInv, [Next]_vars
  PROVE  FireBudget'
  <1> SUFFICES ASSUME NEW o \in Occurrences, o <= now' PROVE BudgetAt(o)'
    BY DEF FireBudget, BudgetAt
  <1>1. CASE Tick
    BY <1>1, TickBudget
  <1>2. ASSUME now' = now PROVE BudgetAt(o)
    BY <1>2 DEF FireInv, FireBudget, BudgetAt
  <1>3. CASE (\E m \in Minutes : JobFinishes(m)) \/ UNCHANGED vars
    <2>1. /\ Threats(o)' = Threats(o) /\ OwnerMayFire(o)' = OwnerMayFire(o)
          /\ fires' = fires /\ faults' = faults /\ now' = now
      BY <1>3 DEF JobFinishes, vars, Threats, Deposed, Ahead, OwnerMayFire
    <2>2. Chances(o)' = Chances(o) /\ OwnerChance(o)' = OwnerChance(o)
      BY <2>1 DEF Chances, OwnerChance
    <2> QED
      BY <1>2, <2>1, <2>2 DEF BudgetAt
  <1>4. ASSUME NEW r \in Replicas,
               \/ TickLoop(r) \/ Shutdown(r) \/ LoseLock(r) \/ Crash(r)
               \/ EnqueueError(r) \/ StampLost(r) \/ CheckFails(r) \/ CloseIdle(r)
        PROVE  BudgetAt(o)'
    <2>1. now' = now
      BY <1>4 DEF TickLoop, TryAcquireLock, ReadCron, Enqueue, Stamp, StillHoldsLock,
                  Shutdown, LoseLock, Crash, EnqueueError, StampLost, CheckFails, CloseIdle
    <2>2. BudgetAt(o) /\ DeposedCounted /\ DueSeen /\ o <= now
      BY <1>2, <2>1 DEF FireInv
    <2> QED
      BY <1>4, <2>2, LockBudget, LoseBudget, ReadBudget, StampBudget, StampLostBudget,
         EnqueueBudget DEF TickLoop
  <1> QED
    BY <1>1, <1>3, <1>4 DEF Next

LEMMA FireStep ==
  ASSUME TypeOK, TypeOK', FireInv, [Next]_vars
  PROVE  FireInv'
  BY DueStep, FutureStep, DeposedStep, BudgetStep DEF FireInv

LEMMA FireInit == Init => FireInv
  <1> SUFFICES ASSUME Init PROVE FireInv
    OBVIOUS
  <1>1. Deposed = {} /\ DueSeen /\ FutureUnfired
    BY DEF Init, Deposed, DueSeen, FutureUnfired
  <1>2. DeposedCounted
    BY <1>1, FS_EmptySet DEF Init, DeposedCounted
  <1>3. \A o \in Occurrences : Chances(o) = 0
    <2>1. \A o \in Occurrences : Threats(o) = {}
      BY <1>1 DEF Threats
    <2> QED
      BY <2>1, FS_EmptySet DEF Chances
  <1>4. \A o \in Occurrences : OwnerChance(o) \in {0, 1}
    BY DEF OwnerChance
  <1>5. FireBudget
    BY <1>3, <1>4 DEF Init, FireBudget
  <1> QED
    BY <1>1, <1>2, <1>5 DEF FireInv

(* The number of enqueues of an occurrence is not inductive: what bounds   *)
(* it is that every replica that can still enqueue it is either the owner, *)
(* or was deposed by a fault of its own.                                   *)
THEOREM FireInvariant == Spec => []FireInv
  <1>1. TypeOK /\ TypeOK' /\ FireInv /\ [Next]_vars => FireInv'
    BY FireStep
  <1> QED
    BY <1>1, FireInit, TypeCorrect, PTL DEF Spec

(* An occurrence of the schedule is enqueued once, and once more at most   *)
(* for every crash, lost lock and failed statement, for any number of      *)
(* replicas that take the lock from one another.                           *)
THEOREM FiresAreAccounted == Spec => []FiresAccounted
  <1>1. TypeOK /\ FireInv => FiresAccounted
    <2> SUFFICES ASSUME TypeOK, FireInv, NEW o \in Occurrences
                 PROVE  fires[o] <= 1 + faults
      BY DEF FiresAccounted
    <2>1. /\ Chances(o) \in Nat /\ OwnerChance(o) \in {0, 1} /\ faults \in Nat
          /\ fires[o] \in Nat
      BY ThreatsTyped DEF FireInv, TypeOK
    <2>2. CASE o <= now
      BY <2>1, <2>2 DEF FireInv, FireBudget
    <2>3. CASE o > now
      BY <2>1, <2>3 DEF FireInv, FutureUnfired
    <2> QED
      BY <2>2, <2>3 DEF Occurrences, TypeOK, Times
  <1> QED
    BY <1>1, FireInvariant, TypeCorrect, PTL
=============================================================================
