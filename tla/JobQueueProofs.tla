--------------------------- MODULE JobQueueProofs ---------------------------
(***************************************************************************)
(* Proofs about the job queue, for every set of jobs, workers, keys and    *)
(* clients, every concurrency and every max_attempts: types, the execution *)
(* of a row and its key, the refinement of JobLifecycle, and how far       *)
(* executions, attempts and tokens go when rows are reclaimed.             *)
(***************************************************************************)
EXTENDS JobQueue, CountingLemmas, FiniteSetTheorems, TLAPS

(***************************************************************************)
(* Type correctness                                                        *)
(***************************************************************************)

(* The rows the statements write are rows.                                 *)
LEMMA InsertedRowType ==
  /\ Absent \in Row
  /\ \A k \in Keys \cup {NoKey}, d \in BOOLEAN :
        [NewRow(k) EXCEPT !.due = d] \in Row
  /\ [Absent EXCEPT !.status = "running", !.attempts = 1, !.max_attempts = 1,
                    !.due = TRUE, !.age = "fresh", !.worker_id = InlineCli] \in Row
  BY JobQueueAssumption DEF NewRow, Absent, Row, Status, Active, Ages, Owners

LEMMA UpdatedRowType ==
  ASSUME NEW row \in Row
  PROVE  /\ [row EXCEPT !.dedupe_key = NoKey] \in Row
         /\ [row EXCEPT !.cancel_requested = TRUE] \in Row
         /\ [row EXCEPT !.due = TRUE] \in Row
         /\ \A s \in Status : [row EXCEPT !.status = s] \in Row
         /\ \A s \in Status :
               [row EXCEPT !.status = s, !.dedupe_key = NoKey] \in Row
         /\ \A a \in Ages : [row EXCEPT !.age = a] \in Row
  BY DEF Row

LEMMA RequeuedRowType ==
  ASSUME NEW row \in Row
  PROVE  /\ [row EXCEPT !.status = "pending", !.age = "none",
                        !.worker_id = NoWorker] \in Row
         /\ [row EXCEPT !.status = "pending", !.due = FALSE,
                        !.worker_id = NoWorker] \in Row
         /\ [row EXCEPT !.status = "error", !.worker_id = NoWorker] \in Row
         /\ [row EXCEPT !.status = "cancelled", !.cancel_requested = TRUE,
                        !.dedupe_key = NoKey] \in Row
  BY DEF Row, Status, Active, Terminal, Ages

LEMMA ClaimedRowType ==
  ASSUME NEW row \in Row, NEW w \in Workers
  PROVE  ClaimedRow(w, row) \in Row
  <1>1. row.attempts + 1 \in Nat
    BY DEF Row
  <1>2. w \in Owners /\ "running" \in Status /\ "fresh" \in Ages
    BY DEF Owners, Status, Active, Ages
  <1> QED
    BY <1>1, <1>2 DEF Row, ClaimedRow

LEMMA StatusMembers ==
  /\ {"success", "cancelled", "dead", "error"} \subseteq Status
  /\ {"stale", "ancient"} \subseteq Ages
  BY DEF Status, Terminal, Ages

(* Moving an execution to another phase, or marking its token, leaves an   *)
(* execution.                                                              *)
LEMMA ExecutionType ==
  ASSUME NEW e \in Execution
  PROVE  /\ \A p \in Phases : [e EXCEPT !.phase = p] \in Execution
         /\ [e EXCEPT !.cancelled = TRUE] \in Execution
  BY DEF Execution

LEMMA InsertRowType ==
  ASSUME TypeOK, NEW j \in Jobs, NEW k \in Keys \cup {NoKey}, InsertRow(j, k)
  PROVE  jobs' \in [Jobs -> Row] /\ wanted' \in [Jobs -> Keys \cup {NoKey}]
  BY InsertedRowType DEF TypeOK, InsertRow

LEMMA ReclaimType ==
  ASSUME TypeOK, ReclaimStaleJobs
  PROVE  jobs' \in [Jobs -> Row] /\ reclaims' \in [Jobs -> Nat]
  <1>1. jobs' \in [Jobs -> Row]
    BY RequeuedRowType DEF TypeOK, ReclaimStaleJobs
  <1>2. \A j \in Jobs : reclaims[j] \in Nat /\ reclaims[j] + 1 \in Nat
    BY DEF TypeOK
  <1>3. reclaims' \in [Jobs -> Nat]
    BY <1>2, Zenon DEF ReclaimStaleJobs
  <1> QED
    BY <1>1, <1>3

(* EndWith only needs the new row to be a row.                             *)
LEMMA EndWithType ==
  ASSUME TypeOK, NEW e \in execs, NEW row \in Row, EndWith(e, row)
  PROVE  TypeOK'
  BY DEF TypeOK, EndWith

LEMMA ClientType ==
  ASSUME TypeOK, ClientStep
  PROVE  TypeOK'
  <1>1. ASSUME NEW c \in Clients, NEW k \in Keys, ReleaseKey(c, k)
        PROVE  TypeOK'
    BY <1>1, UpdatedRowType DEF TypeOK, ReleaseKey
  <1>2. ASSUME NEW c \in Clients, NEW j \in Jobs, InsertKeyed(c, j)
        PROVE  TypeOK'
    <2>1. asking[c] \in Keys \cup {NoKey}
      BY DEF TypeOK
    <2> QED
      BY <1>2, <2>1, InsertRowType DEF TypeOK, InsertKeyed
  <1>3. ASSUME NEW c \in Clients, InsertSkipped(c)
        PROVE  TypeOK'
    BY <1>3 DEF TypeOK, InsertSkipped
  <1>4. ASSUME NEW j \in Jobs, InsertPlain(j)
        PROVE  TypeOK'
    BY <1>4, InsertRowType DEF TypeOK, InsertPlain
  <1> QED
    BY <1>1, <1>2, <1>3, <1>4 DEF ClientStep

LEMMA ClaimType ==
  ASSUME TypeOK, NEW w \in Workers, ClaimAndDispatch(w)
  PROVE  TypeOK'
  <1> PICK batch \in SUBSET {j \in Jobs : Claimable(j)} :
          /\ jobs' = [j \in Jobs |-> IF j \in batch THEN ClaimedRow(w, jobs[j])
                                                    ELSE jobs[j]]
          /\ execs' = execs \cup {Spawned(w, j) : j \in batch}
    BY DEF ClaimAndDispatch
  <1>1. \A j \in Jobs : Spawned(w, j) \in Execution
    BY DEF TypeOK, Spawned, Execution, Row, Owners, Phases
  <1>2. jobs' \in [Jobs -> Row]
    BY ClaimedRowType DEF TypeOK
  <1>3. execs' \in SUBSET Execution
    BY <1>1 DEF TypeOK
  <1> QED
    BY <1>2, <1>3 DEF TypeOK, ClaimAndDispatch

LEMMA WorkerType ==
  ASSUME TypeOK, NEW w \in Workers,
         \/ Start(w) \/ StartFails(w) \/ Crash(w) \/ ClaimAndDispatch(w)
         \/ \E j \in Jobs : NotifyCancel(w, j)
  PROVE  TypeOK'
  <1>1. CASE Start(w)
    BY <1>1, ReclaimType DEF TypeOK, Start
  <1>2. CASE StartFails(w)
    BY <1>2, ReclaimType DEF TypeOK, StartFails
  <1>3. CASE Crash(w)
    BY <1>3 DEF TypeOK, Crash
  <1>4. CASE ClaimAndDispatch(w)
    BY <1>4, ClaimType
  <1>5. ASSUME NEW j \in Jobs, NotifyCancel(w, j)
        PROVE  TypeOK'
    <2>1. execs' \in SUBSET Execution
      BY <1>5, ExecutionType DEF TypeOK, NotifyCancel
    <2> QED
      BY <1>5, <2>1 DEF TypeOK, NotifyCancel
  <1> QED
    BY <1>1, <1>2, <1>3, <1>4, <1>5

LEMMA TaskType ==
  ASSUME TypeOK, NEW e \in execs,
         \/ Register(e) \/ (\E result \in Results : HandlerReturns(e, result))
         \/ Outcome(e) \/ MarkLost(e)
  PROVE  TypeOK'
  <1>0. e \in Execution /\ e.job \in Jobs /\ jobs[e.job] \in Row
    BY DEF TypeOK, Execution
  <1>1. CASE Register(e)
    <2>1. [e EXCEPT !.phase = "running"] \in Execution
      BY <1>0, ExecutionType DEF Phases
    <2>2. tokens' \in [Workers -> [Jobs -> Nat]]
      BY <1>0, <1>1 DEF TypeOK, Register, Execution
    <2> QED
      BY <1>1, <2>1, <2>2 DEF TypeOK, Register
  <1>2. ASSUME NEW result \in Results, HandlerReturns(e, result)
        PROVE  TypeOK'
    <2>1. [e EXCEPT !.phase = result] \in Execution
      BY <1>0, ExecutionType DEF Phases
    <2>2. tokens' \in [Workers -> [Jobs -> Nat]]
      BY <1>0, <1>2 DEF TypeOK, HandlerReturns, Execution
    <2> QED
      BY <1>2, <2>1, <2>2 DEF TypeOK, HandlerReturns
  <1>3. CASE ReadAttempts(e)
    <2>1. \A p \in {"dead", "retry"} : [e EXCEPT !.phase = p] \in Execution
      BY <1>0, ExecutionType DEF Phases
    <2> QED
      BY <1>3, <2>1 DEF TypeOK, ReadAttempts
  <1>4. CASE MarkSuccess(e) \/ MarkCancelled(e) \/ MarkDead(e)
    BY <1>0, <1>4, EndWithType, UpdatedRowType, StatusMembers
       DEF MarkSuccess, MarkCancelled, MarkDead
  <1>5. CASE MarkRetry(e)
    BY <1>0, <1>5, EndWithType, RequeuedRowType DEF MarkRetry
  <1>6. CASE MarkLost(e)
    BY <1>0, <1>6, EndWithType DEF MarkLost
  <1> QED
    BY <1>1, <1>2, <1>3, <1>4, <1>5, <1>6 DEF Outcome

LEMMA RunnerType ==
  ASSUME TypeOK, RunnerStep
  PROVE  TypeOK'
  BY WorkerType, TaskType DEF RunnerStep

LEMMA InlineType ==
  ASSUME TypeOK, InlineStep
  PROVE  TypeOK'
  <1>1. ASSUME NEW j \in Jobs, InlineStart(j)
        PROVE  TypeOK'
    <2>1. [job |-> j, attempt |-> 1, worker |-> InlineCli,
           phase |-> "running", cancelled |-> FALSE] \in Execution
      BY DEF Execution, Owners, Phases
    <2> QED
      BY <1>1, <2>1, InsertedRowType DEF TypeOK, InlineStart
  <1>2. ASSUME NEW e \in execs,
               \/ \E status \in {"success", "cancelled", "dead"} : InlineEnd(e, status)
               \/ InlineLost(e)
        PROVE  TypeOK'
    <2>1. jobs[e.job] \in Row
      BY DEF TypeOK, Execution
    <2>2. \A s \in {"success", "cancelled", "dead"} :
             [jobs[e.job] EXCEPT !.status = s] \in Row
      BY <2>1, UpdatedRowType, StatusMembers
    <2> QED
      BY <1>2, <2>1, <2>2, EndWithType DEF InlineEnd, InlineLost
  <1> QED
    BY <1>1, <1>2 DEF InlineStep

LEMMA AdminType ==
  ASSUME TypeOK, AdminStep
  PROVE  TypeOK'
  <1>1. ASSUME NEW j \in Jobs, CancelPending(j)
        PROVE  TypeOK'
    BY <1>1, RequeuedRowType DEF TypeOK, CancelPending
  <1>2. ASSUME NEW j \in Jobs, CancelRunning(j)
        PROVE  TypeOK'
    BY <1>2, UpdatedRowType DEF TypeOK, CancelRunning
  <1>3. CASE ReclaimAncient
    <2>1. jobs' \in [Jobs -> Row]
      BY <1>3, RequeuedRowType DEF TypeOK, ReclaimAncient
    <2>2. \A j \in Jobs : reclaims[j] \in Nat /\ reclaims[j] + 1 \in Nat
      BY DEF TypeOK
    <2>3. reclaims' \in [Jobs -> Nat]
      BY <1>3, <2>2, Zenon DEF ReclaimAncient
    <2> QED
      BY <1>3, <2>1, <2>3 DEF TypeOK, ReclaimAncient
  <1> QED
    BY <1>1, <1>2, <1>3 DEF AdminStep

LEMMA ClockType ==
  ASSUME TypeOK, ClockStep
  PROVE  TypeOK'
  <1>1. ASSUME NEW j \in Jobs, BecomeDue(j)
        PROVE  TypeOK'
    BY <1>1, UpdatedRowType DEF TypeOK, BecomeDue
  <1>2. ASSUME NEW j \in Jobs, GrowOld(j)
        PROVE  TypeOK'
    <2>1. \A a \in {"stale", "ancient"} : [jobs[j] EXCEPT !.age = a] \in Row
      BY UpdatedRowType, StatusMembers DEF TypeOK
    <2>2. jobs' \in [Jobs -> Row]
      BY <1>2, <2>1 DEF TypeOK, GrowOld
    <2> QED
      BY <1>2, <2>2 DEF TypeOK, GrowOld
  <1> QED
    BY <1>1, <1>2 DEF ClockStep

LEMMA TypeInit == Init => TypeOK
  BY InsertedRowType DEF Init, TypeOK

LEMMA TypeStep == TypeOK /\ [Next]_vars => TypeOK'
  <1> SUFFICES ASSUME TypeOK, [Next]_vars PROVE TypeOK'
    OBVIOUS
  <1>1. CASE Next
    BY <1>1, ClientType, RunnerType, InlineType, AdminType, ClockType DEF Next
  <1>2. CASE UNCHANGED vars
    BY <1>2 DEF TypeOK, vars
  <1> QED
    BY <1>1, <1>2

(* Every reachable state of the queue is well typed: the columns hold what *)
(* the statements of runner.rs, enqueue.rs and admin_scrapers.rs may write.*)
THEOREM TypeCorrect == Spec => []TypeOK
  BY TypeInit, TypeStep, PTL DEF Spec

(***************************************************************************)
(* One execution per row that was never reclaimed                          *)
(***************************************************************************)

(* What the rows say about their executions does not change and no         *)
(* execution is added.                                                     *)
LEMMA SoleFrame ==
  ASSUME SoleExecution, reclaims' = reclaims, execs' \subseteq execs,
         \A j \in Jobs : /\ jobs'[j].status = jobs[j].status
                         /\ jobs'[j].attempts = jobs[j].attempts
                         /\ jobs'[j].worker_id = jobs[j].worker_id
  PROVE  SoleExecution'
  BY DEF SoleExecution, ExecutionsOfJob

(* A row of which no execution exists afterwards may change at will.       *)
LEMMA SoleReplace ==
  ASSUME TypeOK, SoleExecution, NEW j \in Jobs, NEW row,
         jobs' = [jobs EXCEPT ![j] = row],
         reclaims' = reclaims, execs' \subseteq execs,
         reclaims[j] = 0 => \A e \in execs' : e.job # j
  PROVE  SoleExecution'
  BY DEF SoleExecution, ExecutionsOfJob, TypeOK

(* Writing the outcome of an execution removes the only execution.         *)
LEMMA SoleEnd ==
  ASSUME TypeOK, SoleExecution, NEW e \in execs, NEW row, EndWith(e, row)
  PROVE  SoleExecution'
  <1>1. e.job \in Jobs
    BY DEF TypeOK, Execution
  <1>2. reclaims[e.job] = 0 => \A f \in execs' : f.job # e.job
    BY <1>1 DEF SoleExecution, ExecutionsOfJob, EndWith
  <1>3. /\ jobs' = [jobs EXCEPT ![e.job] = row]
        /\ reclaims' = reclaims /\ execs' \subseteq execs
    BY DEF EndWith
  <1> QED
    BY <1>1, <1>2, <1>3, SoleReplace

(* Moving an execution to its next phase keeps it the only one.            *)
LEMMA SoleMove ==
  ASSUME TypeOK, SoleExecution, NEW e \in execs, NEW p \in Phases,
         execs' = (execs \ {e}) \cup {[e EXCEPT !.phase = p]},
         jobs' = jobs, reclaims' = reclaims
  PROVE  SoleExecution'
  <1> DEFINE n == [e EXCEPT !.phase = p]
  <1>1. n.job = e.job /\ n.attempt = e.attempt /\ n.worker = e.worker
    BY DEF TypeOK, Execution
  <1> SUFFICES ASSUME NEW j \in Jobs, reclaims[j] = 0,
                      NEW f \in execs', f.job = j
               PROVE  /\ jobs[j].status = "running"
                      /\ jobs[j].attempts = f.attempt
                      /\ jobs[j].worker_id = f.worker
                      /\ \A g \in execs' : g.job = j => g = f
    BY DEF SoleExecution, ExecutionsOfJob
  <1>2. f = n \/ (f \in execs /\ f # e)
    OBVIOUS
  <1>3. \A g \in execs' : g = n \/ (g \in execs /\ g # e)
    OBVIOUS
  <1> HIDE DEF n
  <1>4. CASE e.job = j
    BY <1>1, <1>2, <1>3, <1>4 DEF SoleExecution, ExecutionsOfJob
  <1>5. CASE e.job # j
    BY <1>1, <1>2, <1>3, <1>5 DEF SoleExecution, ExecutionsOfJob
  <1> QED
    BY <1>4, <1>5

(* A claim takes pending rows only, and those have no execution.           *)
LEMMA SoleClaim ==
  ASSUME TypeOK, SoleExecution, NEW w \in Workers, ClaimAndDispatch(w)
  PROVE  SoleExecution'
  <1> PICK batch \in SUBSET {j \in Jobs : Claimable(j)} :
          /\ jobs' = [j \in Jobs |-> IF j \in batch THEN ClaimedRow(w, jobs[j])
                                                    ELSE jobs[j]]
          /\ execs' = execs \cup {Spawned(w, j) : j \in batch}
    BY DEF ClaimAndDispatch
  <1>1. reclaims' = reclaims
    BY DEF ClaimAndDispatch
  <1> SUFFICES ASSUME NEW j \in Jobs, reclaims[j] = 0,
                      NEW f \in execs', f.job = j
               PROVE  /\ jobs'[j].status = "running"
                      /\ jobs'[j].attempts = f.attempt
                      /\ jobs'[j].worker_id = f.worker
                      /\ \A g \in execs' : g.job = j => g = f
    BY <1>1 DEF SoleExecution, ExecutionsOfJob
  <1>2. \A i \in Jobs : /\ Spawned(w, i).job = i
                        /\ Spawned(w, i).attempt = jobs[i].attempts + 1
                        /\ Spawned(w, i).worker = w
    BY DEF Spawned
  <1>3. CASE j \in batch
    <2>1. \A g \in execs : g.job # j
      BY <1>3 DEF Claimable, SoleExecution, ExecutionsOfJob
    <2>2. \A g \in execs' : g.job = j => g = Spawned(w, j)
      BY <1>2, <2>1
    <2>3. jobs'[j] = ClaimedRow(w, jobs[j])
      BY <1>3
    <2>4. /\ jobs'[j].status = "running"
          /\ jobs'[j].attempts = jobs[j].attempts + 1
          /\ jobs'[j].worker_id = w
      BY <2>3, jobs[j] \in Row DEF ClaimedRow, TypeOK, Row
    <2> QED
      BY <1>2, <2>2, <2>4
  <1>4. CASE j \notin batch
    <2>1. \A g \in execs' : g.job = j => g \in execs
      BY <1>2, <1>4
    <2>2. jobs'[j] = jobs[j]
      BY <1>4
    <2> QED
      BY <2>1, <2>2 DEF SoleExecution, ExecutionsOfJob
  <1> QED
    BY <1>3, <1>4

(* A reclaim leaves the reclaimed rows outside the claim.                  *)
LEMMA SoleReclaim ==
  ASSUME TypeOK, SoleExecution, ReclaimStaleJobs, execs' = execs
  PROVE  SoleExecution'
  <1>1. \A j \in Jobs : reclaims[j] \in Nat
    BY DEF TypeOK
  <1>2. \A j \in Jobs : reclaims[j] + 1 # 0
    BY <1>1
  <1>3. \A j \in Jobs : reclaims'[j] = 0 => ~Reclaimable(j)
    BY <1>2, Zenon DEF ReclaimStaleJobs
  <1>4. \A j \in Jobs : ~Reclaimable(j) => /\ jobs'[j] = jobs[j]
                                           /\ reclaims'[j] = reclaims[j]
    BY Zenon DEF ReclaimStaleJobs
  <1> QED
    BY <1>3, <1>4 DEF SoleExecution, ExecutionsOfJob

LEMMA SoleClient ==
  ASSUME TypeOK, SoleExecution, ClientStep
  PROVE  SoleExecution'
  <1>1. ASSUME NEW c \in Clients, NEW k \in Keys, ReleaseKey(c, k)
        PROVE  SoleExecution'
    <2>1. \A j \in Jobs : /\ jobs'[j].status = jobs[j].status
                          /\ jobs'[j].attempts = jobs[j].attempts
                          /\ jobs'[j].worker_id = jobs[j].worker_id
      BY <1>1 DEF ReleaseKey, TypeOK, Row
    <2> QED
      BY <1>1, <2>1, SoleFrame DEF ReleaseKey
  <1>2. ASSUME NEW j \in Jobs, NEW k, InsertRow(j, k),
               reclaims' = reclaims, execs' = execs
        PROVE  SoleExecution'
    <2>1. reclaims[j] = 0 => \A e \in execs : e.job # j
      BY <1>2 DEF InsertRow, SoleExecution, ExecutionsOfJob
    <2>2. PICK due \in BOOLEAN :
            jobs' = [jobs EXCEPT ![j] = [NewRow(k) EXCEPT !.due = due]]
      BY <1>2 DEF InsertRow
    <2> QED
      BY <1>2, <2>1, <2>2, SoleReplace
  <1>3. ASSUME NEW c \in Clients, InsertSkipped(c)
        PROVE  SoleExecution'
    BY <1>3, SoleFrame DEF InsertSkipped
  <1> QED
    BY <1>1, <1>2, <1>3 DEF ClientStep, InsertKeyed, InsertPlain

(* A notification only marks tokens.                                       *)
LEMMA SoleNotify ==
  ASSUME TypeOK, SoleExecution, NEW w \in Workers, NEW j \in Jobs,
         NotifyCancel(w, j)
  PROVE  SoleExecution'
  <1> DEFINE mark(e) == IF e.worker = w /\ e.job = j /\ e.attempt = tokens[w][j]
                        THEN [e EXCEPT !.cancelled = TRUE] ELSE e
  <1>1. execs' = {mark(e) : e \in execs} /\ jobs' = jobs /\ reclaims' = reclaims
    BY DEF NotifyCancel
  <1>2. \A e \in execs : /\ mark(e).job = e.job /\ mark(e).attempt = e.attempt
                         /\ mark(e).worker = e.worker
    BY DEF TypeOK, Execution
  <1> HIDE DEF mark
  <1> QED
    BY <1>1, <1>2 DEF SoleExecution, ExecutionsOfJob

LEMMA SoleRunner ==
  ASSUME TypeOK, SoleExecution, RunnerStep
  PROVE  SoleExecution'
  <1>1. ASSUME NEW w \in Workers, Start(w) \/ StartFails(w)
        PROVE  SoleExecution'
    BY <1>1, SoleReclaim DEF Start, StartFails
  <1>2. ASSUME NEW w \in Workers, Crash(w)
        PROVE  SoleExecution'
    BY <1>2, SoleFrame DEF Crash
  <1>3. ASSUME NEW e \in execs, Register(e)
        PROVE  SoleExecution'
    BY <1>3, SoleMove DEF Register, Phases
  <1>4. ASSUME NEW e \in execs, NEW result \in Results, HandlerReturns(e, result)
        PROVE  SoleExecution'
    BY <1>4, SoleMove DEF HandlerReturns, Phases
  <1>5. ASSUME NEW e \in execs, ReadAttempts(e)
        PROVE  SoleExecution'
    BY <1>5, SoleMove DEF ReadAttempts, Phases
  <1>6. ASSUME NEW e \in execs,
               MarkSuccess(e) \/ MarkCancelled(e) \/ MarkDead(e) \/ MarkRetry(e)
               \/ MarkLost(e)
        PROVE  SoleExecution'
    BY <1>6, SoleEnd DEF MarkSuccess, MarkCancelled, MarkDead, MarkRetry, MarkLost
  <1> QED
    BY <1>1, <1>2, <1>3, <1>4, <1>5, <1>6, SoleClaim, SoleNotify
       DEF RunnerStep, Outcome

LEMMA SoleInline ==
  ASSUME TypeOK, SoleExecution, InlineStep
  PROVE  SoleExecution'
  <1>1. ASSUME NEW j \in Jobs, InlineStart(j)
        PROVE  SoleExecution'
    <2> DEFINE n == [job |-> j, attempt |-> 1, worker |-> InlineCli,
                     phase |-> "running", cancelled |-> FALSE]
    <2>1. reclaims[j] = 0 => \A e \in execs : e.job # j
      BY <1>1 DEF InlineStart, SoleExecution, ExecutionsOfJob
    <2>2. /\ jobs'[j].status = "running" /\ jobs'[j].attempts = 1
          /\ jobs'[j].worker_id = InlineCli
          /\ \A i \in Jobs : i # j => jobs'[i] = jobs[i]
      BY <1>1 DEF InlineStart, TypeOK, Absent
    <2>3. execs' = execs \cup {n} /\ reclaims' = reclaims
      BY <1>1 DEF InlineStart
    <2>4. n.job = j /\ n.attempt = 1 /\ n.worker = InlineCli
      OBVIOUS
    <2> HIDE DEF n
    <2> QED
      BY <2>1, <2>2, <2>3, <2>4 DEF SoleExecution, ExecutionsOfJob
  <1>2. ASSUME NEW e \in execs,
               \/ \E status \in {"success", "cancelled", "dead"} : InlineEnd(e, status)
               \/ InlineLost(e)
        PROVE  SoleExecution'
    BY <1>2, SoleEnd DEF InlineEnd, InlineLost
  <1> QED
    BY <1>1, <1>2 DEF InlineStep

LEMMA SoleAdmin ==
  ASSUME TypeOK, SoleExecution, AdminStep
  PROVE  SoleExecution'
  <1>1. ASSUME NEW j \in Jobs, CancelPending(j)
        PROVE  SoleExecution'
    <2>1. reclaims[j] = 0 => \A e \in execs : e.job # j
      BY <1>1 DEF CancelPending, SoleExecution, ExecutionsOfJob
    <2> QED
      BY <1>1, <2>1, SoleReplace DEF CancelPending
  <1>2. ASSUME NEW j \in Jobs, CancelRunning(j)
        PROVE  SoleExecution'
    <2>1. \A i \in Jobs : /\ jobs'[i].status = jobs[i].status
                          /\ jobs'[i].attempts = jobs[i].attempts
                          /\ jobs'[i].worker_id = jobs[i].worker_id
      BY <1>2 DEF CancelRunning, TypeOK, Row
    <2> QED
      BY <1>2, <2>1, SoleFrame DEF CancelRunning
  <1>3. CASE ReclaimAncient
    <2>1. \A j \in Jobs : reclaims[j] \in Nat
      BY DEF TypeOK
    <2>2. \A j \in Jobs : reclaims[j] + 1 # 0
      BY <2>1
    <2>3. \A j \in Jobs : reclaims'[j] = 0 => ~Ancient(j)
      BY <1>3, <2>2, Zenon DEF ReclaimAncient
    <2>4. \A j \in Jobs : ~Ancient(j) => /\ jobs'[j] = jobs[j]
                                         /\ reclaims'[j] = reclaims[j]
      BY <1>3, Zenon DEF ReclaimAncient
    <2> QED
      BY <1>3, <2>3, <2>4 DEF ReclaimAncient, SoleExecution, ExecutionsOfJob
  <1> QED
    BY <1>1, <1>2, <1>3 DEF AdminStep

LEMMA SoleClock ==
  ASSUME TypeOK, SoleExecution, ClockStep
  PROVE  SoleExecution'
  <1> PICK j \in Jobs : BecomeDue(j) \/ GrowOld(j)
    BY DEF ClockStep
  <1>1. \A i \in Jobs : /\ jobs'[i].status = jobs[i].status
                        /\ jobs'[i].attempts = jobs[i].attempts
                        /\ jobs'[i].worker_id = jobs[i].worker_id
    <2>1. CASE BecomeDue(j)
      BY <2>1 DEF BecomeDue, TypeOK, Row
    <2>2. CASE jobs' = [jobs EXCEPT ![j].age = "stale"]
      BY <2>2 DEF TypeOK, Row
    <2>3. CASE jobs' = [jobs EXCEPT ![j].age = "ancient"]
      BY <2>3 DEF TypeOK, Row
    <2> QED
      BY <2>1, <2>2, <2>3 DEF GrowOld
  <1> QED
    BY <1>1, SoleFrame DEF BecomeDue, GrowOld

LEMMA SoleStep == TypeOK /\ SoleExecution /\ [Next]_vars => SoleExecution'
  <1> SUFFICES ASSUME TypeOK, SoleExecution, [Next]_vars PROVE SoleExecution'
    OBVIOUS
  <1>1. CASE Next
    BY <1>1, SoleClient, SoleRunner, SoleInline, SoleAdmin, SoleClock DEF Next
  <1>2. CASE UNCHANGED vars
    BY <1>2 DEF SoleExecution, ExecutionsOfJob, vars
  <1> QED
    BY <1>1, <1>2

(* Until a reclaim takes a row from it, the execution a claim started is   *)
(* the only execution of that row in any process, and the row describes it.*)
(* With TypeOK the invariant is inductive as it stands.                    *)
THEOREM ExecutionIsSole == Spec => []SoleExecution
  <1>1. Init => SoleExecution
    BY DEF Init, SoleExecution, ExecutionsOfJob
  <1>2. (TypeOK /\ TypeOK') /\ SoleExecution /\ [Next]_vars => SoleExecution'
    BY SoleStep
  <1> QED
    BY <1>1, <1>2, TypeCorrect, PTL DEF Spec

(***************************************************************************)
(* Final statuses are final                                                *)
(***************************************************************************)

LEMMA FinalStep ==
  ASSUME TypeOK, SoleExecution, Next,
         NEW j \in Jobs, jobs[j].status \in Terminal, reclaims[j] = 0
  PROVE  jobs'[j].status = jobs[j].status
  <1>1. \A e \in execs : e.job # j
    BY DEF SoleExecution, ExecutionsOfJob, Terminal
  <1>2. jobs[j].status \notin {"absent", "pending", "running"}
    BY DEF Terminal
  <1>3. ASSUME NEW e \in execs, NEW row, EndWith(e, row)
        PROVE  jobs'[j].status = jobs[j].status
    BY <1>1, <1>3 DEF EndWith, TypeOK
  <1>4. CASE ClientStep
    <2>1. ASSUME NEW c \in Clients, NEW k \in Keys, ReleaseKey(c, k)
          PROVE  jobs'[j].status = jobs[j].status
      BY <2>1 DEF ReleaseKey, TypeOK, Row
    <2>2. ASSUME NEW i \in Jobs, NEW k, InsertRow(i, k)
          PROVE  jobs'[j].status = jobs[j].status
      BY <1>2, <2>2 DEF InsertRow, TypeOK
    <2> QED
      BY <1>4, <2>1, <2>2 DEF ClientStep, InsertKeyed, InsertSkipped, InsertPlain
  <1>5. CASE RunnerStep
    <2>1. ASSUME ReclaimStaleJobs
          PROVE  jobs'[j].status = jobs[j].status
      BY <1>2, <2>1 DEF ReclaimStaleJobs, Reclaimable
    <2>2. ASSUME NEW w \in Workers, ClaimAndDispatch(w)
          PROVE  jobs'[j].status = jobs[j].status
      BY <1>2, <2>2 DEF ClaimAndDispatch, Claimable
    <2>3. ASSUME NEW e \in execs, Outcome(e) \/ MarkLost(e)
          PROVE  jobs'[j].status = jobs[j].status
      BY <1>3, <2>3 DEF Outcome, MarkSuccess, MarkCancelled, ReadAttempts,
                        MarkDead, MarkRetry, MarkLost
    <2> QED
      BY <1>5, <2>1, <2>2, <2>3
         DEF RunnerStep, Start, StartFails, Crash, NotifyCancel, Register,
             HandlerReturns
  <1>6. CASE InlineStep
    <2>1. ASSUME NEW i \in Jobs, InlineStart(i)
          PROVE  jobs'[j].status = jobs[j].status
      BY <1>2, <2>1 DEF InlineStart, TypeOK
    <2> QED
      BY <1>3, <1>6, <2>1 DEF InlineStep, InlineEnd, InlineLost
  <1>7. CASE AdminStep
    <2>1. ASSUME NEW i \in Jobs, CancelPending(i)
          PROVE  jobs'[j].status = jobs[j].status
      BY <1>2, <2>1 DEF CancelPending, TypeOK
    <2>2. ASSUME NEW i \in Jobs, CancelRunning(i)
          PROVE  jobs'[j].status = jobs[j].status
      BY <1>2, <2>2 DEF CancelRunning, TypeOK
    <2>3. CASE ReclaimAncient
      BY <1>2, <2>3 DEF ReclaimAncient, Ancient
    <2> QED
      BY <1>7, <2>1, <2>2, <2>3 DEF AdminStep
  <1>8. CASE ClockStep
    BY <1>2, <1>8 DEF ClockStep, BecomeDue, GrowOld, TypeOK
  <1> QED
    BY <1>4, <1>5, <1>6, <1>7, <1>8 DEF Next

(* A row that reached success, cancelled, dead or error without having     *)
(* been reclaimed keeps that status for ever: no unconditional UPDATE of a *)
(* late execution, retry or cancellation can reach it.                     *)
THEOREM FinalStatusIsKept == Spec => FinalStatusKept
  <1>1. TypeOK /\ SoleExecution /\ [Next]_vars
          => [\A j \in Jobs : jobs[j].status \in Terminal /\ reclaims[j] = 0
                 => jobs'[j].status = jobs[j].status]_vars
    BY FinalStep
  <1> QED
    BY <1>1, TypeCorrect, ExecutionIsSole, PTL DEF Spec, FinalStatusKept

(***************************************************************************)
(* Dedupe keys                                                             *)
(***************************************************************************)

(* The row of a --run-job process has no key, which its closing UPDATE     *)
(* (unlike those of the runner) does not clear.                            *)
InlineKeyless ==
  \A e \in execs : e.worker = InlineCli =>
      jobs[e.job].status # "absent" /\ jobs[e.job].dedupe_key = NoKey

KeyInv == KeyHolders /\ InlineKeyless /\ OpenHoldsKey

Holding == Active \cup {"error"}

(* Rows keep their key or lose it, and only an unfinished row keeps it; no *)
(* inline execution is added.                                              *)
LEMMA KeyFrame ==
  ASSUME TypeOK, KeyHolders, InlineKeyless,
         \A j \in Jobs :
            /\ jobs'[j].dedupe_key \in {jobs[j].dedupe_key, NoKey}
            /\ jobs'[j].dedupe_key # NoKey => jobs'[j].status \in Holding
            /\ jobs[j].status # "absent" => jobs'[j].status # "absent",
         \A e \in execs' : e.worker = InlineCli =>
            \E f \in execs : f.worker = InlineCli /\ f.job = e.job
  PROVE  KeyHolders' /\ InlineKeyless'
  <1>1. KeyHolders'
    BY DEF KeyHolders, Holding
  <1>2. ASSUME NEW e \in execs', e.worker = InlineCli
        PROVE  jobs'[e.job].status # "absent" /\ jobs'[e.job].dedupe_key = NoKey
    <2>1. PICK f \in execs : f.worker = InlineCli /\ f.job = e.job
      BY <1>2
    <2>2. f.job \in Jobs
      BY DEF TypeOK, Execution
    <2> QED
      BY <2>1, <2>2 DEF InlineKeyless
  <1> QED
    BY <1>1, <1>2 DEF InlineKeyless

(* A row that was reclaimed, that has ended, or that was open and keeps    *)
(* its key, breaks nothing.                                                *)
LEMMA OpenFrame ==
  ASSUME OpenHoldsKey, wanted' = wanted,
         \A j \in Jobs :
            \/ reclaims'[j] # 0
            \/ jobs'[j].status \in Terminal
            \/ /\ reclaims'[j] = reclaims[j]
               /\ jobs[j].status \notin Terminal
               /\ jobs'[j].dedupe_key = jobs[j].dedupe_key
  PROVE  OpenHoldsKey'
  BY DEF OpenHoldsKey

(* The outcome of an execution, written to its row.                        *)
LEMMA KeyEnd ==
  ASSUME TypeOK, SoleExecution, KeyInv, NEW e \in execs, NEW row \in Row,
         EndWith(e, row),
         row.dedupe_key \in {jobs[e.job].dedupe_key, NoKey},
         row.dedupe_key # NoKey => row.status \in Holding,
         jobs[e.job].status # "absent" => row.status # "absent",
         row.status \notin Terminal => row.dedupe_key = jobs[e.job].dedupe_key
  PROVE  KeyInv'
  <1>1. e.job \in Jobs
    BY DEF TypeOK, Execution
  <1>2. /\ jobs'[e.job] = row
        /\ \A j \in Jobs : j # e.job => jobs'[j] = jobs[j]
    BY <1>1 DEF EndWith, TypeOK
  <1>3. \A j \in Jobs : jobs[j].dedupe_key # NoKey => jobs[j].status \in Holding
    BY DEF KeyInv, KeyHolders, Holding
  <1>4. KeyHolders' /\ InlineKeyless'
    BY <1>1, <1>2, <1>3, KeyFrame DEF EndWith, KeyInv
  <1>5. reclaims[e.job] = 0 => jobs[e.job].status \notin Terminal
    BY <1>1 DEF SoleExecution, ExecutionsOfJob, Terminal
  <1>6. OpenHoldsKey'
    BY <1>1, <1>2, <1>5 DEF KeyInv, OpenHoldsKey, EndWith
  <1> QED
    BY <1>4, <1>6 DEF KeyInv

(* An execution moves on; the rows are left alone.                         *)
LEMMA KeyMove ==
  ASSUME TypeOK, KeyInv, jobs' = jobs, reclaims' = reclaims, wanted' = wanted,
         \A e \in execs' : e.worker = InlineCli =>
            \E f \in execs : f.worker = InlineCli /\ f.job = e.job
  PROVE  KeyInv'
  <1>1. KeyHolders' /\ OpenHoldsKey'
    BY DEF KeyInv, KeyHolders, OpenHoldsKey
  <1>2. InlineKeyless'
    BY DEF KeyInv, InlineKeyless
  <1> QED
    BY <1>1, <1>2 DEF KeyInv

(* A statement over the whole table that requeues or closes running rows   *)
(* and counts that as a reclaim.                                           *)
LEMMA KeyReclaim ==
  ASSUME TypeOK, KeyInv, execs' = execs, wanted' = wanted,
         \A j \in Jobs :
            \/ jobs'[j] = jobs[j] /\ reclaims'[j] = reclaims[j]
            \/ /\ jobs'[j].dedupe_key = jobs[j].dedupe_key
               /\ jobs'[j].status \in Holding
               /\ reclaims'[j] = reclaims[j] + 1
  PROVE  KeyInv'
  <1>1. \A j \in Jobs : jobs[j].dedupe_key # NoKey => jobs[j].status \in Holding
    BY DEF KeyInv, KeyHolders, Holding
  <1>2. "absent" \notin Holding
    BY DEF Holding, Active
  <1>3. KeyHolders' /\ InlineKeyless'
    BY <1>1, <1>2, KeyFrame DEF KeyInv
  <1>4. \A j \in Jobs : reclaims[j] + 1 # 0
    BY DEF TypeOK
  <1>5. OpenHoldsKey'
    BY <1>4 DEF KeyInv, OpenHoldsKey
  <1> QED
    BY <1>3, <1>5 DEF KeyInv

LEMMA KeyClient ==
  ASSUME TypeOK, KeyInv, ClientStep
  PROVE  KeyInv'
  <1>0. \A j \in Jobs : jobs[j].dedupe_key # NoKey => jobs[j].status \in Holding
    BY DEF KeyInv, KeyHolders, Holding
  <1>1. ASSUME NEW c \in Clients, NEW k \in Keys, ReleaseKey(c, k)
        PROVE  KeyInv'
    <2>1. \A j \in Jobs : /\ jobs'[j].status = jobs[j].status
                          /\ jobs'[j].dedupe_key \in {jobs[j].dedupe_key, NoKey}
                          /\ jobs[j].status \notin Terminal =>
                                jobs'[j].dedupe_key = jobs[j].dedupe_key
      BY <1>0, <1>1 DEF ReleaseKey, TypeOK, Row, Holding, Status, Terminal
    <2>2. execs' = execs /\ reclaims' = reclaims /\ wanted' = wanted
      BY <1>1 DEF ReleaseKey
    <2>3. \A j \in Jobs :
            /\ jobs'[j].dedupe_key # NoKey => jobs'[j].status \in Holding
            /\ jobs[j].status # "absent" => jobs'[j].status # "absent"
      BY <1>0, <2>1
    <2>4. KeyHolders' /\ InlineKeyless'
      BY <2>1, <2>2, <2>3, KeyFrame DEF KeyInv
    <2>5. OpenHoldsKey'
      BY <2>1, <2>2 DEF KeyInv, OpenHoldsKey
    <2> QED
      BY <2>4, <2>5 DEF KeyInv
  <1>2. ASSUME NEW j \in Jobs, NEW k \in Keys \cup {NoKey}, InsertRow(j, k),
               k = NoKey \/ KeyFree(k), execs' = execs, reclaims' = reclaims
        PROVE  KeyInv'
    <2>1. /\ jobs'[j].status = "pending" /\ jobs'[j].dedupe_key = k
          /\ \A i \in Jobs : i # j => jobs'[i] = jobs[i]
          /\ wanted'[j] = k
          /\ \A i \in Jobs : i # j => wanted'[i] = wanted[i]
          /\ jobs[j].status = "absent"
      BY <1>2 DEF InsertRow, NewRow, Absent, TypeOK
    <2>2. KeyHolders'
      BY <1>2, <2>1 DEF KeyInv, KeyHolders, KeyFree, Active
    <2>3. \A e \in execs : e.worker = InlineCli => e.job # j
      BY <2>1 DEF KeyInv, InlineKeyless
    <2>4. InlineKeyless'
      BY <1>2, <2>1, <2>3 DEF KeyInv, InlineKeyless, TypeOK, Execution
    <2>5. OpenHoldsKey'
      BY <1>2, <2>1 DEF KeyInv, OpenHoldsKey
    <2> QED
      BY <2>2, <2>4, <2>5 DEF KeyInv
  <1>3. ASSUME NEW c \in Clients, NEW j \in Jobs, InsertKeyed(c, j)
        PROVE  KeyInv'
    <2>1. asking[c] \in Keys \cup {NoKey}
      BY DEF TypeOK
    <2> QED
      BY <1>2, <1>3, <2>1 DEF InsertKeyed
  <1>4. ASSUME NEW c \in Clients, InsertSkipped(c)
        PROVE  KeyInv'
    BY <1>4, KeyMove DEF InsertSkipped
  <1>5. ASSUME NEW j \in Jobs, InsertPlain(j)
        PROVE  KeyInv'
    BY <1>2, <1>5 DEF InsertPlain
  <1> QED
    BY <1>1, <1>3, <1>4, <1>5 DEF ClientStep

LEMMA KeyWorker ==
  ASSUME TypeOK, KeyInv, NEW w \in Workers,
         \/ Start(w) \/ StartFails(w) \/ Crash(w) \/ ClaimAndDispatch(w)
         \/ \E j \in Jobs : NotifyCancel(w, j)
  PROVE  KeyInv'
  <1>1. CASE Start(w) \/ StartFails(w)
    <2>1. ReclaimStaleJobs /\ execs' = execs /\ wanted' = wanted
      BY <1>1 DEF Start, StartFails
    <2>2. \A j \in Jobs : Reclaimable(j) =>
            /\ jobs'[j].dedupe_key = jobs[j].dedupe_key
            /\ jobs'[j].status \in Holding
      BY <2>1 DEF ReclaimStaleJobs, TypeOK, Row, Holding, Active
    <2>3. \A j \in Jobs :
            /\ Reclaimable(j) => reclaims'[j] = reclaims[j] + 1
            /\ ~Reclaimable(j) => jobs'[j] = jobs[j] /\ reclaims'[j] = reclaims[j]
      BY <2>1, Zenon DEF ReclaimStaleJobs
    <2> QED
      BY <2>1, <2>2, <2>3, KeyReclaim
  <1>2. CASE Crash(w)
    BY <1>2, KeyMove DEF Crash
  <1>3. CASE ClaimAndDispatch(w)
    <2> PICK batch \in SUBSET {j \in Jobs : Claimable(j)} :
            /\ jobs' = [j \in Jobs |-> IF j \in batch THEN ClaimedRow(w, jobs[j])
                                                      ELSE jobs[j]]
            /\ execs' = execs \cup {Spawned(w, j) : j \in batch}
      BY <1>3 DEF ClaimAndDispatch
    <2>1. \A j \in Jobs : /\ jobs'[j].dedupe_key = jobs[j].dedupe_key
                          /\ \/ jobs'[j].status = jobs[j].status
                             \/ /\ jobs'[j].status = "running"
                                /\ jobs[j].status = "pending"
      BY DEF ClaimedRow, Claimable, TypeOK, Row
    <2>2. \A e \in execs' : e.worker = InlineCli => e \in execs
      BY JobQueueAssumption DEF Spawned
    <2>3. reclaims' = reclaims /\ wanted' = wanted
      BY <1>3 DEF ClaimAndDispatch
    <2>4. \A j \in Jobs : jobs[j].dedupe_key # NoKey => jobs[j].status \in Holding
      BY DEF KeyInv, KeyHolders, Holding
    <2>5. KeyHolders' /\ InlineKeyless'
      BY <2>1, <2>2, <2>4, KeyFrame DEF KeyInv, Holding, Active
    <2>6. OpenHoldsKey'
      BY <2>1, <2>3, OpenFrame DEF KeyInv, Terminal
    <2> QED
      BY <2>5, <2>6 DEF KeyInv
  <1>4. ASSUME NEW j \in Jobs, NotifyCancel(w, j)
        PROVE  KeyInv'
    <2> DEFINE mark(e) == IF e.worker = w /\ e.job = j /\ e.attempt = tokens[w][j]
                          THEN [e EXCEPT !.cancelled = TRUE] ELSE e
    <2>1. execs' = {mark(e) : e \in execs}
      BY <1>4 DEF NotifyCancel
    <2>2. \A e \in execs : mark(e).job = e.job /\ mark(e).worker = e.worker
      BY DEF TypeOK, Execution
    <2> HIDE DEF mark
    <2>3. \A e \in execs' : e.worker = InlineCli =>
            \E f \in execs : f.worker = InlineCli /\ f.job = e.job
      BY <2>1, <2>2
    <2> QED
      BY <1>4, <2>3, KeyMove DEF NotifyCancel
  <1> QED
    BY <1>1, <1>2, <1>3, <1>4

LEMMA KeyTask ==
  ASSUME TypeOK, SoleExecution, KeyInv, NEW e \in execs,
         \/ Register(e) \/ (\E result \in Results : HandlerReturns(e, result))
         \/ Outcome(e) \/ MarkLost(e)
  PROVE  KeyInv'
  <1>0. e \in Execution /\ e.job \in Jobs /\ jobs[e.job] \in Row
    BY DEF TypeOK, Execution
  <1>1. ASSUME NEW p \in Phases,
               execs' = (execs \ {e}) \cup {[e EXCEPT !.phase = p]},
               jobs' = jobs, reclaims' = reclaims, wanted' = wanted
        PROVE  KeyInv'
    <2>1. [e EXCEPT !.phase = p].job = e.job /\ [e EXCEPT !.phase = p].worker = e.worker
      BY <1>0 DEF Execution
    <2> QED
      BY <1>1, <2>1, KeyMove
  <1>2. CASE Register(e)
    BY <1>1, <1>2 DEF Register, Phases
  <1>3. ASSUME NEW result \in Results, HandlerReturns(e, result)
        PROVE  KeyInv'
    BY <1>1, <1>3 DEF HandlerReturns, Phases
  <1>4. CASE ReadAttempts(e)
    BY <1>1, <1>4 DEF ReadAttempts, Phases
  <1>5. ASSUME NEW s \in {"success", "cancelled", "dead"},
               EndWith(e, [jobs[e.job] EXCEPT !.status = s, !.dedupe_key = NoKey])
        PROVE  KeyInv'
    <2> DEFINE row == [jobs[e.job] EXCEPT !.status = s, !.dedupe_key = NoKey]
    <2>s. s \in Status
      BY StatusMembers
    <2>0. row \in Row
      BY <1>0, <2>s, UpdatedRowType
    <2>1. row \in Row /\ row.status = s /\ row.dedupe_key = NoKey
      BY <1>0, <2>0 DEF Row
    <2>2. s # "absent" /\ s \in Terminal
      BY DEF Terminal
    <2> HIDE DEF row
    <2>3. EndWith(e, row)
      BY <1>5 DEF row
    <2> QED
      BY <2>1, <2>2, <2>3, KeyEnd
  <1>6. CASE MarkRetry(e)
    <2> DEFINE row == [jobs[e.job] EXCEPT !.status = "pending", !.due = FALSE,
                                          !.worker_id = NoWorker]
    <2>1. row \in Row /\ row.status = "pending" /\ row.dedupe_key = jobs[e.job].dedupe_key
      BY <1>0, RequeuedRowType DEF Row
    <2> HIDE DEF row
    <2>2. EndWith(e, row)
      BY <1>6 DEF MarkRetry, row
    <2> QED
      BY <2>1, <2>2, KeyEnd DEF Holding, Active
  <1>7. CASE MarkLost(e)
    BY <1>0, <1>7, KeyEnd DEF MarkLost, KeyInv, KeyHolders, Holding
  <1> QED
    BY <1>2, <1>3, <1>4, <1>5, <1>6, <1>7
       DEF Outcome, MarkSuccess, MarkCancelled, MarkDead

LEMMA KeyInline ==
  ASSUME TypeOK, SoleExecution, KeyInv, InlineStep
  PROVE  KeyInv'
  <1>1. ASSUME NEW j \in Jobs, InlineStart(j)
        PROVE  KeyInv'
    <2> DEFINE n == [job |-> j, attempt |-> 1, worker |-> InlineCli,
                     phase |-> "running", cancelled |-> FALSE]
    <2>1. /\ jobs'[j].status = "running" /\ jobs'[j].dedupe_key = NoKey
          /\ \A i \in Jobs : i # j => jobs'[i] = jobs[i]
          /\ jobs[j].status = "absent"
      BY <1>1 DEF InlineStart, TypeOK, Absent
    <2>2. execs' = execs \cup {n} /\ n.job = j
      BY <1>1 DEF InlineStart
    <2>3. reclaims' = reclaims /\ wanted' = wanted
      BY <1>1 DEF InlineStart
    <2> HIDE DEF n
    <2>4. KeyHolders'
      BY <2>1 DEF KeyInv, KeyHolders
    <2>5. InlineKeyless'
      BY <2>1, <2>2 DEF KeyInv, InlineKeyless, TypeOK, Execution
    <2>6. jobs[j].dedupe_key = NoKey
      BY <2>1 DEF KeyInv, KeyHolders, Active
    <2>7. OpenHoldsKey'
      BY <2>1, <2>3, <2>6 DEF KeyInv, OpenHoldsKey, Terminal
    <2> QED
      BY <2>4, <2>5, <2>7 DEF KeyInv
  <1>2. ASSUME NEW e \in execs, NEW s \in {"success", "cancelled", "dead"},
               InlineEnd(e, s)
        PROVE  KeyInv'
    <2> DEFINE row == [jobs[e.job] EXCEPT !.status = s]
    <2>1. jobs[e.job] \in Row /\ jobs[e.job].dedupe_key = NoKey
      BY <1>2 DEF TypeOK, Execution, InlineEnd, KeyInv, InlineKeyless
    <2>s. s \in Status
      BY StatusMembers
    <2>0. row \in Row
      BY <2>1, <2>s, UpdatedRowType
    <2>2. row \in Row /\ row.status = s /\ row.dedupe_key = NoKey
      BY <2>0, <2>1 DEF Row
    <2>3. s # "absent" /\ s \in Terminal
      BY DEF Terminal
    <2> HIDE DEF row
    <2>4. EndWith(e, row)
      BY <1>2 DEF InlineEnd, row
    <2> QED
      BY <2>2, <2>3, <2>4, KeyEnd
  <1>3. ASSUME NEW e \in execs, InlineLost(e)
        PROVE  KeyInv'
    <2>1. e.job \in Jobs /\ jobs[e.job] \in Row
      BY DEF TypeOK, Execution
    <2> QED
      BY <1>3, <2>1, KeyEnd DEF InlineLost, KeyInv, KeyHolders, Holding
  <1> QED
    BY <1>1, <1>2, <1>3 DEF InlineStep

LEMMA KeyAdmin ==
  ASSUME TypeOK, KeyInv, AdminStep
  PROVE  KeyInv'
  <1>0. \A j \in Jobs : jobs[j].dedupe_key # NoKey => jobs[j].status \in Holding
    BY DEF KeyInv, KeyHolders, Holding
  <1>1. ASSUME NEW j \in Jobs, CancelPending(j)
        PROVE  KeyInv'
    <2>1. /\ jobs'[j].status = "cancelled" /\ jobs'[j].dedupe_key = NoKey
          /\ \A i \in Jobs : i # j => jobs'[i] = jobs[i]
      BY <1>1 DEF CancelPending, TypeOK, Row
    <2>2. execs' = execs /\ reclaims' = reclaims /\ wanted' = wanted
      BY <1>1 DEF CancelPending
    <2>3. KeyHolders' /\ InlineKeyless'
      BY <1>0, <2>1, <2>2, KeyFrame DEF KeyInv
    <2>4. OpenHoldsKey'
      BY <2>1, <2>2 DEF KeyInv, OpenHoldsKey, Terminal
    <2> QED
      BY <2>3, <2>4 DEF KeyInv
  <1>2. ASSUME NEW j \in Jobs, CancelRunning(j)
        PROVE  KeyInv'
    <2>1. \A i \in Jobs : /\ jobs'[i].status = jobs[i].status
                          /\ jobs'[i].dedupe_key = jobs[i].dedupe_key
      BY <1>2 DEF CancelRunning, TypeOK, Row
    <2>2. execs' = execs /\ reclaims' = reclaims /\ wanted' = wanted
      BY <1>2 DEF CancelRunning
    <2>3. KeyHolders' /\ InlineKeyless'
      BY <1>0, <2>1, <2>2, KeyFrame DEF KeyInv
    <2>4. OpenHoldsKey'
      BY <2>1, <2>2 DEF KeyInv, OpenHoldsKey
    <2> QED
      BY <2>3, <2>4 DEF KeyInv
  <1>3. CASE ReclaimAncient
    <2>1. \A j \in Jobs :
            \/ jobs'[j] = jobs[j] /\ reclaims'[j] = reclaims[j]
            \/ /\ jobs'[j].dedupe_key = jobs[j].dedupe_key
               /\ jobs'[j].status \in Holding
               /\ reclaims'[j] = reclaims[j] + 1
      BY <1>3 DEF ReclaimAncient, TypeOK, Row, Holding
    <2> QED
      BY <1>3, <2>1, KeyReclaim DEF ReclaimAncient
  <1> QED
    BY <1>1, <1>2, <1>3 DEF AdminStep

LEMMA KeyClock ==
  ASSUME TypeOK, KeyInv, ClockStep
  PROVE  KeyInv'
  <1> PICK j \in Jobs : BecomeDue(j) \/ GrowOld(j)
    BY DEF ClockStep
  <1>0. \A i \in Jobs : jobs[i].dedupe_key # NoKey => jobs[i].status \in Holding
    BY DEF KeyInv, KeyHolders, Holding
  <1>1. \A i \in Jobs : /\ jobs'[i].status = jobs[i].status
                        /\ jobs'[i].dedupe_key = jobs[i].dedupe_key
    <2>1. CASE BecomeDue(j)
      BY <2>1 DEF BecomeDue, TypeOK, Row
    <2>2. CASE jobs' = [jobs EXCEPT ![j].age = "stale"]
      BY <2>2 DEF TypeOK, Row
    <2>3. CASE jobs' = [jobs EXCEPT ![j].age = "ancient"]
      BY <2>3 DEF TypeOK, Row
    <2> QED
      BY <2>1, <2>2, <2>3 DEF GrowOld
  <1>2. execs' = execs /\ reclaims' = reclaims /\ wanted' = wanted
    BY DEF BecomeDue, GrowOld
  <1>3. KeyHolders' /\ InlineKeyless'
    BY <1>0, <1>1, <1>2, KeyFrame DEF KeyInv
  <1>4. OpenHoldsKey'
    BY <1>1, <1>2 DEF KeyInv, OpenHoldsKey
  <1> QED
    BY <1>3, <1>4 DEF KeyInv

LEMMA KeyStep ==
  ASSUME TypeOK, SoleExecution, KeyInv, [Next]_vars
  PROVE  KeyInv'
  <1>1. CASE Next
    BY <1>1, KeyClient, KeyWorker, KeyTask, KeyInline, KeyAdmin, KeyClock
       DEF Next, RunnerStep
  <1>2. CASE UNCHANGED vars
    BY <1>2 DEF KeyInv, KeyHolders, InlineKeyless, OpenHoldsKey, vars
  <1> QED
    BY <1>1, <1>2

(* KeyHolders is not inductive: closing an inline run leaves its row's key *)
(* alone, which is harmless only because such a row never has one.         *)
THEOREM KeyInvariant == Spec => []KeyInv
  <1>1. Init => KeyInv
    BY DEF Init, KeyInv, KeyHolders, InlineKeyless, OpenHoldsKey, Absent
  <1>2. TypeOK /\ SoleExecution /\ KeyInv /\ [Next]_vars => KeyInv'
    BY KeyStep
  <1> QED
    BY <1>1, <1>2, TypeCorrect, ExecutionIsSole, PTL DEF Spec

(* A dedupe_key has one holder and its holder has not ended, whatever      *)
(* callers of enqueue, outcomes, cancellations and reclaims interleave.    *)
THEOREM KeysAreHeld == Spec => []KeyHolders
  <1>1. KeyInv => KeyHolders
    BY DEF KeyInv
  <1> QED
    BY <1>1, KeyInvariant, PTL

(* Two jobs enqueued under one key and never reclaimed are not pending or  *)
(* running together, although enqueue releases and inserts in two          *)
(* statements and several callers interleave.                              *)
THEOREM KeysDeduplicate == Spec => []OneActivePerKey
  <1>1. KeyInv => OneActivePerKey
    BY DEF KeyInv, KeyHolders, OpenHoldsKey, OneActivePerKey, Active, Terminal
  <1> QED
    BY <1>1, KeyInvariant, PTL

(***************************************************************************)
(* The queue implements the life cycle                                     *)
(***************************************************************************)

(* A row that does not exist yet was never reclaimed.                      *)
AbsentUntouched == \A j \in Jobs : jobs[j].status = "absent" => reclaims[j] = 0

(* What a step of the queue does to row j, in the terms of JobLifecycle.   *)
LifeMove(j) ==
  \/ jobs'[j].status = jobs[j].status /\ reclaims'[j] = reclaims[j]
  \/ /\ reclaims'[j] = reclaims[j] /\ reclaims[j] = 0
     /\ <<jobs[j].status, jobs'[j].status>> \in Life!Moves
  \/ /\ jobs[j].status = "running"
     /\ reclaims'[j] = reclaims[j] + 1
     /\ jobs'[j].status \in {"pending", "error"}
  \/ /\ reclaims'[j] = reclaims[j] /\ reclaims[j] # 0
     /\ jobs[j].status # "absent" /\ jobs'[j].status # "absent"

LEMMA LifeMoves ==
  /\ <<"absent", "pending">> \in Life!Moves /\ <<"absent", "running">> \in Life!Moves
  /\ <<"pending", "running">> \in Life!Moves /\ <<"pending", "cancelled">> \in Life!Moves
  /\ <<"running", "pending">> \in Life!Moves
  /\ \A s \in {"success", "cancelled", "dead"} : <<"running", s>> \in Life!Moves
  BY DEF Life!Moves, Life!Ends

(* An outcome UPDATE: of the running row, or of a row that was reclaimed.  *)
LEMMA LifeEnd ==
  ASSUME TypeOK, SoleExecution, AbsentUntouched, NEW e \in execs, NEW row,
         EndWith(e, row),
         row.status \in {jobs[e.job].status, "success", "cancelled", "dead", "pending"},
         NEW j \in Jobs
  PROVE  LifeMove(j)
  <1>1. e.job \in Jobs
    BY DEF TypeOK, Execution
  <1>2. /\ jobs'[e.job] = row
        /\ \A i \in Jobs : i # e.job => jobs'[i] = jobs[i]
        /\ reclaims' = reclaims
    BY <1>1 DEF EndWith, TypeOK
  <1>3. CASE j # e.job
    BY <1>2, <1>3 DEF LifeMove
  <1>4. CASE j = e.job /\ reclaims[j] = 0
    <2>1. jobs[j].status = "running"
      BY <1>4 DEF SoleExecution, ExecutionsOfJob
    <2>2. jobs'[j].status = jobs[j].status
          \/ <<jobs[j].status, jobs'[j].status>> \in Life!Moves
      BY <1>2, <1>4, <2>1, LifeMoves
    <2> QED
      BY <1>2, <1>4, <2>2 DEF LifeMove
  <1>5. CASE j = e.job /\ reclaims[j] # 0
    <2>1. jobs[j].status # "absent"
      BY <1>5 DEF AbsentUntouched
    <2>2. jobs'[j].status # "absent"
      BY <1>2, <1>5, <2>1
    <2> QED
      BY <1>2, <1>5, <2>1, <2>2 DEF LifeMove
  <1> QED
    BY <1>3, <1>4, <1>5

(* A statement that moves pending or absent rows by one of the Moves.      *)
LEMMA LifeForward ==
  ASSUME AbsentUntouched, NEW j \in Jobs, reclaims' = reclaims,
         \/ jobs'[j].status = jobs[j].status
         \/ /\ <<jobs[j].status, jobs'[j].status>> \in Life!Moves
            /\ jobs'[j].status # "absent"
  PROVE  LifeMove(j)
  <1>1. CASE jobs'[j].status = jobs[j].status
    BY <1>1 DEF LifeMove
  <1>2. CASE /\ <<jobs[j].status, jobs'[j].status>> \in Life!Moves
             /\ jobs'[j].status # "absent"
    BY <1>2 DEF LifeMove, AbsentUntouched
  <1> QED
    BY <1>1, <1>2

LEMMA LifeClient ==
  ASSUME TypeOK, AbsentUntouched, ClientStep, NEW j \in Jobs
  PROVE  LifeMove(j)
  <1>1. ASSUME NEW c \in Clients, NEW k \in Keys, ReleaseKey(c, k)
        PROVE  LifeMove(j)
    <2>1. jobs'[j].status = jobs[j].status /\ reclaims' = reclaims
      BY <1>1 DEF ReleaseKey, TypeOK, Row
    <2> QED
      BY <2>1 DEF LifeMove
  <1>2. ASSUME NEW i \in Jobs, NEW k, InsertRow(i, k), reclaims' = reclaims
        PROVE  LifeMove(j)
    <2>1. /\ jobs[i].status = "absent" /\ jobs'[i].status = "pending"
          /\ i # j => jobs'[j] = jobs[j]
      BY <1>2 DEF InsertRow, NewRow, Absent, TypeOK
    <2> QED
      BY <1>2, <2>1, LifeMoves, LifeForward
  <1>3. ASSUME NEW c \in Clients, InsertSkipped(c)
        PROVE  LifeMove(j)
    BY <1>3 DEF InsertSkipped, LifeMove
  <1> QED
    BY <1>1, <1>2, <1>3 DEF ClientStep, InsertKeyed, InsertPlain

LEMMA LifeRunner ==
  ASSUME TypeOK, SoleExecution, AbsentUntouched, RunnerStep, NEW j \in Jobs
  PROVE  LifeMove(j)
  <1>1. ASSUME ReclaimStaleJobs
        PROVE  LifeMove(j)
    <2>1. CASE Reclaimable(j)
      <3>1. jobs'[j].status = "pending" /\ jobs[j].status = "running"
        BY <1>1, <2>1 DEF ReclaimStaleJobs, Reclaimable, TypeOK, Row
      <3>2. reclaims'[j] = reclaims[j] + 1
        BY <1>1, <2>1, Zenon DEF ReclaimStaleJobs
      <3> QED
        BY <3>1, <3>2 DEF LifeMove
    <2>2. CASE ~Reclaimable(j)
      <3>1. jobs'[j] = jobs[j] /\ reclaims'[j] = reclaims[j]
        BY <1>1, <2>2, Zenon DEF ReclaimStaleJobs
      <3> QED
        BY <3>1 DEF LifeMove
    <2> QED
      BY <2>1, <2>2
  <1>2. ASSUME NEW w \in Workers, ClaimAndDispatch(w)
        PROVE  LifeMove(j)
    <2>0. PICK batch \in SUBSET {i \in Jobs : Claimable(i)} :
            jobs' = [i \in Jobs |-> IF i \in batch THEN ClaimedRow(w, jobs[i])
                                                   ELSE jobs[i]]
      BY <1>2 DEF ClaimAndDispatch
    <2>1. \/ jobs'[j].status = jobs[j].status
          \/ jobs[j].status = "pending" /\ jobs'[j].status = "running"
      BY <2>0 DEF Claimable, ClaimedRow, TypeOK, Row
    <2> QED
      BY <1>2, <2>1, LifeMoves, LifeForward DEF ClaimAndDispatch
  <1>3. ASSUME jobs' = jobs, reclaims' = reclaims
        PROVE  LifeMove(j)
    BY <1>3 DEF LifeMove
  <1>4. ASSUME NEW e \in execs,
               MarkSuccess(e) \/ MarkCancelled(e) \/ MarkDead(e) \/ MarkRetry(e)
               \/ MarkLost(e)
        PROVE  LifeMove(j)
    <2>1. jobs[e.job] \in Row
      BY DEF TypeOK, Execution
    <2>2. PICK row : /\ EndWith(e, row)
                     /\ row.status \in {jobs[e.job].status, "success", "cancelled",
                                        "dead", "pending"}
      <3>1. \A s \in {"success", "cancelled", "dead"} :
               [jobs[e.job] EXCEPT !.status = s, !.dedupe_key = NoKey].status = s
        BY <2>1 DEF Row
      <3>2. [jobs[e.job] EXCEPT !.status = "pending", !.due = FALSE,
                                !.worker_id = NoWorker].status = "pending"
        BY <2>1 DEF Row
      <3> QED
        BY <1>4, <3>1, <3>2
           DEF MarkSuccess, MarkCancelled, MarkDead, MarkRetry, MarkLost
    <2> QED
      BY <2>2, LifeEnd
  <1> QED
    BY <1>1, <1>2, <1>3, <1>4
       DEF RunnerStep, Start, StartFails, Crash, NotifyCancel, Register,
           HandlerReturns, Outcome, ReadAttempts

LEMMA LifeInline ==
  ASSUME TypeOK, SoleExecution, AbsentUntouched, InlineStep, NEW j \in Jobs
  PROVE  LifeMove(j)
  <1>1. ASSUME NEW i \in Jobs, InlineStart(i)
        PROVE  LifeMove(j)
    <2>1. /\ jobs[i].status = "absent" /\ jobs'[i].status = "running"
          /\ i # j => jobs'[j] = jobs[j]
      BY <1>1 DEF InlineStart, Absent, TypeOK
    <2> QED
      BY <1>1, <2>1, LifeMoves, LifeForward DEF InlineStart
  <1>2. ASSUME NEW e \in execs, NEW s \in {"success", "cancelled", "dead"},
               InlineEnd(e, s)
        PROVE  LifeMove(j)
    <2>1. [jobs[e.job] EXCEPT !.status = s].status = s
      BY DEF TypeOK, Execution, Row
    <2> QED
      BY <1>2, <2>1, LifeEnd DEF InlineEnd
  <1>3. ASSUME NEW e \in execs, InlineLost(e)
        PROVE  LifeMove(j)
    BY <1>3, LifeEnd DEF InlineLost
  <1> QED
    BY <1>1, <1>2, <1>3 DEF InlineStep

LEMMA LifeAdmin ==
  ASSUME TypeOK, AbsentUntouched, AdminStep, NEW j \in Jobs
  PROVE  LifeMove(j)
  <1>1. ASSUME NEW i \in Jobs, CancelPending(i)
        PROVE  LifeMove(j)
    <2>1. /\ jobs[i].status = "pending" /\ jobs'[i].status = "cancelled"
          /\ i # j => jobs'[j] = jobs[j]
      BY <1>1 DEF CancelPending, TypeOK, Row
    <2> QED
      BY <1>1, <2>1, LifeMoves, LifeForward DEF CancelPending
  <1>2. ASSUME NEW i \in Jobs, CancelRunning(i)
        PROVE  LifeMove(j)
    <2>1. jobs'[j].status = jobs[j].status
      BY <1>2 DEF CancelRunning, TypeOK, Row
    <2> QED
      BY <1>2, <2>1 DEF CancelRunning, LifeMove
  <1>3. CASE ReclaimAncient
    <2>1. CASE Ancient(j)
      <3>1. jobs'[j].status = "error" /\ jobs[j].status = "running"
        BY <1>3, <2>1 DEF ReclaimAncient, Ancient, TypeOK, Row
      <3>2. reclaims'[j] = reclaims[j] + 1
        BY <1>3, <2>1, Zenon DEF ReclaimAncient
      <3> QED
        BY <3>1, <3>2 DEF LifeMove
    <2>2. CASE ~Ancient(j)
      <3>1. jobs'[j] = jobs[j] /\ reclaims'[j] = reclaims[j]
        BY <1>3, <2>2, Zenon DEF ReclaimAncient
      <3> QED
        BY <3>1 DEF LifeMove
    <2> QED
      BY <2>1, <2>2
  <1> QED
    BY <1>1, <1>2, <1>3 DEF AdminStep

LEMMA LifeClock ==
  ASSUME TypeOK, ClockStep, NEW j \in Jobs
  PROVE  LifeMove(j)
  <1> PICK i \in Jobs : BecomeDue(i) \/ GrowOld(i)
    BY DEF ClockStep
  <1>1. jobs'[j].status = jobs[j].status
    <2>1. CASE BecomeDue(i)
      BY <2>1 DEF BecomeDue, TypeOK, Row
    <2>2. CASE jobs' = [jobs EXCEPT ![i].age = "stale"]
      BY <2>2 DEF TypeOK, Row
    <2>3. CASE jobs' = [jobs EXCEPT ![i].age = "ancient"]
      BY <2>3 DEF TypeOK, Row
    <2> QED
      BY <2>1, <2>2, <2>3 DEF GrowOld
  <1> QED
    BY <1>1 DEF LifeMove, BecomeDue, GrowOld

LEMMA LifeStep ==
  ASSUME TypeOK, SoleExecution, AbsentUntouched, [Next]_vars
  PROVE  \A j \in Jobs : LifeMove(j)
  <1> SUFFICES ASSUME NEW j \in Jobs PROVE LifeMove(j)
    OBVIOUS
  <1>1. CASE Next
    BY <1>1, LifeClient, LifeRunner, LifeInline, LifeAdmin, LifeClock DEF Next
  <1>2. CASE UNCHANGED vars
    BY <1>2 DEF LifeMove, vars
  <1> QED
    BY <1>1, <1>2

LEMMA UntouchedStep ==
  ASSUME TypeOK, SoleExecution, AbsentUntouched, [Next]_vars
  PROVE  AbsentUntouched'
  <1>1. \A j \in Jobs : LifeMove(j)
    BY LifeStep
  <1> QED
    BY <1>1 DEF LifeMove, AbsentUntouched

(* A move of a row is a step of the abstract specification.                *)
LEMMA LifeRefines ==
  ASSUME TypeOK, TypeOK', \A j \in Jobs : LifeMove(j)
  PROVE  Life!Next
  <1> DEFINE st == [j \in Jobs |-> jobs[j].status]
             tk == {j \in Jobs : reclaims[j] > 0}
  <1>1. /\ st' \in [Jobs -> Life!States] /\ tk' \subseteq Jobs
    BY DEF TypeOK, Row, Status, Active, Terminal, Life!States, Life!Ends
  <1>2. ASSUME NEW j \in Jobs
        PROVE  Life!Keeps(j) \/ Life!Advances(j) \/ Life!Taken(j) \/ Life!Disputed(j)
    <2>1. /\ st[j] = jobs[j].status /\ st'[j] = jobs'[j].status
          /\ j \in tk <=> reclaims[j] > 0
          /\ j \in tk' <=> reclaims'[j] > 0
      OBVIOUS
    <2>2. reclaims[j] \in Nat /\ reclaims'[j] \in Nat
      BY DEF TypeOK
    <2>3. jobs'[j].status # "absent" => st'[j] \in Life!States \ {"absent"}
      BY <1>1, <2>1
    <2>4. LifeMove(j)
      OBVIOUS
    <2> QED
      BY <2>1, <2>2, <2>3, <2>4
         DEF LifeMove, Life!Keeps, Life!Advances, Life!Taken, Life!Disputed
  <1> QED
    BY <1>1, <1>2 DEF Life!Next

(* The job queue implements JobLifecycle, with the status column as its    *)
(* state and `taken` set by the first reclaim: no interleaving of claims,  *)
(* crashes, retries, cancellations and late UPDATEs moves an unreclaimed   *)
(* row otherwise than along the life cycle, and no row ever disappears.    *)
THEOREM LifecycleIsKept == Spec => LifecycleKept
  <1>1. Init => AbsentUntouched
    BY DEF Init, AbsentUntouched
  <1>2. TypeOK /\ SoleExecution /\ AbsentUntouched /\ [Next]_vars => AbsentUntouched'
    BY UntouchedStep
  <1>3. Init => Life!Init
    BY DEF Init, Absent, Life!Init
  <1>4. TypeOK /\ TypeOK' /\ SoleExecution /\ AbsentUntouched /\ [Next]_vars
          => [Life!Next]_(Life!vars)
    BY LifeStep, LifeRefines
  <1> QED
    BY <1>1, <1>2, <1>3, <1>4, TypeCorrect, ExecutionIsSole, PTL
       DEF Spec, LifecycleKept, Life!Spec

-----------------------------------------------------------------------------
(***************************************************************************)
(* What a step does to a row, its executions and its budget                *)
(***************************************************************************)

Retrying(j) == {e \in execs : e.job = j /\ e.phase = "retry"}
Queued(j) == IF jobs[j].status = "pending" THEN 1 ELSE 0
Copies(j) == Cardinality(ExecutionsOfJob(j))
Retries(j) == Cardinality(Retrying(j))

(* An id that was not handed out yet has no trace anywhere.                *)
AbsentRows ==
  \A j \in Jobs : jobs[j].status = "absent" =>
      jobs[j] = Absent /\ reclaims[j] = 0 /\ ExecutionsOfJob(j) = {}

FiniteExecs == IsFiniteSet(execs)

SameAttempts(j) == /\ jobs'[j].attempts = jobs[j].attempts
                   /\ jobs'[j].max_attempts = jobs[j].max_attempts
SameReclaims(j) == reclaims'[j] = reclaims[j]
NoMoreExecutions(j) == Copies(j)' <= Copies(j) /\ Retries(j)' <= Retries(j)
OneMoreExecution(j) == Copies(j)' <= Copies(j) + 1 /\ Retries(j)' <= Retries(j)

Kept(j) ==
  /\ SameAttempts(j) /\ SameReclaims(j) /\ NoMoreExecutions(j)
  /\ jobs'[j].status = "pending" => jobs[j].status = "pending"
  /\ jobs'[j].status = "absent" => jobs'[j] = jobs[j]

Inserted(j) ==
  /\ SameReclaims(j) /\ NoMoreExecutions(j)
  /\ jobs[j].status = "absent" /\ jobs'[j].status = "pending"
  /\ jobs'[j].attempts = 0 /\ jobs'[j].max_attempts = MaxAttempts

InlineStarted(j) ==
  /\ SameReclaims(j) /\ OneMoreExecution(j)
  /\ jobs[j].status = "absent" /\ jobs'[j].status = "running"
  /\ jobs'[j].attempts = 1 /\ jobs'[j].max_attempts = 1

Claimed(j) ==
  /\ SameReclaims(j) /\ OneMoreExecution(j)
  /\ jobs[j].status = "pending" /\ ~jobs[j].cancel_requested
  /\ jobs'[j].status = "running"
  /\ jobs'[j].attempts = jobs[j].attempts + 1
  /\ jobs'[j].max_attempts = jobs[j].max_attempts

(* mark_error has read attempts < max_attempts; it counts as a retry now.  *)
RetryDecided(j) ==
  /\ SameReclaims(j) /\ jobs'[j] = jobs[j]
  /\ jobs[j].attempts < jobs[j].max_attempts
  /\ Copies(j)' <= Copies(j)

(* ... and has put the row back.                                           *)
Requeued(j) ==
  /\ SameAttempts(j) /\ SameReclaims(j)
  /\ jobs'[j].status = "pending"
  /\ Copies(j)' <= Copies(j) - 1 /\ Retries(j)' <= Retries(j) - 1

Reclaimed(j) ==
  /\ SameAttempts(j) /\ NoMoreExecutions(j)
  /\ jobs[j].status = "running" /\ jobs'[j].status \in {"pending", "error"}
  /\ reclaims'[j] = reclaims[j] + 1

RowMove(j) ==
  \/ Kept(j) \/ Inserted(j) \/ InlineStarted(j) \/ Claimed(j)
  \/ RetryDecided(j) \/ Requeued(j) \/ Reclaimed(j)

LEMMA CountsTyped ==
  ASSUME FiniteExecs, NEW j
  PROVE  /\ Copies(j) \in Nat /\ Retries(j) \in Nat /\ Retries(j) <= Copies(j)
         /\ Copies(j) = 0 <=> ExecutionsOfJob(j) = {}
  <1>1. ExecutionsOfJob(j) \subseteq execs /\ Retrying(j) \subseteq ExecutionsOfJob(j)
    BY DEF ExecutionsOfJob, Retrying
  <1>2. IsFiniteSet(ExecutionsOfJob(j))
    BY <1>1, SubsetCount DEF FiniteExecs
  <1> QED
    BY <1>1, <1>2, SubsetCount, FS_EmptySet DEF Copies, Retries

(* No execution is added.                                                  *)
LEMMA FewerExecutions ==
  ASSUME FiniteExecs, execs' \subseteq execs
  PROVE  FiniteExecs' /\ \A j \in Jobs : NoMoreExecutions(j)
  <1>1. FiniteExecs'
    BY SubsetCount DEF FiniteExecs
  <1>2. ASSUME NEW j \in Jobs PROVE NoMoreExecutions(j)
    <2>1. /\ ExecutionsOfJob(j)' \subseteq ExecutionsOfJob(j)
          /\ ExecutionsOfJob(j) \subseteq execs
          /\ Retrying(j)' \subseteq Retrying(j) /\ Retrying(j) \subseteq execs
      BY DEF ExecutionsOfJob, Retrying
    <2>2. IsFiniteSet(ExecutionsOfJob(j)) /\ IsFiniteSet(Retrying(j))
      BY <2>1, SubsetCount DEF FiniteExecs
    <2>3. /\ Cardinality(ExecutionsOfJob(j)') <= Cardinality(ExecutionsOfJob(j))
          /\ Cardinality(Retrying(j)') <= Cardinality(Retrying(j))
      BY <2>1, <2>2, SubsetCount
    <2> QED
      BY <2>3 DEF NoMoreExecutions, Copies, Retries
  <1> QED
    BY <1>1, <1>2

(* An execution moves to another phase.                                    *)
LEMMA MovedExecution ==
  ASSUME TypeOK, FiniteExecs, NEW e \in execs, NEW p \in Phases,
         execs' = (execs \ {e}) \cup {[e EXCEPT !.phase = p]}
  PROVE  /\ FiniteExecs'
         /\ \A j \in Jobs : /\ Copies(j)' <= Copies(j)
                            /\ p # "retry" => Retries(j)' <= Retries(j)
                            /\ j # e.job => Retries(j)' <= Retries(j)
  <1> DEFINE n == [e EXCEPT !.phase = p]
  <1>1. n.job = e.job /\ n.phase = p
    BY DEF TypeOK, Execution
  <1>2. execs' \subseteq (execs \ {e}) \cup {n}
    OBVIOUS
  <1> HIDE DEF n
  <1>3. FiniteExecs'
    BY <1>2, ReplaceCount DEF FiniteExecs
  <1>4. ASSUME NEW j \in Jobs
        PROVE  /\ Copies(j)' <= Copies(j)
               /\ p # "retry" \/ j # e.job => Retries(j)' <= Retries(j)
    <2>1. IsFiniteSet(ExecutionsOfJob(j)) /\ IsFiniteSet(Retrying(j))
      <3>1. ExecutionsOfJob(j) \subseteq execs /\ Retrying(j) \subseteq execs
        BY DEF ExecutionsOfJob, Retrying
      <3> QED
        BY <3>1, SubsetCount DEF FiniteExecs
    <2>2. Copies(j)' <= Copies(j)
      <3>1. CASE e.job = j
        <4>1. /\ e \in ExecutionsOfJob(j)
              /\ ExecutionsOfJob(j)' \subseteq (ExecutionsOfJob(j) \ {e}) \cup {n}
          BY <1>2, <3>1 DEF ExecutionsOfJob
        <4> QED
          BY <2>1, <4>1, ReplaceCount DEF Copies
      <3>2. CASE e.job # j
        <4>1. ExecutionsOfJob(j)' \subseteq ExecutionsOfJob(j)
          BY <1>1, <1>2, <3>2 DEF ExecutionsOfJob
        <4> QED
          BY <2>1, <4>1, SubsetCount DEF Copies
      <3> QED
        BY <3>1, <3>2
    <2>3. ASSUME p # "retry" \/ j # e.job PROVE Retries(j)' <= Retries(j)
      <3>1. Retrying(j)' \subseteq Retrying(j)
        BY <1>1, <1>2, <2>3 DEF Retrying
      <3> QED
        BY <2>1, <3>1, SubsetCount DEF Retries
    <2> QED
      BY <2>2, <2>3
  <1> QED
    BY <1>3, <1>4

(* Executions are added, one at most for a row.                            *)
LEMMA AddedExecutions ==
  ASSUME FiniteExecs, NEW new, IsFiniteSet(new), execs' = execs \cup new,
         \A n \in new : n.phase # "retry",
         \A m, n \in new : m.job = n.job => m = n
  PROVE  /\ FiniteExecs'
         /\ \A j \in Jobs : OneMoreExecution(j)
         /\ \A j \in Jobs : (\A n \in new : n.job # j) => NoMoreExecutions(j)
  <1>1. FiniteExecs'
    BY FS_Union DEF FiniteExecs
  <1>2. ASSUME NEW j \in Jobs
        PROVE  /\ OneMoreExecution(j)
               /\ (\A n \in new : n.job # j) => NoMoreExecutions(j)
    <2>1. IsFiniteSet(ExecutionsOfJob(j)) /\ IsFiniteSet(Retrying(j))
      <3>1. ExecutionsOfJob(j) \subseteq execs /\ Retrying(j) \subseteq execs
        BY DEF ExecutionsOfJob, Retrying
      <3> QED
        BY <3>1, SubsetCount DEF FiniteExecs
    <2>2. Retries(j)' <= Retries(j)
      <3>1. Retrying(j)' \subseteq Retrying(j)
        BY DEF Retrying
      <3> QED
        BY <2>1, <3>1, SubsetCount DEF Retries
    <2>3. CASE \A n \in new : n.job # j
      <3>1. ExecutionsOfJob(j)' \subseteq ExecutionsOfJob(j)
        BY <2>3 DEF ExecutionsOfJob
      <3>2. /\ Copies(j)' <= Copies(j)
            /\ Copies(j) \in Nat /\ Copies(j)' \in Nat
        BY <2>1, <3>1, SubsetCount DEF Copies
      <3>3. Copies(j)' <= Copies(j) + 1
        BY <3>2
      <3> QED
        BY <2>2, <3>2, <3>3 DEF OneMoreExecution, NoMoreExecutions
    <2>4. ASSUME NEW n \in new, n.job = j
          PROVE  OneMoreExecution(j)
      <3>1. ExecutionsOfJob(j)' \subseteq ExecutionsOfJob(j) \cup {n}
        BY <2>4 DEF ExecutionsOfJob
      <3>2. Copies(j)' <= Copies(j) + 1
        BY <2>1, <3>1, AddCount DEF Copies
      <3> QED
        BY <2>2, <3>2 DEF OneMoreExecution
    <2> QED
      BY <2>3, <2>4
  <1> QED
    BY <1>1, <1>2

(* A notification marks executions and neither adds nor merges rows'.      *)
LEMMA MarkedExecutions ==
  ASSUME TypeOK, FiniteExecs, NEW w \in Workers, NEW i \in Jobs, NotifyCancel(w, i)
  PROVE  FiniteExecs' /\ \A j \in Jobs : NoMoreExecutions(j)
  <1> DEFINE mark == [e \in execs |->
                        IF e.worker = w /\ e.job = i /\ e.attempt = tokens[w][i]
                        THEN [e EXCEPT !.cancelled = TRUE] ELSE e]
  <1>1. execs' = {mark[e] : e \in execs}
    BY DEF NotifyCancel
  <1>2. \A e \in execs : mark[e].job = e.job /\ mark[e].phase = e.phase
    BY DEF TypeOK, Execution
  <1>3. ASSUME NEW S \in SUBSET execs, NEW T, T = {mark[e] : e \in S}
        PROVE  IsFiniteSet(T) /\ Cardinality(T) <= Cardinality(S)
    <2>1. IsFiniteSet(S)
      BY SubsetCount DEF FiniteExecs
    <2> HIDE DEF mark
    <2> QED
      BY <1>3, <2>1, ValueCount
  <1> HIDE DEF mark
  <1>4. FiniteExecs'
    BY <1>1, <1>3 DEF FiniteExecs
  <1>5. ASSUME NEW j \in Jobs PROVE NoMoreExecutions(j)
    <2>1. /\ ExecutionsOfJob(j)' = {mark[e] : e \in ExecutionsOfJob(j)}
          /\ Retrying(j)' = {mark[e] : e \in Retrying(j)}
          /\ ExecutionsOfJob(j) \in SUBSET execs /\ Retrying(j) \in SUBSET execs
      BY <1>1, <1>2 DEF ExecutionsOfJob, Retrying
    <2> QED
      BY <1>3, <2>1 DEF NoMoreExecutions, Copies, Retries
  <1> QED
    BY <1>4, <1>5

(* The row, once it exists, does not become pending or absent.             *)
LEMMA KeptRow ==
  ASSUME NEW j \in Jobs, SameAttempts(j), SameReclaims(j), NoMoreExecutions(j),
         jobs'[j].status \in Status \ {"pending", "absent"} \/ jobs'[j] = jobs[j]
  PROVE  RowMove(j)
  BY DEF RowMove, Kept

LEMMA ClientMoves ==
  ASSUME TypeOK, FiniteExecs, AbsentRows, ClientStep
  PROVE  FiniteExecs' /\ \A j \in Jobs : RowMove(j)
  <1>1. execs' = execs /\ reclaims' = reclaims
    BY DEF ClientStep, ReleaseKey, InsertKeyed, InsertSkipped, InsertPlain
  <1>2. FiniteExecs' /\ \A j \in Jobs : NoMoreExecutions(j)
    BY <1>1, FewerExecutions
  <1>3. ASSUME NEW c \in Clients, NEW k \in Keys, ReleaseKey(c, k), NEW j \in Jobs
        PROVE  RowMove(j)
    <2>1. jobs[j].status = "absent" => jobs[j].dedupe_key # k
      BY JobQueueAssumption DEF AbsentRows, Absent
    <2>2. /\ SameAttempts(j) /\ jobs'[j].status = jobs[j].status
          /\ jobs'[j].status = "absent" => jobs'[j] = jobs[j]
      BY <1>3, <2>1 DEF ReleaseKey, SameAttempts, TypeOK, Row
    <2> QED
      BY <1>1, <1>2, <2>2 DEF RowMove, Kept, SameReclaims
  <1>4. ASSUME NEW i \in Jobs, NEW k, InsertRow(i, k), NEW j \in Jobs
        PROVE  RowMove(j)
    <2>1. i # j => jobs'[j] = jobs[j]
      BY <1>4 DEF InsertRow, TypeOK
    <2>2. i = j => Inserted(j)
      BY <1>1, <1>2, <1>4
         DEF InsertRow, NewRow, Absent, TypeOK, Inserted, SameReclaims
    <2> QED
      BY <1>1, <1>2, <2>1, <2>2, KeptRow DEF RowMove, SameAttempts, SameReclaims
  <1>5. ASSUME NEW c \in Clients, InsertSkipped(c), NEW j \in Jobs
        PROVE  RowMove(j)
    BY <1>1, <1>2, <1>5, KeptRow DEF InsertSkipped, SameAttempts, SameReclaims
  <1> QED
    BY <1>2, <1>3, <1>4, <1>5 DEF ClientStep, InsertKeyed, InsertPlain

LEMMA ReclaimMoves ==
  ASSUME TypeOK, FiniteExecs, ReclaimStaleJobs, execs' = execs
  PROVE  FiniteExecs' /\ \A j \in Jobs : RowMove(j)
  <1>1. FiniteExecs' /\ \A j \in Jobs : NoMoreExecutions(j)
    BY FewerExecutions
  <1>2. ASSUME NEW j \in Jobs, Reclaimable(j) PROVE RowMove(j)
    <2>1. /\ SameAttempts(j)
          /\ jobs[j].status = "running" /\ jobs'[j].status = "pending"
      BY <1>2 DEF ReclaimStaleJobs, Reclaimable, SameAttempts, TypeOK, Row
    <2>2. reclaims'[j] = reclaims[j] + 1
      BY <1>2, Zenon DEF ReclaimStaleJobs
    <2> QED
      BY <1>1, <2>1, <2>2 DEF RowMove, Reclaimed
  <1>3. ASSUME NEW j \in Jobs, ~Reclaimable(j) PROVE RowMove(j)
    <2>1. jobs'[j] = jobs[j] /\ reclaims'[j] = reclaims[j]
      BY <1>3, Zenon DEF ReclaimStaleJobs
    <2> QED
      BY <1>1, <2>1, KeptRow DEF SameAttempts, SameReclaims
  <1> QED
    BY <1>1, <1>2, <1>3

LEMMA ClaimMoves ==
  ASSUME TypeOK, FiniteExecs, NEW w \in Workers, ClaimAndDispatch(w)
  PROVE  FiniteExecs' /\ \A j \in Jobs : RowMove(j)
  <1> PICK batch \in SUBSET {j \in Jobs : Claimable(j)} :
          /\ jobs' = [j \in Jobs |-> IF j \in batch THEN ClaimedRow(w, jobs[j])
                                                    ELSE jobs[j]]
          /\ execs' = execs \cup {Spawned(w, j) : j \in batch}
    BY DEF ClaimAndDispatch
  <1> DEFINE spawn == [j \in batch |-> Spawned(w, j)]
             new == {Spawned(w, j) : j \in batch}
  <1>1. \A n \in new : n.job \in batch /\ n = Spawned(w, n.job) /\ n.phase # "retry"
    BY DEF Spawned
  <1>2. IsFiniteSet(new)
    <2>1. IsFiniteSet(batch)
      BY JobQueueAssumption, SubsetCount
    <2>2. new = {spawn[j] : j \in batch}
      OBVIOUS
    <2> HIDE DEF spawn, new
    <2> QED
      BY <2>1, <2>2, ValueCount
  <1>3. execs' = execs \cup new /\ reclaims' = reclaims
    BY DEF ClaimAndDispatch
  <1> HIDE DEF spawn, new
  <1>4. /\ FiniteExecs' /\ \A j \in Jobs : OneMoreExecution(j)
        /\ \A j \in Jobs : (\A n \in new : n.job # j) => NoMoreExecutions(j)
    BY <1>1, <1>2, <1>3, AddedExecutions
  <1>5. ASSUME NEW j \in Jobs, j \in batch PROVE RowMove(j)
    <2>1. jobs'[j] = ClaimedRow(w, jobs[j]) /\ jobs[j] \in Row /\ Claimable(j)
      BY <1>5 DEF TypeOK
    <2>2. /\ jobs'[j].status = "running"
          /\ jobs'[j].attempts = jobs[j].attempts + 1
          /\ jobs'[j].max_attempts = jobs[j].max_attempts
      BY <2>1 DEF ClaimedRow, Row
    <2> QED
      BY <1>3, <1>4, <2>1, <2>2 DEF RowMove, Claimed, Claimable, SameReclaims
  <1>6. ASSUME NEW j \in Jobs, j \notin batch PROVE RowMove(j)
    <2>1. jobs'[j] = jobs[j]
      BY <1>6
    <2>2. NoMoreExecutions(j)
      BY <1>1, <1>4, <1>6
    <2> QED
      BY <1>3, <2>1, <2>2, KeptRow DEF SameAttempts, SameReclaims
  <1> QED
    BY <1>4, <1>5, <1>6

LEMMA WorkerMoves ==
  ASSUME TypeOK, FiniteExecs, NEW w \in Workers,
         \/ Start(w) \/ StartFails(w) \/ Crash(w) \/ ClaimAndDispatch(w)
         \/ \E j \in Jobs : NotifyCancel(w, j)
  PROVE  FiniteExecs' /\ \A j \in Jobs : RowMove(j)
  <1>1. CASE Start(w) \/ StartFails(w)
    BY <1>1, ReclaimMoves DEF Start, StartFails
  <1>2. CASE Crash(w)
    BY <1>2, FewerExecutions, KeptRow DEF Crash, SameAttempts, SameReclaims
  <1>3. ASSUME NEW j \in Jobs, NotifyCancel(w, j)
        PROVE  FiniteExecs' /\ \A i \in Jobs : RowMove(i)
    BY <1>3, MarkedExecutions, KeptRow DEF NotifyCancel, SameAttempts, SameReclaims
  <1> QED
    BY <1>1, <1>2, <1>3, ClaimMoves

(* An outcome that ends the row's life or leaves the row alone.            *)
LEMMA EndMoves ==
  ASSUME TypeOK, FiniteExecs, NEW e \in execs, NEW row, EndWith(e, row),
         row.attempts = jobs[e.job].attempts,
         row.max_attempts = jobs[e.job].max_attempts,
         row.status \in Terminal \/ row = jobs[e.job]
  PROVE  FiniteExecs' /\ \A j \in Jobs : RowMove(j)
  <1>1. FiniteExecs' /\ \A j \in Jobs : NoMoreExecutions(j)
    BY FewerExecutions DEF EndWith
  <1>2. Terminal \subseteq Status \ {"pending", "absent"}
    BY DEF Terminal, Status
  <1>3. ASSUME NEW j \in Jobs PROVE RowMove(j)
    <2>1. /\ j = e.job => jobs'[j] = row
          /\ j # e.job => jobs'[j] = jobs[j]
          /\ reclaims' = reclaims
      BY DEF EndWith, TypeOK
    <2> QED
      BY <1>1, <1>2, <2>1, KeptRow DEF SameAttempts, SameReclaims
  <1> QED
    BY <1>1, <1>3

LEMMA RequeueMoves ==
  ASSUME TypeOK, FiniteExecs, NEW e \in execs, MarkRetry(e)
  PROVE  FiniteExecs' /\ \A j \in Jobs : RowMove(j)
  <1>1. FiniteExecs' /\ \A j \in Jobs : NoMoreExecutions(j)
    BY FewerExecutions DEF MarkRetry, EndWith
  <1>2. /\ e.job \in Jobs /\ jobs[e.job] \in Row
        /\ jobs'[e.job] = [jobs[e.job] EXCEPT !.status = "pending", !.due = FALSE,
                                              !.worker_id = NoWorker]
        /\ \A j \in Jobs : j # e.job => jobs'[j] = jobs[j]
        /\ reclaims' = reclaims /\ execs' = execs \ {e} /\ e.phase = "retry"
    BY DEF MarkRetry, EndWith, TypeOK, Execution
  <1>3. RowMove(e.job)
    <2>1. SameAttempts(e.job) /\ jobs'[e.job].status = "pending"
      BY <1>2 DEF SameAttempts, Row
    <2>2. /\ e \in ExecutionsOfJob(e.job) /\ e \in Retrying(e.job)
          /\ ExecutionsOfJob(e.job)' \subseteq ExecutionsOfJob(e.job) \ {e}
          /\ Retrying(e.job)' \subseteq Retrying(e.job) \ {e}
          /\ ExecutionsOfJob(e.job) \subseteq execs /\ Retrying(e.job) \subseteq execs
      BY <1>2 DEF ExecutionsOfJob, Retrying
    <2>3. IsFiniteSet(ExecutionsOfJob(e.job)) /\ IsFiniteSet(Retrying(e.job))
      BY <2>2, SubsetCount DEF FiniteExecs
    <2>4. /\ Cardinality(ExecutionsOfJob(e.job)')
               <= Cardinality(ExecutionsOfJob(e.job)) - 1
          /\ Cardinality(Retrying(e.job)') <= Cardinality(Retrying(e.job)) - 1
      BY <2>2, <2>3, RemoveCount
    <2>5. /\ Copies(e.job)' <= Copies(e.job) - 1
          /\ Retries(e.job)' <= Retries(e.job) - 1
      <3> DEFINE j == e.job
      <3>1. /\ Copies(j)' = Cardinality(ExecutionsOfJob(j)')
            /\ Retries(j)' = Cardinality(Retrying(j)')
        BY DEF Copies, Retries
      <3> QED
        BY <2>4, <3>1 DEF Copies, Retries
    <2> QED
      BY <1>2, <2>1, <2>5 DEF RowMove, Requeued, SameReclaims
  <1>4. ASSUME NEW j \in Jobs, j # e.job PROVE RowMove(j)
    BY <1>1, <1>2, <1>4, KeptRow DEF SameAttempts, SameReclaims
  <1> QED
    BY <1>1, <1>3, <1>4

(* An execution moves on without having decided on a retry.                *)
LEMMA PhaseMoves ==
  ASSUME TypeOK, FiniteExecs, NEW e \in execs, NEW p \in Phases,
         execs' = (execs \ {e}) \cup {[e EXCEPT !.phase = p]},
         jobs' = jobs, reclaims' = reclaims,
         p = "retry" => jobs[e.job].attempts < jobs[e.job].max_attempts
  PROVE  FiniteExecs' /\ \A j \in Jobs : RowMove(j)
  <1>1. /\ FiniteExecs'
        /\ \A j \in Jobs : /\ Copies(j)' <= Copies(j)
                           /\ p # "retry" => Retries(j)' <= Retries(j)
                           /\ j # e.job => Retries(j)' <= Retries(j)
    BY MovedExecution
  <1>2. ASSUME NEW j \in Jobs PROVE RowMove(j)
    <2>1. CASE p # "retry" \/ j # e.job
      BY <1>1, <2>1, KeptRow DEF SameAttempts, SameReclaims, NoMoreExecutions
    <2>2. CASE p = "retry" /\ j = e.job
      BY <1>1, <2>2 DEF RowMove, RetryDecided, SameReclaims
    <2> QED
      BY <2>1, <2>2
  <1> QED
    BY <1>1, <1>2

LEMMA TaskMoves ==
  ASSUME TypeOK, FiniteExecs, NEW e \in execs,
         \/ Register(e) \/ (\E result \in Results : HandlerReturns(e, result))
         \/ Outcome(e) \/ MarkLost(e)
  PROVE  FiniteExecs' /\ \A j \in Jobs : RowMove(j)
  <1>0. jobs[e.job] \in Row /\ e.job \in Jobs
    BY DEF TypeOK, Execution
  <1>1. CASE Register(e)
    BY <1>1, PhaseMoves DEF Register, Phases
  <1>2. ASSUME NEW result \in Results, HandlerReturns(e, result)
        PROVE  FiniteExecs' /\ \A j \in Jobs : RowMove(j)
    <2>1. result \in Phases /\ result # "retry"
      BY DEF Phases, Results, Failures
    <2> QED
      BY <1>2, <2>1, PhaseMoves DEF HandlerReturns
  <1>3. CASE ReadAttempts(e)
    <2>1. CASE jobs[e.job].attempts >= jobs[e.job].max_attempts
      BY <1>3, <2>1, PhaseMoves DEF ReadAttempts, Phases
    <2>2. CASE ~(jobs[e.job].attempts >= jobs[e.job].max_attempts)
      <3>1. jobs[e.job].attempts < jobs[e.job].max_attempts
        BY <1>0, <2>2 DEF Row
      <3> QED
        BY <1>3, <2>2, <3>1, PhaseMoves DEF ReadAttempts, Phases
    <2> QED
      BY <2>1, <2>2
  <1>4. ASSUME NEW s \in Terminal,
               EndWith(e, [jobs[e.job] EXCEPT !.status = s, !.dedupe_key = NoKey])
        PROVE  FiniteExecs' /\ \A j \in Jobs : RowMove(j)
    <2> DEFINE row == [jobs[e.job] EXCEPT !.status = s, !.dedupe_key = NoKey]
    <2>1. /\ row.attempts = jobs[e.job].attempts /\ row.status = s
          /\ row.max_attempts = jobs[e.job].max_attempts
      BY <1>0 DEF Row
    <2> QED
      BY <1>4, <2>1, EndMoves
  <1>5. CASE MarkSuccess(e) \/ MarkCancelled(e) \/ MarkDead(e)
    BY <1>4, <1>5 DEF MarkSuccess, MarkCancelled, MarkDead, Terminal
  <1>6. CASE MarkLost(e)
    BY <1>6, EndMoves DEF MarkLost
  <1> QED
    BY <1>1, <1>2, <1>3, <1>5, <1>6, RequeueMoves DEF Outcome

LEMMA InlineMoves ==
  ASSUME TypeOK, FiniteExecs, InlineStep
  PROVE  FiniteExecs' /\ \A j \in Jobs : RowMove(j)
  <1>1. ASSUME NEW i \in Jobs, InlineStart(i)
        PROVE  FiniteExecs' /\ \A j \in Jobs : RowMove(j)
    <2> DEFINE n == [job |-> i, attempt |-> 1, worker |-> InlineCli,
                     phase |-> "running", cancelled |-> FALSE]
               new == {n}
    <2>1. /\ \A m \in new : m.phase # "retry" /\ m.job = i
          /\ \A m, o \in new : m = o
          /\ execs' = execs \cup new /\ reclaims' = reclaims
      BY <1>1 DEF InlineStart
    <2>2. IsFiniteSet(new)
      BY FS_Singleton
    <2> HIDE DEF n, new
    <2>3. /\ FiniteExecs' /\ \A j \in Jobs : OneMoreExecution(j)
          /\ \A j \in Jobs : (\A m \in new : m.job # j) => NoMoreExecutions(j)
      BY <2>1, <2>2, AddedExecutions
    <2>4. ASSUME NEW j \in Jobs, j # i PROVE RowMove(j)
      BY <1>1, <2>1, <2>3, <2>4, KeptRow
         DEF InlineStart, SameAttempts, SameReclaims, TypeOK
    <2>5. /\ jobs[i].status = "absent" /\ jobs'[i].status = "running"
          /\ jobs'[i].attempts = 1 /\ jobs'[i].max_attempts = 1
      BY <1>1 DEF InlineStart, TypeOK, Absent
    <2>6. RowMove(i)
      BY <2>1, <2>3, <2>5 DEF RowMove, InlineStarted, SameReclaims
    <2> QED
      BY <2>3, <2>4, <2>6
  <1>2. ASSUME NEW e \in execs, NEW s \in {"success", "cancelled", "dead"},
               InlineEnd(e, s)
        PROVE  FiniteExecs' /\ \A j \in Jobs : RowMove(j)
    <2> DEFINE row == [jobs[e.job] EXCEPT !.status = s]
    <2>1. /\ row.attempts = jobs[e.job].attempts /\ row.status = s
          /\ row.max_attempts = jobs[e.job].max_attempts
      BY DEF TypeOK, Execution, Row
    <2>2. EndWith(e, row) /\ s \in Terminal
      BY <1>2 DEF InlineEnd, Terminal
    <2> HIDE DEF row
    <2> QED
      BY <2>1, <2>2, EndMoves
  <1>3. ASSUME NEW e \in execs, InlineLost(e)
        PROVE  FiniteExecs' /\ \A j \in Jobs : RowMove(j)
    BY <1>3, EndMoves DEF InlineLost
  <1> QED
    BY <1>1, <1>2, <1>3 DEF InlineStep

LEMMA AdminMoves ==
  ASSUME TypeOK, FiniteExecs, AdminStep
  PROVE  FiniteExecs' /\ \A j \in Jobs : RowMove(j)
  <1>1. FiniteExecs' /\ \A j \in Jobs : NoMoreExecutions(j)
    BY FewerExecutions DEF AdminStep, CancelPending, CancelRunning, ReclaimAncient
  <1>2. ASSUME NEW i \in Jobs, CancelPending(i) \/ CancelRunning(i), NEW j \in Jobs
        PROVE  RowMove(j)
    <2>1. /\ SameAttempts(j) /\ SameReclaims(j)
          /\ jobs'[j] = jobs[j] \/ jobs'[j].status \in {"cancelled", "running"}
      <3>1. CASE CancelPending(i)
        BY <3>1 DEF CancelPending, SameAttempts, SameReclaims, TypeOK, Row
      <3>2. CASE CancelRunning(i)
        BY <3>2 DEF CancelRunning, SameAttempts, SameReclaims, TypeOK, Row
      <3> QED
        BY <1>2, <3>1, <3>2
    <2>2. {"cancelled", "running"} \subseteq Status \ {"pending", "absent"}
      BY DEF Status, Active, Terminal
    <2> QED
      BY <1>1, <2>1, <2>2, KeptRow
  <1>3. ASSUME ReclaimAncient, NEW j \in Jobs
        PROVE  RowMove(j)
    <2>1. CASE Ancient(j)
      <3>1. /\ SameAttempts(j)
            /\ jobs[j].status = "running" /\ jobs'[j].status = "error"
        BY <1>3, <2>1 DEF ReclaimAncient, Ancient, SameAttempts, TypeOK, Row
      <3>2. reclaims'[j] = reclaims[j] + 1
        BY <1>3, <2>1, Zenon DEF ReclaimAncient
      <3> QED
        BY <1>1, <3>1, <3>2 DEF RowMove, Reclaimed
    <2>2. CASE ~Ancient(j)
      <3>1. jobs'[j] = jobs[j] /\ reclaims'[j] = reclaims[j]
        BY <1>3, <2>2, Zenon DEF ReclaimAncient
      <3> QED
        BY <1>1, <3>1, KeptRow DEF SameAttempts, SameReclaims
    <2> QED
      BY <2>1, <2>2
  <1> QED
    BY <1>1, <1>2, <1>3 DEF AdminStep

LEMMA ClockMoves ==
  ASSUME TypeOK, FiniteExecs, ClockStep
  PROVE  FiniteExecs' /\ \A j \in Jobs : RowMove(j)
  <1>1. FiniteExecs' /\ \A j \in Jobs : NoMoreExecutions(j)
    BY FewerExecutions DEF ClockStep, BecomeDue, GrowOld
  <1>2. ASSUME NEW i \in Jobs, BecomeDue(i), NEW j \in Jobs
        PROVE  RowMove(j)
    <2>1. /\ SameAttempts(j) /\ SameReclaims(j)
          /\ jobs'[j].status = jobs[j].status
          /\ jobs[j].status = "absent" => jobs'[j] = jobs[j]
      BY <1>2 DEF BecomeDue, SameAttempts, SameReclaims, TypeOK, Row
    <2> QED
      BY <1>1, <2>1 DEF RowMove, Kept
  <1>3. ASSUME NEW i \in Jobs, GrowOld(i), NEW j \in Jobs
        PROVE  RowMove(j)
    <2>1. jobs[i].status = "running" /\ reclaims' = reclaims
      BY <1>3 DEF GrowOld
    <2>2. PICK a : jobs' = [jobs EXCEPT ![i].age = a]
      BY <1>3 DEF GrowOld
    <2>3. /\ SameAttempts(j) /\ SameReclaims(j)
          /\ jobs'[j].status = jobs[j].status
          /\ jobs[j].status = "absent" => jobs'[j] = jobs[j]
      BY <2>1, <2>2 DEF SameAttempts, SameReclaims, TypeOK, Row
    <2> QED
      BY <1>1, <2>3 DEF RowMove, Kept
  <1> QED
    BY <1>1, <1>2, <1>3 DEF ClockStep

LEMMA RowMoves ==
  ASSUME TypeOK, FiniteExecs, AbsentRows, [Next]_vars
  PROVE  FiniteExecs' /\ \A j \in Jobs : RowMove(j)
  <1>1. CASE Next
    BY <1>1, ClientMoves, WorkerMoves, TaskMoves, InlineMoves, AdminMoves, ClockMoves
       DEF Next, RunnerStep
  <1>2. CASE UNCHANGED vars
    BY <1>2, FewerExecutions, KeptRow DEF vars, SameAttempts, SameReclaims
  <1> QED
    BY <1>1, <1>2

(***************************************************************************)
(* The bounds                                                              *)
(***************************************************************************)

(* A row that is queued, and every execution that has decided to queue it  *)
(* again, has a claim left: what max_attempts allows, and one more for     *)
(* every reclaim.                                                          *)
RetryBudget ==
  \A j \in Jobs : jobs[j].attempts + Retries(j) + Queued(j)
                    <= jobs[j].max_attempts + reclaims[j]

BoundInv == FiniteExecs /\ AbsentRows /\ OverlapBounded /\ RetryBudget

LEMMA AbsentStep ==
  ASSUME TypeOK, BoundInv, FiniteExecs', NEW j \in Jobs, RowMove(j),
         jobs'[j].status = "absent"
  PROVE  jobs'[j] = Absent /\ reclaims'[j] = 0 /\ ExecutionsOfJob(j)' = {}
  <1>1. Kept(j) \/ RetryDecided(j)
    BY DEF RowMove, Inserted, InlineStarted, Claimed, Requeued, Reclaimed
  <1>2. jobs'[j] = jobs[j] /\ reclaims'[j] = reclaims[j] /\ Copies(j)' <= Copies(j)
    BY <1>1 DEF Kept, RetryDecided, SameReclaims, NoMoreExecutions
  <1>3. jobs[j] = Absent /\ reclaims[j] = 0 /\ ExecutionsOfJob(j) = {}
    BY <1>2 DEF BoundInv, AbsentRows
  <1>4. /\ Copies(j) = 0
        /\ Copies(j)' \in Nat
        /\ Copies(j)' = 0 <=> ExecutionsOfJob(j)' = {}
    <2>1. /\ ExecutionsOfJob(j)' \subseteq execs' /\ IsFiniteSet(execs')
          /\ Copies(j)' = Cardinality(ExecutionsOfJob(j)')
      BY DEF ExecutionsOfJob, FiniteExecs, Copies
    <2>2. IsFiniteSet(ExecutionsOfJob(j)')
      BY <2>1, SubsetCount
    <2> QED
      BY <1>3, <2>1, <2>2, SubsetCount, CountsTyped, FS_EmptySet DEF BoundInv
  <1> QED
    BY <1>2, <1>3, <1>4

(* The arithmetic of a move.                                               *)
LEMMA BudgetStep ==
  ASSUME TypeOK, TypeOK', BoundInv, FiniteExecs', NEW j \in Jobs, RowMove(j)
  PROVE  /\ Copies(j)' + Queued(j)' <= 1 + reclaims'[j]
         /\ jobs'[j].attempts + Retries(j)' + Queued(j)'
              <= jobs'[j].max_attempts + reclaims'[j]
  <1>1. /\ Copies(j) \in Nat /\ Retries(j) \in Nat /\ Retries(j) <= Copies(j)
        /\ jobs[j].status = "absent" => Copies(j) = 0 /\ Retries(j) = 0
    BY CountsTyped DEF BoundInv, AbsentRows
  <1>2. /\ Copies(j)' \in Nat /\ Retries(j)' \in Nat
        /\ Retries(j)' <= Copies(j)'
    <2>1. /\ ExecutionsOfJob(j)' \subseteq execs' /\ IsFiniteSet(execs')
          /\ Retrying(j)' \subseteq ExecutionsOfJob(j)'
      BY DEF ExecutionsOfJob, Retrying, FiniteExecs
    <2>2. IsFiniteSet(ExecutionsOfJob(j)')
      BY <2>1, SubsetCount
    <2>3. /\ Cardinality(ExecutionsOfJob(j)') \in Nat /\ Cardinality(Retrying(j)') \in Nat
          /\ Cardinality(Retrying(j)') <= Cardinality(ExecutionsOfJob(j)')
      BY <2>1, <2>2, SubsetCount
    <2> QED
      BY <2>3 DEF Copies, Retries
  <1>3. /\ jobs[j].attempts \in Nat /\ jobs[j].max_attempts \in Nat
        /\ jobs'[j].attempts \in Nat /\ jobs'[j].max_attempts \in Nat
        /\ reclaims[j] \in Nat /\ reclaims'[j] \in Nat
    BY DEF TypeOK, Row
  <1>4. /\ Copies(j) + Queued(j) <= 1 + reclaims[j]
        /\ jobs[j].attempts + Retries(j) + Queued(j)
             <= jobs[j].max_attempts + reclaims[j]
    BY DEF BoundInv, OverlapBounded, RetryBudget, Copies, Queued
  <1>5. /\ Queued(j) \in {0, 1} /\ Queued(j)' \in {0, 1}
        /\ Queued(j) = 1 <=> jobs[j].status = "pending"
        /\ Queued(j)' = 1 <=> jobs'[j].status = "pending"
    BY DEF Queued
  <1>6. MaxAttempts \in Nat /\ MaxAttempts >= 1
    BY JobQueueAssumption
  <1> USE DEF SameAttempts, SameReclaims, NoMoreExecutions, OneMoreExecution
  <1>7. CASE Kept(j)
    BY <1>1, <1>2, <1>3, <1>4, <1>5, <1>7 DEF Kept
  <1>8. CASE Inserted(j) \/ InlineStarted(j)
    <2>1. reclaims[j] = 0 /\ Queued(j) = 0
      BY <1>5, <1>8 DEF BoundInv, AbsentRows, Inserted, InlineStarted
    <2> QED
      BY <1>1, <1>2, <1>5, <1>6, <1>8, <2>1 DEF Inserted, InlineStarted
  <1>9. CASE Claimed(j)
    BY <1>1, <1>2, <1>3, <1>4, <1>5, <1>9 DEF Claimed
  <1>10. CASE RetryDecided(j)
    <2>1. Queued(j)' = Queued(j)
      BY <1>10 DEF RetryDecided, Queued
    <2>2. Retries(j)' + Queued(j)' <= 1 + reclaims'[j]
      BY <1>1, <1>2, <1>3, <1>4, <1>5, <1>10, <2>1 DEF RetryDecided
    <2>3. jobs'[j].attempts + 1 <= jobs'[j].max_attempts
      BY <1>3, <1>10 DEF RetryDecided
    <2>4. Copies(j)' + Queued(j)' <= 1 + reclaims'[j]
      BY <1>1, <1>2, <1>3, <1>4, <1>5, <1>10, <2>1 DEF RetryDecided
    <2> QED
      BY <1>2, <1>3, <1>5, <2>2, <2>3, <2>4
  <1>11. CASE Requeued(j)
    BY <1>1, <1>2, <1>3, <1>4, <1>5, <1>11 DEF Requeued
  <1>12. CASE Reclaimed(j)
    BY <1>1, <1>2, <1>3, <1>4, <1>5, <1>12 DEF Reclaimed
  <1> QED
    BY <1>7, <1>8, <1>9, <1>10, <1>11, <1>12 DEF RowMove

LEMMA BoundStep ==
  ASSUME TypeOK, TypeOK', BoundInv, [Next]_vars
  PROVE  BoundInv'
  <1>1. FiniteExecs' /\ \A j \in Jobs : RowMove(j)
    BY RowMoves DEF BoundInv
  <1>2. AbsentRows'
    BY <1>1, AbsentStep DEF AbsentRows
  <1>3. OverlapBounded' /\ RetryBudget'
    BY <1>1, BudgetStep DEF OverlapBounded, RetryBudget, Copies, Queued
  <1> QED
    BY <1>1, <1>2, <1>3 DEF BoundInv

(* Neither bound is inductive alone: an execution that has read            *)
(* attempts < max_attempts holds a claim that the row does not show yet,   *)
(* and it may hold it only because no more executions exist than reclaims  *)
(* explain.                                                                *)
THEOREM BoundInvariant == Spec => []BoundInv
  <1>1. Init => BoundInv
    <2> SUFFICES ASSUME Init PROVE BoundInv
      OBVIOUS
    <2>1. \A j \in Jobs : /\ ExecutionsOfJob(j) = {} /\ Retrying(j) = {}
                          /\ jobs[j] = Absent /\ reclaims[j] = 0
      BY DEF Init, ExecutionsOfJob, Retrying
    <2>2. \A j \in Jobs : Copies(j) = 0 /\ Retries(j) = 0 /\ Queued(j) = 0
      BY <2>1, FS_EmptySet DEF Copies, Retries, Queued, Absent
    <2> QED
      BY <2>1, <2>2, FS_EmptySet
         DEF Init, BoundInv, FiniteExecs, AbsentRows, OverlapBounded, RetryBudget,
             Copies, Queued, Absent
  <1>2. TypeOK /\ TypeOK' /\ BoundInv /\ [Next]_vars => BoundInv'
    BY BoundStep
  <1> QED
    BY <1>1, <1>2, TypeCorrect, PTL DEF Spec

(* Executions of one row overlap at most once for every reclaim: an        *)
(* outcome that puts a row back to pending while another execution of it   *)
(* is running adds no copy (the unconditional UPDATEs of runner.rs).       *)
THEOREM OverlapIsBounded == Spec => []OverlapBounded
  <1>1. BoundInv => OverlapBounded
    BY DEF BoundInv
  <1> QED
    BY <1>1, BoundInvariant, PTL

(* A row is claimed at most max_attempts times and once more for every     *)
(* reclaim, although mark_error reads attempts in one statement and        *)
(* requeues in the next.                                                   *)
THEOREM AttemptsAreBounded == Spec => []AttemptsBounded
  <1>1. TypeOK /\ BoundInv => AttemptsBounded
    <2> SUFFICES ASSUME TypeOK, BoundInv, NEW j \in Jobs
                 PROVE  jobs[j].attempts <= jobs[j].max_attempts + reclaims[j]
      BY DEF AttemptsBounded
    <2>1. /\ jobs[j].attempts \in Nat /\ jobs[j].max_attempts \in Nat
          /\ reclaims[j] \in Nat /\ Retries(j) \in Nat /\ Queued(j) \in {0, 1}
      BY CountsTyped DEF TypeOK, Row, BoundInv, Queued
    <2> QED
      BY <2>1 DEF BoundInv, RetryBudget
  <1> QED
    BY <1>1, BoundInvariant, TypeCorrect, PTL

(* No statement clears cancel_requested: the reclaims, the retry and the   *)
(* outcomes leave the column alone and no row is inserted over another.    *)
LEMMA RequestStays ==
  ASSUME TypeOK, AbsentRows, [Next]_vars, NEW j \in Jobs, jobs[j].cancel_requested
  PROVE  jobs'[j].cancel_requested
  <1>0. /\ jobs \in [Jobs -> Row] /\ jobs[j] \in Row /\ jobs[j].status # "absent"
        /\ \A e \in execs : e.job \in Jobs
    BY DEF TypeOK, AbsentRows, Absent, Execution
  <1>1. CASE jobs'[j] = jobs[j]
    BY <1>1
  <1>2. ASSUME NEW i \in Jobs, NEW k, InsertRow(i, k) PROVE jobs'[j] = jobs[j]
    BY <1>0, <1>2 DEF InsertRow
  <1>3. CASE ClientStep
    <2>1. ASSUME NEW c \in Clients, NEW k \in Keys, ReleaseKey(c, k)
          PROVE  jobs'[j].cancel_requested
      BY <1>0, <2>1 DEF ReleaseKey, Row
    <2>2. ASSUME NEW c \in Clients, InsertSkipped(c) PROVE jobs'[j] = jobs[j]
      BY <2>2 DEF InsertSkipped
    <2> QED
      BY <1>1, <1>2, <1>3, <2>1, <2>2 DEF ClientStep, InsertKeyed, InsertPlain
  <1>4. ASSUME ReclaimStaleJobs PROVE jobs'[j].cancel_requested
    BY <1>0, <1>4 DEF ReclaimStaleJobs, Row
  <1>5. ASSUME NEW w \in Workers, ClaimAndDispatch(w) PROVE jobs'[j].cancel_requested
    <2>1. PICK batch \in SUBSET {i \in Jobs : Claimable(i)} :
             jobs' = [i \in Jobs |-> IF i \in batch THEN ClaimedRow(w, jobs[i])
                                                     ELSE jobs[i]]
      BY <1>5 DEF ClaimAndDispatch
    <2>2. jobs'[j] = jobs[j] \/ jobs'[j] = ClaimedRow(w, jobs[j])
      BY <2>1
    <2>3. ClaimedRow(w, jobs[j]).cancel_requested = jobs[j].cancel_requested
      BY <1>0 DEF ClaimedRow, Row
    <2> QED
      BY <2>2, <2>3
  <1>6. ASSUME NEW e \in execs, Outcome(e) \/ MarkLost(e)
        PROVE  jobs'[j].cancel_requested
    <2>0. ASSUME NEW row, EndWith(e, row), e.job = j => row.cancel_requested
          PROVE  jobs'[j].cancel_requested
      BY <1>0, <2>0 DEF EndWith
    <2>1. ASSUME NEW s, EndWith(e, [jobs[e.job] EXCEPT !.status = s, !.dedupe_key = NoKey])
          PROVE  jobs'[j].cancel_requested
      BY <1>0, <2>0, <2>1 DEF Row
    <2>2. CASE MarkRetry(e)
      <3> DEFINE row == [jobs[e.job] EXCEPT !.status = "pending", !.due = FALSE,
                                            !.worker_id = NoWorker]
      <3>1. e.job = j => row.cancel_requested
        BY <1>0 DEF Row
      <3>2. EndWith(e, row)
        BY <2>2 DEF MarkRetry
      <3> HIDE DEF row
      <3> QED
        BY <2>0, <3>1, <3>2
    <2>3. CASE ReadAttempts(e) \/ MarkLost(e)
      BY <1>0, <2>3 DEF ReadAttempts, MarkLost, EndWith
    <2> QED
      BY <1>6, <2>1, <2>2, <2>3 DEF Outcome, MarkSuccess, MarkCancelled, MarkDead
  <1>7. CASE RunnerStep
    <2>1. ASSUME NEW w \in Workers, Crash(w) \/ \E i \in Jobs : NotifyCancel(w, i)
          PROVE  jobs'[j] = jobs[j]
      BY <2>1 DEF Crash, NotifyCancel
    <2>2. ASSUME NEW e \in execs, Register(e) \/ \E result \in Results : HandlerReturns(e, result)
          PROVE  jobs'[j] = jobs[j]
      BY <2>2 DEF Register, HandlerReturns
    <2> QED
      BY <1>1, <1>4, <1>5, <1>6, <1>7, <2>1, <2>2 DEF RunnerStep, Start, StartFails
  <1>8. CASE InlineStep
    <2>1. ASSUME NEW i \in Jobs, InlineStart(i) PROVE jobs'[j] = jobs[j]
      BY <1>0, <2>1 DEF InlineStart
    <2>2. ASSUME NEW e \in execs, NEW s, InlineEnd(e, s) PROVE jobs'[j].cancel_requested
      BY <1>0, <2>2 DEF InlineEnd, EndWith, Row
    <2>3. ASSUME NEW e \in execs, InlineLost(e) PROVE jobs'[j] = jobs[j]
      BY <1>0, <2>3 DEF InlineLost, EndWith
    <2> QED
      BY <1>1, <1>8, <2>1, <2>2, <2>3 DEF InlineStep
  <1>9. CASE AdminStep
    <2>1. ASSUME NEW i \in Jobs, CancelPending(i) PROVE jobs'[j].cancel_requested
      BY <1>0, <2>1 DEF CancelPending, Row
    <2>2. ASSUME NEW i \in Jobs, CancelRunning(i) PROVE jobs'[j].cancel_requested
      BY <1>0, <2>2 DEF CancelRunning, Row
    <2>3. CASE ReclaimAncient
      BY <1>0, <2>3 DEF ReclaimAncient, Row
    <2> QED
      BY <1>9, <2>1, <2>2, <2>3 DEF AdminStep
  <1>10. CASE ClockStep
    <2>1. ASSUME NEW i \in Jobs, BecomeDue(i) \/ GrowOld(i) PROVE jobs'[j].cancel_requested
      BY <1>0, <2>1 DEF BecomeDue, GrowOld, Row
    <2> QED
      BY <1>10, <2>1 DEF ClockStep
  <1> QED
    BY <1>1, <1>3, <1>7, <1>8, <1>9, <1>10 DEF Next, vars

(* A cancellation is asked of a row that has been claimed n times and has  *)
(* at most m executions at work.                                           *)
CancelAsked(j, n, m) ==
    jobs[j].cancel_requested /\ jobs[j].attempts = n /\ Copies(j) <= m

(* Once cancel_requested is set it stays set for ever, the row is never    *)
(* claimed again and its executions, in all processes together, become no  *)
(* more: whatever retries and reclaims put it back to pending, and although*)
(* only the claim looks at the flag (claim_jobs) and only the cancel       *)
(* endpoint writes it.                                                     *)
THEOREM CancelIsFinal ==
  ASSUME NEW j \in Jobs, NEW n \in Nat, NEW m \in Nat
  PROVE  Spec => [](CancelAsked(j, n, m) => []CancelAsked(j, n, m))
  <1>1. ASSUME TypeOK, BoundInv, [Next]_vars, CancelAsked(j, n, m)
        PROVE  CancelAsked(j, n, m)'
    <2>1. RowMove(j) /\ FiniteExecs'
      BY <1>1, RowMoves DEF BoundInv
    <2>2. jobs[j].cancel_requested /\ jobs[j].status # "absent"
      BY <1>1 DEF BoundInv, CancelAsked, AbsentRows, Absent
    <2>5. jobs'[j].cancel_requested
      BY <1>1, <2>2, RequestStays DEF BoundInv
    <2>3. Copies(j) \in Nat /\ Copies(j)' \in Nat
      <3>1. IsFiniteSet(ExecutionsOfJob(j)) /\ IsFiniteSet(ExecutionsOfJob(j)')
        BY <1>1, <2>1, FS_Subset DEF BoundInv, FiniteExecs, ExecutionsOfJob
      <3> QED
        BY <3>1, FS_CardinalityType DEF Copies
    <2>4. jobs'[j].attempts = jobs[j].attempts /\ Copies(j)' <= Copies(j)
      BY <1>1, <2>1, <2>2, <2>3
         DEF CancelAsked, RowMove, Kept, Inserted, InlineStarted, Claimed, RetryDecided,
             Requeued, Reclaimed, SameAttempts, NoMoreExecutions
    <2> QED
      BY <1>1, <2>3, <2>4, <2>5 DEF CancelAsked
  <1>2. TypeOK /\ BoundInv /\ CancelAsked(j, n, m) /\ [Next]_vars => CancelAsked(j, n, m)'
    BY <1>1
  <1> QED
    BY <1>2, TypeCorrect, BoundInvariant, PTL DEF Spec

(***************************************************************************)
(* Cancellation tokens                                                     *)
(***************************************************************************)

(* No handler is entered, and the map keeps the tokens of the handlers     *)
(* that stay in it.                                                        *)
LEMMA TokenFrame ==
  ASSUME TokenReachable,
         \A j \in Jobs : reclaims'[j] = 0 => reclaims[j] = 0,
         \A e \in execs' : e.job \in Jobs,
         \A e \in execs' : e.phase = "running" /\ e.worker # InlineCli =>
            \E f \in execs : /\ f.phase = "running" /\ f.worker = e.worker
                             /\ f.job = e.job /\ f.attempt = e.attempt
                             /\ tokens'[e.worker][e.job] = tokens[e.worker][e.job]
  PROVE  TokenReachable'
  BY DEF TokenReachable

(* A task enters or leaves its handler: the only token it touches is that  *)
(* of its row, and until a reclaim the row has no other execution.         *)
LEMMA TokenMove ==
  ASSUME TypeOK, SoleExecution, TokenReachable, NEW e \in execs, NEW p \in Phases,
         NEW t, e.worker # InlineCli,
         p = "running" => t = e.attempt,
         tokens' = [tokens EXCEPT ![e.worker][e.job] = t],
         execs' = (execs \ {e}) \cup {[e EXCEPT !.phase = p]},
         reclaims' = reclaims
  PROVE  TokenReachable'
  <1> DEFINE n == [e EXCEPT !.phase = p]
  <1>1. /\ n.job = e.job /\ n.attempt = e.attempt /\ n.worker = e.worker
        /\ n.phase = p /\ e.job \in Jobs /\ e.worker \in Workers
    BY DEF TypeOK, Execution, Owners
  <1>2. \A f \in execs' : f = n \/ (f \in execs /\ f # e)
    OBVIOUS
  <1> HIDE DEF n
  <1>3. /\ tokens'[e.worker][e.job] = t
        /\ \A w \in Workers, j \in Jobs : w # e.worker \/ j # e.job =>
              tokens'[w][j] = tokens[w][j]
    BY <1>1 DEF TypeOK
  <1> SUFFICES ASSUME NEW f \in execs', f.phase = "running", f.worker # InlineCli,
                      reclaims[f.job] = 0
               PROVE  tokens'[f.worker][f.job] = f.attempt
    BY DEF TokenReachable
  <1>4. CASE f = n
    BY <1>1, <1>3, <1>4
  <1>5. CASE f \in execs /\ f # e
    <2>1. f.job \in Jobs /\ f.worker \in Workers
      BY <1>5 DEF TypeOK, Execution, Owners
    <2>2. f.job # e.job
      BY <1>5, <2>1 DEF SoleExecution, ExecutionsOfJob
    <2> QED
      BY <1>3, <1>5, <2>1, <2>2 DEF TokenReachable
  <1> QED
    BY <1>2, <1>4, <1>5

LEMMA TokenNotify ==
  ASSUME TypeOK, TypeOK', TokenReachable, NEW w \in Workers, NEW j \in Jobs,
         NotifyCancel(w, j)
  PROVE  TokenReachable'
  <1> DEFINE mark(e) == IF e.worker = w /\ e.job = j /\ e.attempt = tokens[w][j]
                        THEN [e EXCEPT !.cancelled = TRUE] ELSE e
  <1>1. /\ execs' = {mark(e) : e \in execs}
        /\ tokens' = tokens /\ reclaims' = reclaims
    BY DEF NotifyCancel
  <1>2. \A e \in execs : /\ mark(e).job = e.job /\ mark(e).attempt = e.attempt
                         /\ mark(e).worker = e.worker /\ mark(e).phase = e.phase
    BY DEF TypeOK, Execution
  <1> HIDE DEF mark
  <1> QED
    BY <1>1, <1>2 DEF TokenReachable

LEMMA TokenStep ==
  ASSUME TypeOK, TypeOK', SoleExecution, TokenReachable, [Next]_vars
  PROVE  TokenReachable'
  <1>0. /\ \A e \in execs' : e.job \in Jobs
        /\ \A j \in Jobs : reclaims[j] \in Nat
    BY DEF TypeOK, Execution
  <1>1. ASSUME execs' \subseteq execs, tokens' = tokens, reclaims' = reclaims
        PROVE  TokenReachable'
    BY <1>0, <1>1, TokenFrame
  <1>2. CASE ClientStep \/ ClockStep \/ UNCHANGED vars
    BY <1>1, <1>2 DEF ClientStep, ReleaseKey, InsertKeyed, InsertSkipped, InsertPlain,
                      ClockStep, BecomeDue, GrowOld, vars
  <1>3. ASSUME execs' = execs, tokens' = tokens,
               ReclaimStaleJobs \/ ReclaimAncient
        PROVE  TokenReachable'
    <2>1. \A j \in Jobs : reclaims'[j] = 0 => reclaims[j] = 0
      <3>1. \A j \in Jobs : reclaims[j] + 1 # 0
        BY <1>0
      <3> QED
        BY <1>3, <3>1, Zenon DEF ReclaimStaleJobs, ReclaimAncient
    <2> QED
      BY <1>0, <1>3, <2>1, TokenFrame
  <1>4. ASSUME NEW w \in Workers, Crash(w)
        PROVE  TokenReachable'
    <2>1. \A e \in execs' : e \in execs /\ e.worker # w
      BY <1>4 DEF Crash, ExecsOf
    <2>2. \A e \in execs' : e.worker # InlineCli =>
             tokens'[e.worker][e.job] = tokens[e.worker][e.job]
      BY <1>4, <2>1 DEF Crash, TypeOK, Execution, Owners
    <2>3. reclaims' = reclaims
      BY <1>4 DEF Crash
    <2> QED
      BY <1>0, <2>1, <2>2, <2>3, TokenFrame
  <1>5. ASSUME NEW w \in Workers, ClaimAndDispatch(w)
        PROVE  TokenReachable'
    <2>1. \A e \in execs' : e \in execs \/ e.phase # "running"
      BY <1>5 DEF ClaimAndDispatch, Spawned
    <2>2. tokens' = tokens /\ reclaims' = reclaims
      BY <1>5 DEF ClaimAndDispatch
    <2> QED
      BY <2>1, <2>2 DEF TokenReachable
  <1>6. ASSUME NEW e \in execs, Register(e)
        PROVE  TokenReachable'
    <2>1. CASE e.worker # InlineCli
      BY <1>6, <2>1, TokenMove DEF Register, Phases
    <2>2. CASE e.worker = InlineCli
      <3>1. tokens' = tokens
        BY <1>6, <2>2, JobQueueAssumption DEF Register, TypeOK
      <3>2. /\ [e EXCEPT !.phase = "running"].worker = InlineCli
            /\ execs' = (execs \ {e}) \cup {[e EXCEPT !.phase = "running"]}
            /\ reclaims' = reclaims
        BY <1>6, <2>2 DEF Register, TypeOK, Execution
      <3> QED
        BY <3>1, <3>2 DEF TokenReachable
    <2> QED
      BY <2>1, <2>2
  <1>7. ASSUME NEW e \in execs, NEW result \in Results, HandlerReturns(e, result)
        PROVE  TokenReachable'
    <2>1. result \in Phases /\ result # "running"
      BY DEF Results, Failures, Phases
    <2> QED
      BY <1>7, <2>1, TokenMove DEF HandlerReturns
  <1>8. ASSUME NEW e \in execs, ReadAttempts(e)
        PROVE  TokenReachable'
    <2>1. /\ \A p : [e EXCEPT !.phase = p].phase = p
          /\ tokens' = tokens /\ reclaims' = reclaims
      BY <1>8 DEF ReadAttempts, TypeOK, Execution
    <2>2. \A f \in execs' : f \in execs \/ f.phase # "running"
      BY <1>8, <2>1 DEF ReadAttempts
    <2> QED
      BY <2>1, <2>2 DEF TokenReachable
  <1>9. ASSUME NEW e \in execs, NEW row, EndWith(e, row)
        PROVE  TokenReachable'
    BY <1>1, <1>9 DEF EndWith
  <1>10. ASSUME NEW j \in Jobs, InlineStart(j)
        PROVE  TokenReachable'
    <2>1. \A e \in execs' : e \in execs \/ e.worker = InlineCli
      BY <1>10 DEF InlineStart
    <2>2. tokens' = tokens /\ reclaims' = reclaims
      BY <1>10 DEF InlineStart
    <2> QED
      BY <2>1, <2>2 DEF TokenReachable
  <1>11. CASE RunnerStep
    BY <1>3, <1>4, <1>5, <1>6, <1>7, <1>8, <1>9, <1>11, TokenNotify
       DEF RunnerStep, Start, StartFails, Outcome, MarkSuccess, MarkCancelled,
           MarkDead, MarkRetry, MarkLost
  <1>12. CASE InlineStep
    BY <1>9, <1>10, <1>12 DEF InlineStep, InlineEnd, InlineLost
  <1>13. CASE AdminStep
    BY <1>1, <1>3, <1>13 DEF AdminStep, CancelPending, CancelRunning, ReclaimAncient
  <1> QED
    BY <1>2, <1>11, <1>12, <1>13 DEF Next

(* The handler of a row that was never reclaimed can be cancelled at any   *)
(* time: the token under its job id in cancel_tokens.rs is its own.  It    *)
(* holds because such a row has one execution only: register and           *)
(* deregister go by job id and would not tell two executions apart.        *)
THEOREM TokensReach == Spec => []TokenReachable
  <1>1. Init => TokenReachable
    BY DEF Init, TokenReachable
  <1>2. TypeOK /\ TypeOK' /\ SoleExecution /\ TokenReachable /\ [Next]_vars
          => TokenReachable'
    BY TokenStep
  <1> QED
    BY <1>1, <1>2, TypeCorrect, ExecutionIsSole, PTL DEF Spec
=============================================================================
