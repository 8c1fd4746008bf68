------------------------- MODULE TaskiqQueueProofs -------------------------
(***************************************************************************)
(* Proofs about the former Python task queue, for every number of tasks,   *)
(* executions and stream entries, and every number of deaths, failed calls *)
(* and redeliveries.                                                       *)
(***************************************************************************)
EXTENDS TaskiqQueue, TLAPS

(***************************************************************************)
(* The invariants                                                          *)
(***************************************************************************)

(* An execution works on an entry that was delivered and is not deleted    *)
(* under it, an entry has a task, and a result is there to be recorded.    *)
EntryInv ==
    /\ \A s \in Slots :
         /\ At(s, "free") <=> exec[s].msg = NoMsg
         /\ ~At(s, "free") => msg[exec[s].msg].state \in {"pending", "acked"}
         /\ exec[s].pc \in {"finalize", "record"} => exec[s].result # "none"
    /\ \A m \in Msgs : msg[m].state # "absent" => msg[m].task \in Tasks

FlowInv == EntryInv /\ (admin.pc # "idle" => admin.task \in Tasks)

(* The marker of a task that was cancelled in time stays.                  *)
DoomInv == doomed \ unseen \subseteq marker /\ CancelledNeverStarts

(* The stamp is never older than the run it stands for, and who has read   *)
(* an old stamp may start unless another run came in between.              *)
StampInv ==
    /\ stamp <= since
    /\ \A s \in Slots : At(s, "stamp") => since = Interval \/ exec[s].passed

(* An entry of the task that a worker will be given.                       *)
Due(t) ==
    \E m \in Msgs :
        /\ msg[m].task = t
        /\ \/ msg[m].state = "waiting"
           \/ msg[m].state = "pending" /\ Holders(m) = {}

Unsettled == {"check", "prepare", "stamp", "run", "finalize", "record", "skip"}
Listed == {"prepare", "stamp", "run", "finalize", "record", "clear", "skip"}
Busy(t, labels) == \E s \in Executing(t) : exec[s].pc \in labels

(* A record that is not final has somebody left to write it.               *)
RecordInv ==
    \A t \in Tasks :
        \/ sender[t] # "done" \/ record[t] \in Terminal \/ t \in lost \cup raced
        \/ Due(t) \/ Busy(t, Unsettled)

(* A task in the set of running ones has somebody left to remove it.       *)
RunningInv ==
    \A t \in running :
        \/ t \in lost \/ Busy(t, Listed)
        \/ t \in orphaned /\ (Due(t) \/ Busy(t, {"check"}) \/ t \in marker)

TypeInv == TypeOK /\ FlowInv

(***************************************************************************)
(* The shapes of steps                                                     *)
(*                                                                         *)
(* As far as executions and entries are concerned, a step leaves the       *)
(* executions alone, moves one on, starts one or ends one.                 *)
(***************************************************************************)

Typed == exec' \in [Slots -> Execution] /\ msg' \in [Msgs -> Message]

Keep(q) ==
    exec'[q].pc = exec[q].pc /\ exec'[q].msg = exec[q].msg /\ exec'[q].result = exec[q].result
Others(s) == \A q \in Slots \ {s} : Keep(q)

(* A new entry, in a place nobody refers to.                               *)
Added(t) ==
    \E m \in Unused :
        /\ msg'[m].task = t /\ msg'[m].state = "waiting"
        /\ \A n \in Msgs \ {m} : msg'[n] = msg[n]

Still ==
    /\ Typed /\ \A q \in Slots : Keep(q)
    /\ msg' = msg \/ \E t \in Tasks : Added(t)

Move(s, label) ==
    /\ Typed /\ Others(s)
    /\ ~At(s, "free") /\ label # "free"
    /\ exec'[s].pc = label /\ exec'[s].msg = exec[s].msg
    /\ label \in {"finalize", "record"} => exec'[s].result # "none"
    /\ msg' = msg \/ Added(TaskOf(s))

Start(s, m) ==
    /\ Typed /\ Others(s)
    /\ At(s, "free") /\ exec'[s].pc = "check" /\ exec'[s].msg = m
    /\ msg[m].state \in {"waiting", "pending"}
    /\ msg'[m].state = "pending" /\ msg'[m].task = msg[m].task
    /\ \A n \in Msgs \ {m} : msg'[n] = msg[n]

(* The entry disappears only with the last execution that holds it.        *)
Leave(s) ==
    /\ Typed /\ Others(s)
    /\ ~At(s, "free") /\ exec'[s].pc = "free" /\ exec'[s].msg = NoMsg
    /\ LET m == exec[s].msg
       IN  /\ \/ msg'[m] = NoMessage /\ Holders(m) = {s}
              \/ msg'[m].task = msg[m].task /\ msg'[m].state \in {"pending", "acked"}
           /\ \A n \in Msgs \ {m} : msg'[n] = msg[n]

LEMMA FreeType == Free \in Execution /\ Free.pc = "free" /\ Free.msg = NoMsg
  BY DEF Free, Execution, PCs, Results

LEMMA NoMessageType == NoMessage \in Message /\ NoMessage.state = "absent"
  BY TaskiqQueueAssumption DEF NoMessage, Message

(* What an execution holds.                                                *)
LEMMA Held ==
  ASSUME TypeInv, NEW s \in Slots, ~At(s, "free")
  PROVE  /\ exec[s] \in Execution /\ exec[s].msg \in Msgs /\ exec[s].msg # NoMsg
         /\ msg[exec[s].msg] \in Message /\ TaskOf(s) \in Tasks
         /\ msg[exec[s].msg].state \in {"pending", "acked"}
         /\ s \in Holders(exec[s].msg)
  <1>1. exec[s] \in Execution
    BY DEF TypeInv, TypeOK
  <1>2. exec[s].msg # NoMsg /\ msg[exec[s].msg].state \in {"pending", "acked"}
    BY DEF TypeInv, FlowInv, EntryInv
  <1>3. exec[s].msg \in Msgs
    BY <1>1, <1>2 DEF Execution
  <1>4. msg[exec[s].msg] \in Message
    BY <1>3 DEF TypeInv, TypeOK
  <1>5. TaskOf(s) \in Tasks
    BY <1>2, <1>3 DEF TypeInv, FlowInv, EntryInv, TaskOf
  <1> QED
    BY <1>1, <1>2, <1>3, <1>4, <1>5 DEF Holders

LEMMA AddShape ==
  ASSUME TypeInv, NEW t \in Tasks, NEW k \in 0..(MaxRetries - 1), Add(t, k)
  PROVE  Added(t) /\ msg' \in [Msgs -> Message]
  <1> DEFINE e == [task |-> t, retries |-> k, state |-> "waiting"]
             m == CHOOSE m \in Unused : TRUE
  <1>1. m \in Unused /\ m \in Msgs
    BY DEF Add, Unused
  <1>2. msg' = [msg EXCEPT ![m] = e]
    BY DEF Add
  <1>3. e \in Message /\ e.task = t /\ e.state = "waiting"
    BY DEF Message
  <1>4. msg \in [Msgs -> Message]
    BY DEF TypeInv, TypeOK
  <1> HIDE DEF e, m
  <1>5. msg'[m] = e /\ \A n \in Msgs \ {m} : msg'[n] = msg[n]
    BY <1>1, <1>2, <1>4
  <1> QED
    BY <1>1, <1>2, <1>3, <1>4, <1>5 DEF Added

LEMMA BecomeOne ==
  ASSUME TypeInv, NEW s \in Slots, NEW e \in Execution, Become(s, e)
  PROVE  exec' \in [Slots -> Execution] /\ exec'[s] = e /\ Others(s)
  BY DEF TypeInv, TypeOK, Become, Others, Keep

LEMMA BecomeMove ==
  ASSUME TypeInv, NEW s \in Slots, ~At(s, "free"),
         NEW e \in Execution, Become(s, e), e.msg = exec[s].msg, e.pc # "free",
         e.pc \in {"finalize", "record"} => e.result # "none", msg' = msg
  PROVE  Move(s, e.pc)
  <1>1. exec' \in [Slots -> Execution] /\ exec'[s] = e /\ Others(s)
    BY BecomeOne
  <1>2. msg' \in [Msgs -> Message]
    BY DEF TypeInv, TypeOK
  <1> QED
    BY <1>1, <1>2 DEF Move, Typed

LEMMA GotoMove ==
  ASSUME TypeInv, NEW s \in Slots, ~At(s, "free"),
         NEW l \in PCs \ {"free", "finalize", "record"}, Goto(s, l), msg' = msg
  PROVE  Move(s, l)
  <1> DEFINE e == [exec[s] EXCEPT !.pc = l]
  <1>1. exec[s] \in Execution
    BY Held
  <1>2. e \in Execution /\ e.msg = exec[s].msg /\ e.pc = l
    BY <1>1 DEF Execution
  <1>3. Become(s, e)
    BY DEF Goto
  <1> HIDE DEF e
  <1> QED
    BY <1>2, <1>3, BecomeMove

(* The steps that move an execution on.                                    *)
LEMMA CheckShape ==
  ASSUME TypeInv, NEW s \in Slots, CheckCancelled(s)
  PROVE  Move(s, IF TaskOf(s) \in marker THEN "end" ELSE "prepare")
  <1>0. ~At(s, "free") /\ msg' = msg
    BY DEF CheckCancelled, At
  <1>1. exec[s] \in Execution
    BY <1>0, Held
  <1>2. CASE TaskOf(s) \in marker
    <2> DEFINE e == [exec[s] EXCEPT !.pc = "end", !.result = "error"]
    <2>1. e \in Execution /\ e.msg = exec[s].msg /\ e.pc = "end"
      BY <1>1 DEF Execution, PCs, Results
    <2>2. Become(s, e)
      BY <1>2 DEF CheckCancelled
    <2> HIDE DEF e
    <2>3. Move(s, e.pc)
      BY <1>0, <2>1, <2>2, BecomeMove
    <2> QED
      BY <1>2, <2>1, <2>3
  <1>3. CASE TaskOf(s) \notin marker
    <2>1. Goto(s, "prepare") /\ "prepare" \in PCs
      BY <1>3 DEF CheckCancelled, BeginRun, PCs
    <2>2. Move(s, "prepare")
      BY <1>0, <2>1, GotoMove
    <2> QED
      BY <1>3, <2>2
  <1> QED
    BY <1>2, <1>3

LEMMA CheckFailsShape ==
  ASSUME TypeInv, NEW s \in Slots, CheckFails(s)
  PROVE  Move(s, "prepare")
  <1>1. ~At(s, "free") /\ msg' = msg /\ Goto(s, "prepare") /\ "prepare" \in PCs
    BY DEF CheckFails, BeginRun, At, PCs
  <1> QED
    BY <1>1, GotoMove

LEMMA PrepareShape ==
  ASSUME TypeInv, NEW s \in Slots, Prepare(s)
  PROVE  \/ Move(s, "run") \/ Move(s, "skip")
         \/ Move(s, "stamp") /\ ~(stamp < Interval)
  <1>0. ~At(s, "free") /\ msg' = msg
    BY DEF Prepare, At
  <1>1. /\ {"run", "skip", "stamp"} \subseteq PCs \ {"free", "finalize", "record"}
        /\ \/ Goto(s, "run") \/ Goto(s, "skip")
           \/ Goto(s, "stamp") /\ ~(stamp < Interval)
    BY DEF Prepare, PCs
  <1> QED
    BY <1>0, <1>1, GotoMove

LEMMA SetStampShape ==
  ASSUME TypeInv, NEW s \in Slots, SetStamp(s)
  PROVE  /\ Move(s, "run")
         /\ \A q \in Slots \ {s} : At(q, "stamp") => exec'[q].passed
  <1>0. ~At(s, "free") /\ msg' = msg /\ msg' \in [Msgs -> Message]
    BY DEF SetStamp, At, TypeInv, TypeOK
  <1>1. exec \in [Slots -> Execution]
    BY DEF TypeInv, TypeOK
  <1> DEFINE e == [exec[s] EXCEPT !.pc = "run", !.guarded = TRUE, !.passed = FALSE]
             f(q) == [exec[q] EXCEPT !.passed = @ \/ At(q, "stamp")]
  <1>2. e \in Execution /\ e.pc = "run" /\ e.msg = exec[s].msg
    BY <1>1 DEF Execution, PCs
  <1>3. ASSUME NEW q \in Slots
        PROVE  /\ f(q) \in Execution /\ f(q).pc = exec[q].pc /\ f(q).msg = exec[q].msg
               /\ f(q).result = exec[q].result /\ (At(q, "stamp") => f(q).passed)
    <2> DEFINE b == exec[q].passed \/ At(q, "stamp")
    <2>1. b \in BOOLEAN
      OBVIOUS
    <2>2. f(q) = [exec[q] EXCEPT !.passed = b]
      OBVIOUS
    <2>3. exec[q] \in Execution
      BY <1>1
    <2>4. At(q, "stamp") => b
      OBVIOUS
    <2> HIDE DEF b, f
    <2> QED
      BY <2>1, <2>2, <2>3, <2>4 DEF Execution
  <1>4. exec' = [q \in Slots |-> IF q = s THEN e ELSE f(q)]
    BY DEF SetStamp
  <1> HIDE DEF e, f
  <1>5. exec' \in [Slots -> Execution] /\ exec'[s] = e /\ \A q \in Slots \ {s} : exec'[q] = f(q)
    BY <1>2, <1>3, <1>4
  <1> QED
    BY <1>0, <1>2, <1>3, <1>5 DEF Move, Typed, Others, Keep

LEMMA RunShape ==
  ASSUME TypeInv, NEW s \in Slots
  PROVE  /\ PrepareFails(s) => Move(s, "run")
         /\ Skip(s) => Move(s, "end")
         /\ RecordResult(s) => Move(s, "clear")
         /\ Clear(s) \/ ClearKeepsMarker(s) => Move(s, "end")
  <1>0. exec[s] \in Execution /\ {"run", "end", "clear"} \subseteq PCs
    BY DEF TypeInv, TypeOK, PCs
  <1>1. ASSUME PrepareFails(s) PROVE Move(s, "run")
    <2> DEFINE e == [exec[s] EXCEPT !.pc = "run", !.passed = FALSE]
    <2>1. e \in Execution /\ e.msg = exec[s].msg /\ e.pc = "run"
      BY <1>0 DEF Execution
    <2>2. Become(s, e) /\ ~At(s, "free") /\ msg' = msg
      BY <1>1 DEF PrepareFails, At
    <2> HIDE DEF e
    <2>3. Move(s, e.pc)
      BY <2>1, <2>2, BecomeMove
    <2> QED
      BY <2>1, <2>3
  <1>2. ASSUME Skip(s) PROVE Move(s, "end")
    <2> DEFINE e == [exec[s] EXCEPT !.pc = "end", !.result = "success"]
    <2>1. e \in Execution /\ e.msg = exec[s].msg /\ e.pc = "end"
      BY <1>0 DEF Execution, Results
    <2>2. Become(s, e) /\ ~At(s, "free") /\ msg' = msg
      BY <1>2 DEF Skip, At
    <2> HIDE DEF e
    <2>3. Move(s, e.pc)
      BY <2>1, <2>2, BecomeMove
    <2> QED
      BY <2>1, <2>3
  <1>3. ASSUME RecordResult(s) PROVE Move(s, "clear")
    <2> DEFINE e == [exec[s] EXCEPT !.pc = "clear", !.result = Raised(@)]
    <2>1. e \in Execution /\ e.msg = exec[s].msg /\ e.pc = "clear"
      BY <1>0 DEF Execution, Results, Raised
    <2>2. Become(s, e) /\ ~At(s, "free") /\ msg' = msg
      BY <1>3 DEF RecordResult, At
    <2> HIDE DEF e
    <2>3. Move(s, e.pc)
      BY <2>1, <2>2, BecomeMove
    <2> QED
      BY <2>1, <2>3
  <1>4. ASSUME Clear(s) \/ ClearKeepsMarker(s) PROVE Move(s, "end")
    BY <1>0, <1>4, GotoMove DEF Clear, ClearKeepsMarker, At
  <1> QED
    BY <1>1, <1>2, <1>3, <1>4

LEMMA EndShape ==
  ASSUME TypeInv, NEW s \in Slots
  PROVE  /\ \A result \in Results \ {"none"} : ActorEnds(s, result) => Move(s, "finalize")
         /\ Finalize(s) \/ FinalizeFails(s) => Move(s, "record")
  <1>0. exec[s] \in Execution /\ {"finalize", "record"} \subseteq PCs
    BY DEF TypeInv, TypeOK, PCs
  <1>1. ASSUME NEW result \in Results \ {"none"}, ActorEnds(s, result)
        PROVE  Move(s, "finalize")
    <2> DEFINE e == [exec[s] EXCEPT !.pc = "finalize", !.result = result]
    <2>1. e \in Execution /\ e.msg = exec[s].msg /\ e.pc = "finalize" /\ e.result # "none"
      BY <1>0 DEF Execution
    <2>2. Become(s, e) /\ ~At(s, "free") /\ msg' = msg
      BY <1>1 DEF ActorEnds, At
    <2> HIDE DEF e
    <2>3. Move(s, e.pc)
      BY <2>1, <2>2, BecomeMove
    <2> QED
      BY <2>1, <2>3
  <1>2. ASSUME Finalize(s) \/ FinalizeFails(s) PROVE Move(s, "record")
    <2> DEFINE e == [exec[s] EXCEPT !.pc = "record", !.guarded = FALSE]
    <2>0. exec[s].result # "none"
      BY <1>2 DEF TypeInv, FlowInv, EntryInv, Finalize, FinalizeFails, At
    <2>1. e \in Execution /\ e.msg = exec[s].msg /\ e.pc = "record" /\ e.result # "none"
      BY <1>0, <2>0 DEF Execution
    <2>2. Become(s, e) /\ ~At(s, "free") /\ msg' = msg
      BY <1>2 DEF Finalize, FinalizeFails, At
    <2> HIDE DEF e
    <2>3. Move(s, e.pc)
      BY <2>1, <2>2, BecomeMove
    <2> QED
      BY <2>1, <2>3
  <1> QED
    BY <1>1, <1>2

LEMMA RetryShape ==
  ASSUME TypeInv, NEW s \in Slots, Retry(s)
  PROVE  Move(s, "ack")
  <1> DEFINE e == [exec[s] EXCEPT !.pc = "ack", !.result = "none"]
             k == msg[exec[s].msg].retries + 1
  <1>0. ~At(s, "free")
    BY DEF Retry, At
  <1>1. exec[s] \in Execution /\ TaskOf(s) \in Tasks /\ msg[exec[s].msg] \in Message
    BY <1>0, Held
  <1>2. e \in Execution /\ e.msg = exec[s].msg /\ e.pc = "ack"
    BY <1>1 DEF Execution, PCs, Results
  <1>3. Become(s, e)
    BY DEF Retry
  <1>4. (msg' = msg \/ Added(TaskOf(s))) /\ msg' \in [Msgs -> Message]
    <2>1. CASE k < MaxRetries /\ Add(TaskOf(s), k)
      <3>1. k \in 0..(MaxRetries - 1)
        BY <1>1, <2>1, TaskiqQueueAssumption DEF Message
      <3> HIDE DEF k
      <3> QED
        BY <1>1, <2>1, <3>1, AddShape
    <2>2. CASE msg' = msg
      BY <2>2 DEF TypeInv, TypeOK
    <2> QED
      BY <2>1, <2>2 DEF Retry
  <1> HIDE DEF e
  <1>5. exec' \in [Slots -> Execution] /\ exec'[s] = e /\ Others(s)
    BY <1>2, <1>3, BecomeOne
  <1> QED
    BY <1>0, <1>2, <1>4, <1>5 DEF Move, Typed

(* The steps that start an execution.                                      *)
LEMMA StartShape ==
  ASSUME TypeInv, NEW s \in Slots, NEW m \in Msgs, Deliver(s, m) \/ Redeliver(s, m)
  PROVE  Start(s, m)
  <1> DEFINE e == [Free EXCEPT !.pc = "check", !.msg = m]
  <1>1. e \in Execution /\ e.pc = "check" /\ e.msg = m
    BY FreeType DEF Execution, PCs
  <1>2. Become(s, e) /\ At(s, "free") /\ msg[m].state \in {"waiting", "pending"}
    BY DEF Deliver, Redeliver
  <1>3. msg \in [Msgs -> Message] /\ msg[m] \in Message
    BY DEF TypeInv, TypeOK
  <1>4. /\ msg' \in [Msgs -> Message] /\ msg'[m].state = "pending"
        /\ msg'[m].task = msg[m].task /\ \A n \in Msgs \ {m} : msg'[n] = msg[n]
    <2>1. CASE Deliver(s, m)
      <3> DEFINE y == [msg[m] EXCEPT !.state = "pending"]
      <3>1. y \in Message /\ y.state = "pending" /\ y.task = msg[m].task
        BY <1>3 DEF Message
      <3>2. msg' = [msg EXCEPT ![m] = y]
        BY <2>1 DEF Deliver
      <3> HIDE DEF y
      <3> QED
        BY <1>3, <3>1, <3>2
    <2>2. CASE Redeliver(s, m)
      BY <1>3, <2>2 DEF Redeliver
    <2> QED
      BY <2>1, <2>2
  <1> HIDE DEF e
  <1>5. exec' \in [Slots -> Execution] /\ exec'[s] = e /\ Others(s)
    BY <1>1, <1>2, BecomeOne
  <1> QED
    BY <1>1, <1>2, <1>4, <1>5 DEF Start, Typed

(* The steps that end one.                                                 *)
LEMMA LeaveShape ==
  ASSUME TypeInv, NEW s \in Slots, Ack(s) \/ WorkerDies(s)
  PROVE  Leave(s)
  <1> DEFINE m == exec[s].msg
             y == IF Holders(m) = {s} THEN NoMessage ELSE [msg[m] EXCEPT !.state = "acked"]
             z == IF msg[m].state = "acked" /\ Holders(m) = {s} THEN NoMessage ELSE msg[m]
  <1>1. ~At(s, "free") /\ Become(s, Free)
    BY DEF Ack, WorkerDies, At
  <1>2. m \in Msgs /\ msg[m] \in Message /\ msg[m].state \in {"pending", "acked"}
    BY <1>1, Held
  <1>3. msg \in [Msgs -> Message]
    BY DEF TypeInv, TypeOK
  <1>4. /\ y \in Message
        /\ \/ y = NoMessage /\ Holders(m) = {s}
           \/ y.task = msg[m].task /\ y.state \in {"pending", "acked"}
    BY <1>2, NoMessageType DEF Message
  <1>5. /\ z \in Message
        /\ \/ z = NoMessage /\ Holders(m) = {s}
           \/ z.task = msg[m].task /\ z.state \in {"pending", "acked"}
    BY <1>2, NoMessageType
  <1>6. msg' = [msg EXCEPT ![m] = y] \/ msg' = [msg EXCEPT ![m] = z]
    BY DEF Ack, WorkerDies
  <1> HIDE DEF y, z
  <1>7. /\ msg' \in [Msgs -> Message]
        /\ \/ msg'[m] = NoMessage /\ Holders(m) = {s}
           \/ msg'[m].task = msg[m].task /\ msg'[m].state \in {"pending", "acked"}
        /\ \A n \in Msgs \ {m} : msg'[n] = msg[n]
    BY <1>2, <1>3, <1>4, <1>5, <1>6
  <1>8. exec' \in [Slots -> Execution] /\ exec'[s] = Free /\ Others(s)
    BY <1>1, FreeType, BecomeOne
  <1> QED
    BY <1>1, <1>7, <1>8, FreeType DEF Leave, Typed

(* The steps of senders, administrators and the clock.                     *)
LEMMA StillShape ==
  ASSUME TypeInv,
         \/ \E t \in Tasks : SenderStep(t)
         \/ AdminStep \/ Tick \/ UNCHANGED vars
  PROVE  Still
  <1>0. exec \in [Slots -> Execution] /\ msg \in [Msgs -> Message]
    BY DEF TypeInv, TypeOK
  <1>1. exec' = exec
    BY DEF SenderStep, Send, RetryTask, DelayedSend, Kiq, KiqFails, SenderDies, AdminStep,
           RequestCancel, SetMarker, UpsertReads, UpsertWrites, Tick, vars
  <1>2. CASE msg' = msg
    BY <1>0, <1>1, <1>2 DEF Still, Typed, Keep
  <1>3. ASSUME NEW t \in Tasks, Kiq(t) PROVE Still
    <2>1. Added(t) /\ msg' \in [Msgs -> Message]
      BY <1>3, AddShape, TaskiqQueueAssumption DEF Kiq
    <2> QED
      BY <1>0, <1>1, <2>1 DEF Still, Typed, Keep
  <1>4. msg' = msg \/ \E t \in Tasks : Kiq(t)
    BY DEF SenderStep, Send, RetryTask, DelayedSend, KiqFails, SenderDies, AdminStep,
           RequestCancel, SetMarker, UpsertReads, UpsertWrites, Tick, vars
  <1> QED
    BY <1>2, <1>3, <1>4

LEMMA StepShape ==
  ASSUME TypeInv, [Next]_vars
  PROVE  \/ Still
         \/ \E s \in Slots : \/ \E l : Move(s, l)
                             \/ \E m \in Msgs : Start(s, m)
                             \/ Leave(s)
  <1>1. ASSUME NEW s \in Slots, WorkerStep(s)
        PROVE  \/ \E l : Move(s, l)
               \/ \E m \in Msgs : Start(s, m)
               \/ Leave(s)
    <2>1. CASE \E m \in Msgs : Deliver(s, m) \/ Redeliver(s, m)
      BY <2>1, StartShape
    <2>2. CASE Ack(s) \/ WorkerDies(s)
      BY <2>2, LeaveShape
    <2>3. CASE CheckCancelled(s) \/ CheckFails(s) \/ Prepare(s) \/ SetStamp(s)
      BY <2>3, CheckShape, CheckFailsShape, PrepareShape, SetStampShape
    <2>4. CASE \/ PrepareFails(s) \/ Skip(s) \/ RecordResult(s)
               \/ Clear(s) \/ ClearKeepsMarker(s) \/ Retry(s)
      BY <2>4, RunShape, RetryShape
    <2>5. CASE \/ Finalize(s) \/ FinalizeFails(s)
               \/ \E result \in Results \ {"none"} : ActorEnds(s, result)
      BY <2>5, EndShape
    <2> QED
      BY <1>1, <2>1, <2>2, <2>3, <2>4, <2>5 DEF WorkerStep, Proceed
  <1> QED
    BY <1>1, StillShape DEF Next

(***************************************************************************)
(* What the shapes preserve                                                *)
(***************************************************************************)

LEMMA AddedKeeps ==
  ASSUME TypeInv, msg' = msg \/ \E t \in Tasks : Added(t)
  PROVE  /\ \A q \in Slots : ~At(q, "free") => msg'[exec[q].msg] = msg[exec[q].msg]
         /\ \A m \in Msgs : msg[m].state \in {"waiting", "pending"} => msg'[m] = msg[m]
         /\ \A m \in Msgs : msg'[m].state # "absent" => msg'[m].task \in Tasks
  <1>1. CASE msg' = msg
    BY <1>1 DEF TypeInv, FlowInv, EntryInv
  <1>2. ASSUME NEW t \in Tasks, Added(t)
        PROVE  /\ \A q \in Slots : ~At(q, "free") => msg'[exec[q].msg] = msg[exec[q].msg]
               /\ \A m \in Msgs : msg[m].state \in {"waiting", "pending"} => msg'[m] = msg[m]
               /\ \A m \in Msgs : msg'[m].state # "absent" => msg'[m].task \in Tasks
    <2>1. PICK m \in Unused : /\ msg'[m].task = t
                              /\ \A n \in Msgs \ {m} : msg'[n] = msg[n]
      BY <1>2 DEF Added
    <2>2. Holders(m) = {} /\ msg[m].state \in {"absent", "acked"}
      BY DEF Unused
    <2>3. \A q \in Slots : ~At(q, "free") => exec[q].msg \in Msgs \ {m}
      BY <2>2, Held
    <2> QED
      BY <2>1, <2>2, <2>3 DEF TypeInv, FlowInv, EntryInv
  <1> QED
    BY <1>1, <1>2

(* An execution that goes on keeps its task.                               *)
Goes(q) == /\ ~At(q, "free") /\ exec'[q].pc # "free"
           /\ exec'[q].msg = exec[q].msg /\ TaskOf(q)' = TaskOf(q)

LEMMA StillKeeps ==
  ASSUME TypeInv, Still
  PROVE  /\ EntryInv'
         /\ \A q \in Slots : Keep(q) /\ (~At(q, "free") => Goes(q))
         /\ \A t : Due(t) => Due(t)'
  <1>1. /\ \A q \in Slots : ~At(q, "free") => msg'[exec[q].msg] = msg[exec[q].msg]
        /\ \A m \in Msgs : msg[m].state \in {"waiting", "pending"} => msg'[m] = msg[m]
        /\ \A m \in Msgs : msg'[m].state # "absent" => msg'[m].task \in Tasks
    BY AddedKeeps DEF Still
  <1>2. \A q \in Slots : Keep(q) /\ (~At(q, "free") => Goes(q))
    BY <1>1 DEF Still, Goes, Keep, TaskOf, At
  <1>3. EntryInv'
    BY <1>1, <1>2 DEF TypeInv, FlowInv, EntryInv, Keep, At
  <1>4. \A m \in Msgs : Holders(m)' = Holders(m)
    BY <1>2 DEF Holders, Keep
  <1>5. \A t : Due(t) => Due(t)'
    BY <1>1, <1>4 DEF Due
  <1> QED
    BY <1>2, <1>3, <1>5

LEMMA MoveKeeps ==
  ASSUME TypeInv, NEW s \in Slots, NEW l, Move(s, l)
  PROVE  /\ EntryInv'
         /\ \A q \in Slots : ~At(q, "free") => Goes(q)
         /\ \A q \in Slots \ {s} : Keep(q)
         /\ \A t : Due(t) => Due(t)'
  <1>0. TaskOf(s) \in Tasks /\ ~At(s, "free") /\ exec[s].msg # NoMsg
    BY Held DEF Move
  <1>1. /\ \A q \in Slots : ~At(q, "free") => msg'[exec[q].msg] = msg[exec[q].msg]
        /\ \A m \in Msgs : msg[m].state \in {"waiting", "pending"} => msg'[m] = msg[m]
        /\ \A m \in Msgs : msg'[m].state # "absent" => msg'[m].task \in Tasks
    BY <1>0, AddedKeeps DEF Move
  <1>2. \A q \in Slots \ {s} : Keep(q)
    BY DEF Move, Others
  <1>3. \A q \in Slots : exec'[q].msg = exec[q].msg
    BY <1>2 DEF Move, Keep
  <1>4. \A q \in Slots : ~At(q, "free") => Goes(q)
    BY <1>1, <1>2, <1>3 DEF Goes, Keep, TaskOf, At, Move
  <1>5. EntryInv'
    <2>1. ASSUME NEW q \in Slots
          PROVE  /\ exec'[q].pc = "free" <=> exec'[q].msg = NoMsg
                 /\ exec'[q].pc # "free" => msg'[exec'[q].msg].state \in {"pending", "acked"}
                 /\ exec'[q].pc \in {"finalize", "record"} => exec'[q].result # "none"
      <3>1. CASE q = s
        BY <1>0, <1>1, <1>3, <3>1 DEF Move, TypeInv, FlowInv, EntryInv
      <3>2. CASE q # s
        BY <1>1, <1>2, <3>2 DEF Keep, TypeInv, FlowInv, EntryInv, At
      <3> QED
        BY <3>1, <3>2
    <2> QED
      BY <1>1, <2>1 DEF EntryInv, At
  <1>6. \A m \in Msgs : Holders(m)' = Holders(m)
    BY <1>3 DEF Holders
  <1>7. \A t : Due(t) => Due(t)'
    BY <1>1, <1>6 DEF Due
  <1> QED
    BY <1>2, <1>4, <1>5, <1>7

LEMMA StartKeeps ==
  ASSUME TypeInv, NEW s \in Slots, NEW m \in Msgs, Start(s, m)
  PROVE  /\ EntryInv'
         /\ \A q \in Slots : ~At(q, "free") => Goes(q)
         /\ \A q \in Slots \ {s} : Keep(q)
         /\ \A t : Due(t) => Due(t)' \/ Busy(t, {"check"})'
  <1>0. m # NoMsg /\ msg[m].task \in Tasks
    BY TaskiqQueueAssumption DEF Start, TypeInv, FlowInv, EntryInv
  <1>1. \A q \in Slots \ {s} : Keep(q)
    BY DEF Start, Others
  <1>2. \A n \in Msgs : msg'[n].task = msg[n].task
    BY DEF Start
  <1>3. \A q \in Slots : ~At(q, "free") => Goes(q)
    <2> SUFFICES ASSUME NEW q \in Slots, ~At(q, "free") PROVE Goes(q)
      OBVIOUS
    <2>1. q # s
      BY DEF Start
    <2>2. exec[q].msg \in Msgs
      BY Held
    <2> QED
      BY <1>1, <1>2, <2>1, <2>2 DEF Goes, Keep, TaskOf, At
  <1>4. EntryInv'
    <2>1. ASSUME NEW q \in Slots
          PROVE  /\ exec'[q].pc = "free" <=> exec'[q].msg = NoMsg
                 /\ exec'[q].pc # "free" => msg'[exec'[q].msg].state \in {"pending", "acked"}
                 /\ exec'[q].pc \in {"finalize", "record"} => exec'[q].result # "none"
      <3>1. CASE q = s
        BY <1>0, <3>1 DEF Start
      <3>2. CASE q # s
        <4>1. Keep(q)
          BY <1>1, <3>2
        <4>2. CASE At(q, "free")
          BY <4>1, <4>2 DEF Keep, TypeInv, FlowInv, EntryInv, At
        <4>3. CASE ~At(q, "free")
          <5>1. exec[q].msg \in Msgs /\ msg[exec[q].msg].state \in {"pending", "acked"}
            BY <4>3, Held
          <5>2. msg'[exec[q].msg].state \in {"pending", "acked"}
            BY <5>1 DEF Start
          <5> QED
            BY <4>1, <4>3, <5>2 DEF Keep, TypeInv, FlowInv, EntryInv, At
        <4> QED
          BY <4>2, <4>3
      <3> QED
        BY <3>1, <3>2
    <2>2. \A n \in Msgs : msg'[n].state # "absent" => msg'[n].task \in Tasks
      BY <1>0, <1>2 DEF Start, TypeInv, FlowInv, EntryInv
    <2> QED
      BY <2>1, <2>2 DEF EntryInv, At
  <1>5. ASSUME NEW t, Due(t), ~(msg[m].task = t) PROVE Due(t)'
    <2>1. PICK n \in Msgs : /\ msg[n].task = t
                            /\ \/ msg[n].state = "waiting"
                               \/ msg[n].state = "pending" /\ Holders(n) = {}
      BY <1>5 DEF Due
    <2>2. n # m /\ msg'[n] = msg[n]
      BY <1>5, <2>1 DEF Start
    <2>3. Holders(n)' \subseteq Holders(n)
      BY <1>1, <2>2 DEF Holders, Keep, Start
    <2> QED
      BY <2>1, <2>2, <2>3 DEF Due
  <1>6. ASSUME NEW t, msg[m].task = t PROVE Busy(t, {"check"})'
    BY <1>0, <1>2, <1>6 DEF Busy, Executing, Start, TaskOf
  <1> QED
    BY <1>1, <1>3, <1>4, <1>5, <1>6

LEMMA LeaveKeeps ==
  ASSUME TypeInv, NEW s \in Slots, Leave(s)
  PROVE  /\ EntryInv'
         /\ \A q \in Slots \ {s} : Keep(q) /\ (~At(q, "free") => Goes(q))
         /\ \A t : Due(t) => Due(t)'
  <1> DEFINE m == exec[s].msg
  <1>0. /\ ~At(s, "free") /\ m \in Msgs /\ msg[m].state \in {"pending", "acked"}
        /\ s \in Holders(m) /\ msg[m].task \in Tasks
    BY Held DEF Leave, TaskOf
  <1>1. \A q \in Slots \ {s} : Keep(q)
    BY DEF Leave, Others
  <1>2. /\ \/ msg'[m] = NoMessage /\ Holders(m) = {s}
           \/ msg'[m].task = msg[m].task /\ msg'[m].state \in {"pending", "acked"}
        /\ \A n \in Msgs \ {m} : msg'[n] = msg[n]
    BY DEF Leave
  <1> HIDE DEF m
  <1>3. ASSUME NEW q \in Slots \ {s}, ~At(q, "free")
        PROVE  /\ msg'[exec[q].msg].task = msg[exec[q].msg].task
               /\ msg'[exec[q].msg].state \in {"pending", "acked"}
    <2>1. /\ exec[q].msg \in Msgs /\ q \in Holders(exec[q].msg)
          /\ msg[exec[q].msg].state \in {"pending", "acked"}
      BY <1>3, Held
    <2>2. CASE exec[q].msg = m
      BY <1>2, <2>1, <2>2
    <2>3. CASE exec[q].msg # m
      BY <1>2, <2>1, <2>3
    <2> QED
      BY <2>2, <2>3
  <1>4. \A q \in Slots \ {s} : Keep(q) /\ (~At(q, "free") => Goes(q))
    BY <1>1, <1>3 DEF Goes, Keep, TaskOf, At
  <1>5. EntryInv'
    <2>1. ASSUME NEW q \in Slots
          PROVE  /\ exec'[q].pc = "free" <=> exec'[q].msg = NoMsg
                 /\ exec'[q].pc # "free" => msg'[exec'[q].msg].state \in {"pending", "acked"}
                 /\ exec'[q].pc \in {"finalize", "record"} => exec'[q].result # "none"
      <3>1. CASE q = s
        BY <3>1 DEF Leave
      <3>2. CASE q # s
        BY <1>1, <1>3, <3>2 DEF Keep, TypeInv, FlowInv, EntryInv, At
      <3> QED
        BY <3>1, <3>2
    <2>2. \A n \in Msgs : msg'[n].state # "absent" => msg'[n].task \in Tasks
      BY <1>0, <1>2, NoMessageType DEF TypeInv, FlowInv, EntryInv
    <2> QED
      BY <2>1, <2>2 DEF EntryInv, At
  <1>6. ASSUME NEW t, Due(t) PROVE Due(t)'
    <2>1. PICK n \in Msgs : /\ msg[n].task = t
                            /\ \/ msg[n].state = "waiting"
                               \/ msg[n].state = "pending" /\ Holders(n) = {}
      BY <1>6 DEF Due
    <2>2. n # m /\ msg'[n] = msg[n]
      BY <1>0, <1>2, <2>1
    <2>3. n # NoMsg
      BY TaskiqQueueAssumption
    <2>4. Holders(n)' \subseteq Holders(n)
      BY <1>1, <2>3 DEF Holders, Keep, Leave
    <2> QED
      BY <2>1, <2>2, <2>4 DEF Due
  <1> QED
    BY <1>4, <1>5, <1>6

LEMMA EntryStep ==
  ASSUME TypeInv, [Next]_vars
  PROVE  EntryInv' /\ Typed
  BY StepShape, StillKeeps, MoveKeeps, StartKeeps, LeaveKeeps DEF Still, Move, Start, Leave

(***************************************************************************)
(* Type correctness                                                        *)
(***************************************************************************)

(* The part of TypeOK that is not about executions and entries.            *)
RestOK ==
    /\ actor \in Actors /\ record \in [Tasks -> Statuses] /\ forced \subseteq Tasks
    /\ sender \in [Tasks -> {"none", "delay", "kiq", "done"}]
    /\ stamp \in Ages /\ since \in Ages
    /\ marker \subseteq Tasks /\ running \subseteq Tasks
    /\ admin \in [task : Tasks \cup {NoTask},
                  pc : {"idle", "mark", "read", "write"}, seen : Statuses]
    /\ lost \subseteq Tasks /\ raced \subseteq Tasks /\ doomed \subseteq Tasks
    /\ orphaned \subseteq Tasks /\ unseen \subseteq Tasks
    /\ spent \in 0..Budget

AdminOK == admin.pc # "idle" => admin.task \in Tasks

LEMMA SpendType == ASSUME RestOK, Spend PROVE spent' \in 0..Budget
  BY TaskiqQueueAssumption DEF RestOK, Spend

LEMMA SenderRest ==
  ASSUME RestOK, AdminOK, NEW t \in Tasks, SenderStep(t)
  PROVE  RestOK' /\ AdminOK'
  <1>0. UNCHANGED admin
    BY DEF SenderStep, Send, RetryTask, DelayedSend, Kiq, KiqFails, SenderDies
  <1>1. {"scheduled", "queued", "enqueue_failed"} \subseteq Statuses
    BY DEF Statuses, Active, Terminal
  <1>2. CASE Send(t)
    <2>1. /\ record' \in [Tasks -> Statuses] /\ forced' \subseteq Tasks
          /\ sender' \in [Tasks -> {"none", "delay", "kiq", "done"}]
      BY <1>1, <1>2 DEF Send, SetStatus, RestOK
    <2> QED
      BY <1>0, <1>2, <2>1, SpendType DEF Send, RestOK, AdminOK, history
  <1>3. ASSUME NEW u \in Tasks, RetryTask(t, u) PROVE RestOK' /\ AdminOK'
    <2>1. /\ record' \in [Tasks -> Statuses] /\ forced' \subseteq Tasks
          /\ sender' \in [Tasks -> {"none", "delay", "kiq", "done"}]
      BY <1>1, <1>3 DEF RetryTask, SetStatus, RestOK
    <2> QED
      BY <1>0, <1>3, <2>1, SpendType DEF RetryTask, RestOK, AdminOK, history
  <1>4. CASE DelayedSend(t) \/ Kiq(t)
    <2>1. /\ record' \in [Tasks -> Statuses]
          /\ sender' \in [Tasks -> {"none", "delay", "kiq", "done"}]
      BY <1>1, <1>4 DEF DelayedSend, Kiq, SetStatus, RestOK
    <2> QED
      BY <1>0, <1>4, <2>1 DEF DelayedSend, Kiq, RestOK, AdminOK, history
  <1>5. CASE KiqFails(t) \/ SenderDies(t)
    <2>1. /\ record' \in [Tasks -> Statuses] /\ lost' \subseteq Tasks
          /\ sender' \in [Tasks -> {"none", "delay", "kiq", "done"}]
      BY <1>1, <1>5 DEF KiqFails, SenderDies, SetStatus, RestOK, history
    <2> QED
      BY <1>0, <1>5, <2>1, SpendType DEF KiqFails, SenderDies, RestOK, AdminOK, history
  <1> QED
    BY <1>2, <1>3, <1>4, <1>5 DEF SenderStep

LEMMA AdminRest ==
  ASSUME RestOK, AdminOK, AdminStep \/ Tick
  PROVE  RestOK' /\ AdminOK'
  <1>0. "none" \in Statuses
    BY DEF Statuses
  <1>1. ASSUME NEW t \in Tasks, RequestCancel(t) PROVE RestOK' /\ AdminOK'
    <2>1. /\ admin' \in [task : Tasks \cup {NoTask},
                         pc : {"idle", "mark", "read", "write"}, seen : Statuses]
          /\ admin'.task = t
      BY <1>0, <1>1 DEF RequestCancel
    <2> QED
      BY <1>1, <2>1, SpendType DEF RequestCancel, RestOK, AdminOK, sending
  <1>2. CASE SetMarker
    <2>1. admin.task \in Tasks
      BY <1>2 DEF SetMarker, AdminOK
    <2>2. /\ admin' \in [task : Tasks \cup {NoTask},
                         pc : {"idle", "mark", "read", "write"}, seen : Statuses]
          /\ admin'.task = admin.task
      BY <1>2 DEF SetMarker, RestOK
    <2> QED
      BY <1>2, <2>1, <2>2 DEF SetMarker, RestOK, AdminOK, sending
  <1>3. CASE UpsertReads
    <2>1. admin.task \in Tasks
      BY <1>3 DEF UpsertReads, AdminOK
    <2>2. record[admin.task] \in Statuses
      BY <2>1 DEF RestOK
    <2>3. /\ admin' \in [task : Tasks \cup {NoTask},
                         pc : {"idle", "mark", "read", "write"}, seen : Statuses]
          /\ admin'.task = admin.task
      BY <1>3, <2>2 DEF UpsertReads, RestOK
    <2> QED
      BY <1>3, <2>1, <2>3 DEF UpsertReads, RestOK, AdminOK, sending, history
  <1>4. CASE UpsertWrites
    <2>1. admin.task \in Tasks /\ admin.seen \in Statuses
      BY <1>4 DEF UpsertWrites, AdminOK, RestOK
    <2>2. record' \in [Tasks -> Statuses] /\ raced' \subseteq Tasks
      BY <1>4, <2>1 DEF UpsertWrites, RestOK, SetStatus
    <2>3. /\ admin' \in [task : Tasks \cup {NoTask},
                         pc : {"idle", "mark", "read", "write"}, seen : Statuses]
          /\ admin'.pc = "idle"
      BY <1>0, <1>4 DEF UpsertWrites, Quiet
    <2> QED
      BY <1>4, <2>2, <2>3 DEF UpsertWrites, RestOK, AdminOK
  <1>5. CASE Tick
    <2>1. stamp' \in Ages /\ since' \in Ages
      BY <1>5, TaskiqQueueAssumption DEF Tick, RestOK, Ages, Older
    <2> QED
      BY <1>5, <2>1 DEF Tick, RestOK, AdminOK, sending
  <1> QED
    BY <1>1, <1>2, <1>3, <1>4, <1>5 DEF AdminStep

LEMMA WorkerRest ==
  ASSUME TypeInv, RestOK, AdminOK, NEW s \in Slots, WorkerStep(s)
  PROVE  RestOK' /\ AdminOK'
  <1>0. {"running", "cancelled", "skipped", "success", "error"} \subseteq Statuses
    BY DEF Statuses, Active, Terminal
  <1>a. 0 \in Ages /\ Interval \in Ages
    BY TaskiqQueueAssumption DEF Ages
  <1>1. CASE CheckCancelled(s)
    <2>1. TaskOf(s) \in Tasks
      BY <1>1, Held DEF CheckCancelled, At
    <2>2. record' \in [Tasks -> Statuses] /\ running' \subseteq Tasks
      BY <1>0, <1>1, <2>1 DEF CheckCancelled, BeginRun, SetStatus, RestOK
    <2> QED
      BY <1>1, <2>2 DEF CheckCancelled, RestOK, AdminOK, history
  <1>b. CASE CheckFails(s)
    <2>1. TaskOf(s) \in Tasks
      BY <1>b, Held DEF CheckFails, At
    <2>2. /\ record' \in [Tasks -> Statuses] /\ running' \subseteq Tasks
          /\ unseen' \subseteq Tasks
      BY <1>0, <1>b, <2>1 DEF CheckFails, BeginRun, SetStatus, RestOK
    <2> QED
      BY <1>b, <2>2, SpendType DEF CheckFails, RestOK, AdminOK
  <1>2. CASE Skip(s)
    <2>1. record' \in [Tasks -> Statuses] /\ running' \subseteq Tasks
      BY <1>0, <1>2 DEF Skip, SetStatus, RestOK
    <2> QED
      BY <1>2, <2>1 DEF Skip, RestOK, AdminOK, history
  <1>3. CASE RecordResult(s)
    <2>1. exec[s].result \in {"success", "error", "cancelled", "timeout"}
      BY <1>3 DEF RecordResult, TypeInv, TypeOK, FlowInv, EntryInv, Execution, Results, At
    <2>2. record' \in [Tasks -> Statuses]
      BY <1>0, <1>3, <2>1 DEF RecordResult, SetStatus, RestOK
    <2> QED
      BY <1>3, <2>2 DEF RecordResult, RestOK, AdminOK, history
  <1>4. CASE SetStamp(s) \/ Finalize(s)
    <2>1. stamp' \in Ages /\ since' \in Ages
      BY <1>a, <1>4 DEF SetStamp, Finalize, RestOK
    <2> QED
      BY <1>4, <2>1 DEF SetStamp, Finalize, RestOK, AdminOK, sending
  <1>5. CASE WorkerDies(s)
    <2>1. TaskOf(s) \in Tasks
      BY <1>5, Held DEF WorkerDies
    <2> QED
      BY <1>5, <2>1, SpendType DEF WorkerDies, RestOK, AdminOK, sending
  <1>6. CASE Clear(s) \/ ClearKeepsMarker(s)
    BY <1>6, SpendType DEF Clear, ClearKeepsMarker, RestOK, AdminOK, sending, history
  <1>7. CASE PrepareFails(s) \/ FinalizeFails(s)
    BY <1>7, SpendType DEF PrepareFails, FinalizeFails, RestOK, AdminOK, sending, history
  <1>8. CASE \/ Prepare(s) \/ Retry(s) \/ Ack(s)
             \/ \E result \in Results \ {"none"} : ActorEnds(s, result)
    BY <1>8 DEF Prepare, Retry, Ack, ActorEnds, RestOK, AdminOK, sending, history
  <1>9. CASE \E m \in Msgs : Deliver(s, m) \/ Redeliver(s, m)
    BY <1>9, SpendType DEF Deliver, Redeliver, RestOK, AdminOK, sending, history
  <1> QED
    BY <1>b, <1>1, <1>2, <1>3, <1>4, <1>5, <1>6, <1>7, <1>8, <1>9 DEF WorkerStep, Proceed

LEMMA TypeStep == TypeInv /\ [Next]_vars => TypeInv'
  <1> SUFFICES ASSUME TypeInv, [Next]_vars PROVE TypeInv'
    OBVIOUS
  <1>1. RestOK /\ AdminOK
    BY DEF TypeInv, TypeOK, FlowInv, RestOK, AdminOK
  <1>2. RestOK' /\ AdminOK'
    <2>1. CASE UNCHANGED vars
      BY <1>1, <2>1 DEF vars, RestOK, AdminOK
    <2> QED
      BY <1>1, <2>1, SenderRest, AdminRest, WorkerRest DEF Next
  <1>3. EntryInv' /\ Typed
    BY EntryStep
  <1> QED
    BY <1>2, <1>3 DEF TypeInv, TypeOK, FlowInv, RestOK, AdminOK, Typed

LEMMA TypeInvariant == Spec => []TypeInv
  <1>1. ASSUME Init PROVE TypeInv
    <2>1. exec \in [Slots -> Execution] /\ msg \in [Msgs -> Message]
      BY <1>1, FreeType, NoMessageType DEF Init
    <2>2. EntryInv
      <3>1. \A s \in Slots : exec[s] = Free
        BY <1>1 DEF Init
      <3>2. \A m \in Msgs : msg[m] = NoMessage
        BY <1>1 DEF Init
      <3> QED
        BY <3>1, <3>2, FreeType, NoMessageType DEF EntryInv, At
    <2>3. RestOK /\ AdminOK
      BY <1>1, TaskiqQueueAssumption
         DEF Init, RestOK, AdminOK, Quiet, Statuses, Ages
    <2> QED
      BY <2>1, <2>2, <2>3 DEF TypeInv, TypeOK, FlowInv, RestOK, AdminOK
  <1> QED
    BY <1>1, TypeStep, PTL DEF Spec

(* Every reachable state is well typed: every status that is written is    *)
(* one of the queue's, and retries stay below max_retries.                 *)
THEOREM TypeCorrect == Spec => []TypeOK
  <1>1. TypeInv => TypeOK
    BY DEF TypeInv
  <1> QED
    BY <1>1, TypeInvariant, PTL

(***************************************************************************)
(* Cancellation                                                            *)
(***************************************************************************)

LEMMA DoomWorker ==
  ASSUME TypeInv, DoomInv, NEW s \in Slots, WorkerStep(s)
  PROVE  DoomInv'
  <1>0. doomed' = doomed /\ unseen \subseteq unseen'
    BY DEF WorkerStep, Proceed, Deliver, Redeliver, CheckCancelled, CheckFails, Prepare, SetStamp, Skip,
           ActorEnds, Finalize, RecordResult, Clear, Retry, Ack, PrepareFails,
           FinalizeFails, ClearKeepsMarker, WorkerDies, history
  <1>1. ~At(s, "free") /\ TaskOf(s) \in doomed \ unseen => exec[s].pc \in {"check", "end", "ack"}
    BY DEF DoomInv, CancelledNeverStarts
  <1>2. doomed' \ unseen' \subseteq marker'
    <2>1. CASE Clear(s)
      <3>1. TaskOf(s) \notin doomed \ unseen
        BY <1>1, <2>1 DEF Clear, At
      <3> QED
        BY <1>0, <2>1, <3>1 DEF Clear, DoomInv
    <2>2. CASE ~Clear(s)
      <3>1. marker' = marker
        BY <2>2 DEF WorkerStep, Proceed, Deliver, Redeliver, CheckCancelled, CheckFails, Prepare,
           SetStamp, Skip, ActorEnds, Finalize, RecordResult, Retry, Ack, PrepareFails,
           FinalizeFails, ClearKeepsMarker, WorkerDies
      <3> QED
        BY <1>0, <3>1 DEF DoomInv
    <2> QED
      BY <2>1, <2>2
  <1>3. /\ \A q \in Slots \ {s} : Keep(q) /\ (~At(q, "free") => Goes(q))
        /\ exec'[s].pc # "free" /\ TaskOf(s)' \in doomed \ unseen' =>
             exec'[s].pc \in {"check", "end", "ack"}
    <2>1. CASE Ack(s) \/ WorkerDies(s)
      BY <2>1, LeaveShape, LeaveKeeps DEF Leave
    <2>2. CASE \E m \in Msgs : Deliver(s, m) \/ Redeliver(s, m)
      BY <2>2, StartShape, StartKeeps DEF Start
    <2>3. CASE CheckCancelled(s)
      <3> DEFINE l == IF TaskOf(s) \in marker THEN "end" ELSE "prepare"
      <3>1. Move(s, l)
        BY <2>3, CheckShape
      <3>2. TaskOf(s) \in doomed \ unseen => l = "end"
        BY DEF DoomInv
      <3> HIDE DEF l
      <3> QED
        BY <1>0, <3>1, <3>2, MoveKeeps DEF Move, Goes
    <2>c. CASE CheckFails(s)
      <3>1. Move(s, "prepare") /\ TaskOf(s) \in unseen'
        BY <2>c, CheckFailsShape DEF CheckFails
      <3> QED
        BY <3>1, MoveKeeps DEF Move, Goes
    <2>4. CASE Retry(s)
      BY <2>4, RetryShape, MoveKeeps DEF Move
    <2>5. CASE \/ Prepare(s) \/ SetStamp(s) \/ PrepareFails(s) \/ Skip(s)
               \/ RecordResult(s) \/ Clear(s) \/ ClearKeepsMarker(s)
               \/ Finalize(s) \/ FinalizeFails(s)
               \/ \E result \in Results \ {"none"} : ActorEnds(s, result)
      <3>1. PICK l : Move(s, l)
        BY <2>5, PrepareShape, SetStampShape, RunShape, EndShape
      <3>2. exec[s].pc \notin {"check", "end", "ack"}
        BY <2>5 DEF Prepare, SetStamp, PrepareFails, Skip, RecordResult, Clear,
           ClearKeepsMarker, Finalize, FinalizeFails, ActorEnds, At
      <3> QED
        BY <1>0, <1>1, <3>1, <3>2, MoveKeeps DEF Move, Goes
    <2> QED
      BY <2>1, <2>2, <2>3, <2>c, <2>4, <2>5 DEF WorkerStep, Proceed
  <1>4. ASSUME NEW q \in Slots, exec'[q].pc # "free", TaskOf(q)' \in doomed \ unseen'
        PROVE  exec'[q].pc \in {"check", "end", "ack"}
    BY <1>0, <1>3, <1>4 DEF Goes, Keep, At, DoomInv, CancelledNeverStarts
  <1> QED
    BY <1>0, <1>2, <1>4 DEF DoomInv, CancelledNeverStarts, At

LEMMA DoomStep == TypeInv /\ DoomInv /\ [Next]_vars => DoomInv'
  <1> SUFFICES ASSUME TypeInv, DoomInv, [Next]_vars PROVE DoomInv'
    OBVIOUS
  <1>1. ASSUME \/ \E t \in Tasks : SenderStep(t)
               \/ AdminStep \/ Tick \/ UNCHANGED vars
        PROVE  DoomInv'
    <2>1. \A q \in Slots : Keep(q) /\ (~At(q, "free") => Goes(q))
      BY <1>1, StillShape, StillKeeps
    <2>2. CASE SetMarker
      <3>1. /\ doomed' \subseteq doomed \cup {admin.task} /\ marker' = marker \cup {admin.task}
            /\ admin.task \in doomed' \ doomed => Executing(admin.task) = {}
            /\ unseen' = unseen
        BY <2>2 DEF SetMarker
      <3>2. ASSUME NEW q \in Slots, exec'[q].pc # "free", TaskOf(q)' \in doomed' \ unseen'
            PROVE  exec'[q].pc \in {"check", "end", "ack"}
        <4>1. ~At(q, "free") /\ TaskOf(q)' = TaskOf(q) /\ exec'[q].pc = exec[q].pc
          BY <2>1, <3>2 DEF Goes, Keep, At
        <4>2. TaskOf(q) \in doomed \ unseen
          BY <3>1, <3>2, <4>1, Held DEF Executing
        <4> QED
          BY <4>1, <4>2 DEF DoomInv, CancelledNeverStarts
      <3> QED
        BY <3>1, <3>2 DEF DoomInv, CancelledNeverStarts, At
    <2>3. CASE ~SetMarker
      <3>1. doomed' = doomed /\ marker' = marker /\ unseen' = unseen
        BY <1>1, <2>3 DEF SenderStep, Send, RetryTask, DelayedSend, Kiq, KiqFails,
           SenderDies, AdminStep, RequestCancel, UpsertReads, UpsertWrites, Tick, vars,
           history
      <3> QED
        BY <2>1, <3>1 DEF DoomInv, CancelledNeverStarts, Goes, Keep, At
    <2> QED
      BY <2>2, <2>3
  <1> QED
    BY <1>1, DoomWorker DEF Next

(* A task cancelled while no execution had it never starts, whatever the   *)
(* retries, redeliveries and delayed sends that follow.                    *)
THEOREM CancelledStayOut == Spec => []CancelledNeverStarts
  <1>1. ASSUME Init PROVE DoomInv
    BY <1>1 DEF Init, DoomInv, CancelledNeverStarts
  <1>2. DoomInv => CancelledNeverStarts
    BY DEF DoomInv
  <1> QED
    BY <1>1, <1>2, TypeInvariant, DoomStep, PTL DEF Spec

(***************************************************************************)
(* The minimum interval                                                    *)
(***************************************************************************)

LEMMA StampStep == TypeInv /\ StampInv /\ [Next]_vars => StampInv'
  <1> SUFFICES ASSUME TypeInv, StampInv, [Next]_vars PROVE StampInv'
    OBVIOUS
  <1>0. /\ stamp \in Nat /\ since \in Nat /\ stamp <= Interval /\ since <= Interval
        /\ Interval \in Nat /\ stamp <= since
    BY TaskiqQueueAssumption DEF TypeInv, TypeOK, Ages, StampInv
  <1>1. CASE UNCHANGED <<stamp, since, exec>>
    BY <1>1 DEF StampInv, At
  <1>2. CASE Tick
    BY <1>0, <1>2 DEF Tick, StampInv, Older, At
  <1>3. ASSUME NEW s \in Slots, WorkerStep(s) PROVE StampInv'
    <2>1. CASE SetStamp(s)
      <3>1. stamp' = 0 /\ since' = 0 /\ Move(s, "run")
            /\ \A q \in Slots \ {s} : Keep(q) /\ (At(q, "stamp") => exec'[q].passed)
        BY <2>1, SetStampShape, MoveKeeps DEF SetStamp
      <3> QED
        BY <3>1 DEF StampInv, At, Keep, Move
    <2>2. CASE ~SetStamp(s)
      <3>1. exec \in [Slots -> Execution] /\ \E e : Become(s, e)
        BY <1>3, <2>2 DEF TypeInv, TypeOK, WorkerStep, Proceed, Deliver, Redeliver,
           CheckCancelled, CheckFails, BeginRun, Prepare, Skip, ActorEnds, Finalize, RecordResult,
           Clear, Retry, Ack, PrepareFails, FinalizeFails, ClearKeepsMarker, WorkerDies, Goto
      <3>2. \A q \in Slots \ {s} : exec'[q] = exec[q]
        BY <3>1 DEF Become
      <3>3. stamp' <= since' /\ (since' = since \/ since' = Interval)
        <4>1. CASE Finalize(s)
          BY <1>0, <4>1 DEF Finalize
        <4>2. CASE ~Finalize(s)
          BY <1>0, <1>3, <2>2, <4>2 DEF WorkerStep, Proceed, Deliver, Redeliver,
             CheckCancelled, CheckFails, Prepare, Skip, ActorEnds, RecordResult, Clear,
             Retry, Ack,
             PrepareFails, FinalizeFails, ClearKeepsMarker, WorkerDies, history
        <4> QED
          BY <4>1, <4>2
      <3>4. exec'[s].pc = "stamp" => since' = Interval
        <4>1. CASE Prepare(s)
          <5>1. since' = since
            BY <4>1 DEF Prepare, history
          <5> QED
            BY <1>0, <4>1, <5>1, PrepareShape DEF Move
        <4>2. CASE CheckCancelled(s) \/ CheckFails(s) \/ Retry(s)
          BY <4>2, CheckShape, CheckFailsShape, RetryShape DEF Move
        <4>3. CASE Ack(s) \/ WorkerDies(s)
          BY <4>3, LeaveShape DEF Leave
        <4>4. CASE \E m \in Msgs : Deliver(s, m) \/ Redeliver(s, m)
          BY <4>4, StartShape DEF Start
        <4>5. CASE \/ PrepareFails(s) \/ Skip(s)
                   \/ RecordResult(s) \/ Clear(s) \/ ClearKeepsMarker(s)
                   \/ Finalize(s) \/ FinalizeFails(s)
                   \/ \E result \in Results \ {"none"} : ActorEnds(s, result)
          BY <4>5, RunShape, EndShape DEF Move
        <4> QED
          BY <1>3, <2>2, <4>1, <4>2, <4>3, <4>4, <4>5 DEF WorkerStep, Proceed
      <3> QED
        BY <3>2, <3>3, <3>4 DEF StampInv, At
    <2> QED
      BY <2>1, <2>2
  <1>4. \/ UNCHANGED <<stamp, since, exec>> \/ Tick
        \/ \E s \in Slots : WorkerStep(s)
    BY DEF Next, SenderStep, Send, RetryTask, DelayedSend, Kiq, KiqFails, SenderDies,
           AdminStep, RequestCancel, SetMarker, UpsertReads, UpsertWrites, vars, history
  <1> QED
    BY <1>1, <1>2, <1>3, <1>4

(* Two starts behind the interval guard are the interval apart unless a    *)
(* failed run deleted the stamp in between or another start came between   *)
(* the GET and the SET.                                                    *)
THEOREM IntervalIsKept == Spec => IntervalKept
  <1>1. ASSUME Init PROVE StampInv
    <2>1. stamp = Interval /\ since = Interval /\ \A s \in Slots : exec[s].pc = "free"
      BY <1>1 DEF Init, Free
    <2> QED
      BY <2>1, TaskiqQueueAssumption DEF StampInv, At
  <1>2. StampInv => [\A s \in Slots : At(s, "stamp") /\ exec'[s].guarded =>
                        since = Interval \/ exec[s].passed]_vars
    BY DEF StampInv
  <1> QED
    BY <1>1, <1>2, TypeInvariant, StampStep, PTL DEF Spec, IntervalKept

(***************************************************************************)
(* Somebody is left to finish a task                                       *)
(***************************************************************************)

(* An execution other than the one that steps stays where it is.           *)
LEMMA BusyStays ==
  ASSUME TypeInv, NEW s \in Slots,
         (\E l : Move(s, l)) \/ (\E m \in Msgs : Start(s, m)) \/ Leave(s),
         NEW t, NEW L, Busy(t, L), TaskOf(s) = t => exec[s].pc \notin L, "free" \notin L
  PROVE  Busy(t, L)'
  <1>1. PICK q \in Slots : exec[q].msg # NoMsg /\ TaskOf(q) = t /\ exec[q].pc \in L
    BY DEF Busy, Executing
  <1>2. q # s /\ ~At(q, "free")
    BY <1>1 DEF At
  <1>3. Goes(q) /\ Keep(q)
    BY <1>2, MoveKeeps, StartKeeps, LeaveKeeps
  <1> QED
    BY <1>1, <1>3 DEF Goes, Keep, Busy, Executing, TaskOf

LEMMA BusyStill ==
  ASSUME TypeInv, Still, NEW t, NEW L, Busy(t, L)
  PROVE  Busy(t, L)'
  <1>1. PICK q \in Slots : exec[q].msg # NoMsg /\ TaskOf(q) = t /\ exec[q].pc \in L
    BY DEF Busy, Executing
  <1>2. Goes(q) /\ Keep(q)
    BY <1>1, StillKeeps DEF TypeInv, FlowInv, EntryInv, At
  <1> QED
    BY <1>1, <1>2 DEF Goes, Keep, Busy, Executing, TaskOf

LEMMA BusyMoved ==
  ASSUME TypeInv, NEW s \in Slots, NEW L, NEW l \in L, Move(s, l), NEW t, TaskOf(s) = t
  PROVE  Busy(t, L)'
  <1>1. Goes(s) /\ exec[s].msg # NoMsg /\ exec'[s].pc \in L
    BY MoveKeeps, Held DEF Move
  <1> QED
    BY <1>1 DEF Goes, Busy, Executing, TaskOf

(* An execution that moves within a set of labels leaves it busy.          *)
LEMMA BusyWithin ==
  ASSUME TypeInv, NEW s \in Slots, NEW L, NEW l \in L, Move(s, l),
         NEW t, Busy(t, L), "free" \notin L
  PROVE  Busy(t, L)'
  <1>1. CASE TaskOf(s) = t
    BY <1>1, BusyMoved
  <1>2. CASE TaskOf(s) # t
    BY <1>2, BusyStays
  <1> QED
    BY <1>1, <1>2

(* The entry of an execution that dies is redelivered, unless there is     *)
(* another execution of it, or it was acknowledged by one.                 *)
LEMMA DiesDue ==
  ASSUME TypeInv, NEW s \in Slots, WorkerDies(s), NEW t, TaskOf(s) = t
  PROVE  t \in lost' \/ Due(t)'
  <1> SUFFICES ASSUME t \notin lost' PROVE Due(t)'
    OBVIOUS
  <1>1. PICK m \in Msgs : /\ m = exec[s].msg /\ ~At(s, "free")
                          /\ msg[m].state \in {"pending", "acked"}
    BY Held DEF WorkerDies
  <1>2. msg[m].state = "pending" /\ Holders(m) = {s}
    BY <1>1 DEF WorkerDies
  <1>3. msg' = [msg EXCEPT ![m] = msg[m]]
    BY <1>1, <1>2 DEF WorkerDies
  <1>4. msg'[m] = msg[m] /\ msg[m].task = t
    BY <1>1, <1>3 DEF TypeInv, TypeOK, TaskOf
  <1>5. m # NoMsg
    BY <1>1, TaskiqQueueAssumption
  <1>6. Holders(m)' = {}
    BY <1>1, <1>2, <1>5, LeaveShape DEF Holders, Leave, Others, Keep
  <1> QED
    BY <1>1, <1>2, <1>4, <1>6 DEF Due

(***************************************************************************)
(* Records settle                                                          *)
(***************************************************************************)

(* What RecordInv says of one task.                                        *)
Settles(t) ==
    \/ sender[t] # "done" \/ record[t] \in Terminal \/ t \in lost \cup raced
    \/ Due(t) \/ Busy(t, Unsettled)

LEMMA SettleFrame ==
  ASSUME NEW t, Settles(t), sender'[t] = sender[t], record'[t] = record[t],
         lost \subseteq lost', raced \subseteq raced',
         Due(t) => Due(t)' \/ Busy(t, Unsettled)',
         Busy(t, Unsettled) => Busy(t, Unsettled)' \/ Due(t)' \/ t \in lost'
  PROVE  Settles(t)'
  BY DEF Settles

LEMMA SettleStill ==
  ASSUME TypeInv, NEW t \in Tasks, Settles(t),
         \/ \E u \in Tasks : SenderStep(u)
         \/ AdminStep \/ Tick \/ UNCHANGED vars
  PROVE  Settles(t)'
  <1>0. /\ sender \in [Tasks -> {"none", "delay", "kiq", "done"}]
        /\ record \in [Tasks -> Statuses]
    BY DEF TypeInv, TypeOK
  <1>1. (Due(t) => Due(t)') /\ (Busy(t, Unsettled) => Busy(t, Unsettled)')
    BY StillShape, StillKeeps, BusyStill
  <1>2. ASSUME NEW u \in Tasks, SenderStep(u) PROVE Settles(t)'
    <2>1. CASE Send(u) \/ DelayedSend(u)
      <3>1. /\ lost' = lost /\ raced' = raced
            /\ t = u => sender'[t] \in {"delay", "kiq"}
            /\ t # u => sender'[t] = sender[t] /\ record'[t] = record[t]
        BY <1>0, <2>1 DEF Send, DelayedSend, SetStatus, history
      <3> QED
        BY <1>1, <3>1, SettleFrame DEF Settles
    <2>2. ASSUME NEW v \in Tasks, RetryTask(u, v) PROVE Settles(t)'
      <3>1. /\ lost' = lost /\ raced' = raced
            /\ t = v => sender'[t] = "kiq"
            /\ t # v => sender'[t] = sender[t] /\ record'[t] = record[t]
        BY <1>0, <2>2 DEF RetryTask, SetStatus, history
      <3> QED
        BY <1>1, <3>1, SettleFrame DEF Settles
    <2>3. CASE Kiq(u)
      <3>1. /\ lost' = lost /\ raced' = raced /\ record' = record
            /\ t # u => sender'[t] = sender[t]
        BY <1>0, <2>3 DEF Kiq, history
      <3>2. Due(u)'
        <4>1. Added(u)
          BY <2>3, AddShape, TaskiqQueueAssumption DEF Kiq
        <4> QED
          BY <4>1 DEF Added, Due, Unused
      <3> QED
        BY <1>1, <3>1, <3>2, SettleFrame DEF Settles
    <2>4. CASE KiqFails(u)
      <3>1. /\ lost' = lost /\ raced' = raced
            /\ t = u => record'[t] = "enqueue_failed"
            /\ t # u => sender'[t] = sender[t] /\ record'[t] = record[t]
        BY <1>0, <2>4 DEF KiqFails, SetStatus, history
      <3> QED
        BY <1>1, <3>1, SettleFrame DEF Settles, Terminal
    <2>5. CASE SenderDies(u)
      <3>1. /\ lost' = lost \cup {u} /\ raced' = raced /\ record' = record
            /\ t # u => sender'[t] = sender[t]
        BY <1>0, <2>5 DEF SenderDies
      <3> QED
        BY <1>1, <3>1, SettleFrame DEF Settles
    <2> QED
      BY <1>2, <2>1, <2>2, <2>3, <2>4, <2>5 DEF SenderStep
  <1>3. CASE UpsertWrites
    <2>1. /\ lost' = lost /\ raced \subseteq raced' /\ sender' = sender
          /\ record'[t] = record[t] \/ t \in raced'
      BY <1>0, <1>3 DEF UpsertWrites, SetStatus
    <2> QED
      BY <1>1, <2>1, SettleFrame DEF Settles
  <1>4. CASE UNCHANGED <<sender, record, lost, raced>>
    BY <1>1, <1>4, SettleFrame
  <1>5. \/ \E u \in Tasks : SenderStep(u)
        \/ UpsertWrites \/ UNCHANGED <<sender, record, lost, raced>>
    BY DEF AdminStep, RequestCancel, SetMarker, UpsertReads, Tick, vars, sending, history
  <1> QED
    BY <1>2, <1>3, <1>4, <1>5

LEMMA SettleWorker ==
  ASSUME TypeInv, NEW t \in Tasks, Settles(t), NEW s \in Slots, WorkerStep(s)
  PROVE  Settles(t)'
  <1>0. record \in [Tasks -> Statuses] /\ "free" \notin Unsettled
    BY DEF TypeInv, TypeOK, Unsettled
  <1>1. sender' = sender /\ raced' = raced /\ lost \subseteq lost'
    BY DEF WorkerStep, Proceed, Deliver, Redeliver, CheckCancelled, CheckFails, Prepare, SetStamp, Skip,
           ActorEnds, Finalize, RecordResult, Clear, Retry, Ack, PrepareFails,
           FinalizeFails, ClearKeepsMarker, WorkerDies, history, sending
  <1>2. CASE CheckCancelled(s)
    <2>1. PICK l : Move(s, l) /\ l = IF TaskOf(s) \in marker THEN "end" ELSE "prepare"
      BY <1>2, CheckShape
    <2>2. CASE TaskOf(s) = t
      <3>1. CASE TaskOf(s) \in marker
        <4>1. record'[t] = "cancelled"
          BY <1>0, <1>2, <2>2, <3>1 DEF CheckCancelled, SetStatus
        <4> QED
          BY <4>1 DEF Settles, Terminal
      <3>2. CASE TaskOf(s) \notin marker
        <4>1. Busy(t, Unsettled)'
          BY <2>1, <2>2, <3>2, BusyMoved DEF Unsettled
        <4> QED
          BY <4>1 DEF Settles
      <3> QED
        BY <3>1, <3>2
    <2>3. CASE TaskOf(s) # t
      <3>1. record'[t] = record[t]
        BY <1>0, <1>2, <2>3 DEF CheckCancelled, BeginRun, SetStatus
      <3>2. Busy(t, Unsettled) => Busy(t, Unsettled)'
        BY <1>0, <2>1, <2>3, BusyStays
      <3> QED
        BY <1>1, <2>1, <3>1, <3>2, MoveKeeps, SettleFrame
    <2> QED
      BY <2>2, <2>3
  <1>a. CASE CheckFails(s)
    <2>1. Move(s, "prepare")
      BY <1>a, CheckFailsShape
    <2>2. CASE TaskOf(s) = t
      <3>1. Busy(t, Unsettled)'
        BY <2>1, <2>2, BusyMoved DEF Unsettled
      <3> QED
        BY <3>1 DEF Settles
    <2>3. CASE TaskOf(s) # t
      <3>1. record'[t] = record[t]
        BY <1>0, <1>a, <2>3 DEF CheckFails, BeginRun, SetStatus
      <3>2. Busy(t, Unsettled) => Busy(t, Unsettled)'
        BY <1>0, <2>1, <2>3, BusyStays
      <3> QED
        BY <1>1, <2>1, <3>1, <3>2, MoveKeeps, SettleFrame
    <2> QED
      BY <2>2, <2>3
  <1>3. CASE Skip(s) \/ RecordResult(s)
    <2>1. PICK l : Move(s, l)
      BY <1>3, RunShape
    <2>2. CASE TaskOf(s) = t
      <3>1. CASE Skip(s)
        <4>1. record'[t] = "skipped"
          BY <1>0, <2>2, <3>1 DEF Skip, SetStatus
        <4> QED
          BY <4>1 DEF Settles, Terminal
      <3>2. CASE RecordResult(s)
        <4>1. exec[s].result \in {"success", "error", "cancelled", "timeout"}
          BY <3>2 DEF RecordResult, TypeInv, TypeOK, FlowInv, EntryInv, Execution, Results, At
        <4>2. record'[t] \in {"success", "error", "cancelled"}
          BY <1>0, <2>2, <3>2, <4>1 DEF RecordResult, SetStatus
        <4> QED
          BY <4>2 DEF Settles, Terminal
      <3> QED
        BY <1>3, <3>1, <3>2
    <2>3. CASE TaskOf(s) # t
      <3>1. record'[t] = record[t]
        BY <1>0, <1>3, <2>3 DEF Skip, RecordResult, SetStatus
      <3>2. Busy(t, Unsettled) => Busy(t, Unsettled)'
        BY <1>0, <2>1, <2>3, BusyStays
      <3> QED
        BY <1>1, <2>1, <3>1, <3>2, MoveKeeps, SettleFrame
    <2> QED
      BY <2>2, <2>3
  <1>4. ASSUME record' = record,
               Due(t) => Due(t)' \/ Busy(t, Unsettled)',
               Busy(t, Unsettled) => Busy(t, Unsettled)' \/ Due(t)' \/ t \in lost'
        PROVE  Settles(t)'
    BY <1>1, <1>4, SettleFrame
  <1>5. CASE \/ Prepare(s) \/ SetStamp(s) \/ PrepareFails(s)
             \/ Finalize(s) \/ FinalizeFails(s)
             \/ \E result \in Results \ {"none"} : ActorEnds(s, result)
    <2>1. PICK l \in Unsettled : Move(s, l)
      BY <1>5, PrepareShape, SetStampShape, RunShape, EndShape DEF Unsettled
    <2>2. record' = record
      BY <1>5 DEF Prepare, SetStamp, PrepareFails, Finalize, FinalizeFails, ActorEnds, sending
    <2> QED
      BY <1>0, <1>4, <2>1, <2>2, MoveKeeps, BusyWithin
  <1>6. CASE Clear(s) \/ ClearKeepsMarker(s) \/ Retry(s)
    <2>1. PICK l : Move(s, l)
      BY <1>6, RunShape, RetryShape
    <2>2. record' = record /\ exec[s].pc \notin Unsettled
      BY <1>6 DEF Clear, ClearKeepsMarker, Retry, sending, At, Unsettled
    <2> QED
      BY <1>0, <1>4, <2>1, <2>2, MoveKeeps, BusyStays
  <1>7. CASE \E m \in Msgs : Deliver(s, m) \/ Redeliver(s, m)
    <2>1. PICK m \in Msgs : Start(s, m)
      BY <1>7, StartShape
    <2>2. record' = record /\ exec[s].pc \notin Unsettled
      BY <1>0, <1>7 DEF Deliver, Redeliver, sending, At
    <2>3. Busy(t, {"check"})' => Busy(t, Unsettled)'
      BY DEF Busy, Unsettled
    <2> QED
      BY <1>0, <1>4, <2>1, <2>2, <2>3, StartKeeps, BusyStays
  <1>8. CASE Ack(s)
    <2>1. record' = record /\ exec[s].pc \notin Unsettled /\ Leave(s)
      BY <1>8, LeaveShape DEF Ack, sending, At, Unsettled
    <2> QED
      BY <1>0, <1>4, <2>1, LeaveKeeps, BusyStays
  <1>9. CASE WorkerDies(s)
    <2>1. record' = record /\ Leave(s)
      BY <1>9, LeaveShape DEF WorkerDies, sending
    <2>2. CASE TaskOf(s) = t
      BY <1>4, <1>9, <2>1, <2>2, LeaveKeeps, DiesDue
    <2>3. CASE TaskOf(s) # t
      BY <1>0, <1>4, <2>1, <2>3, LeaveKeeps, BusyStays
    <2> QED
      BY <2>2, <2>3
  <1> QED
    BY <1>a, <1>2, <1>3, <1>5, <1>6, <1>7, <1>8, <1>9 DEF WorkerStep, Proceed

(* A record that is not final has somebody left to write it.               *)
THEOREM RecordInvariant == Spec => [](TypeInv /\ RecordInv)
  <1>1. Init => RecordInv
    BY DEF Init, RecordInv
  <1>2. TypeInv /\ RecordInv /\ [Next]_vars => RecordInv'
    <2> SUFFICES ASSUME TypeInv, RecordInv, [Next]_vars, NEW t \in Tasks
                 PROVE  Settles(t)'
      BY DEF RecordInv, Settles
    <2>1. Settles(t)
      BY DEF RecordInv, Settles
    <2> QED
      BY <2>1, SettleStill, SettleWorker DEF Next
  <1> QED
    BY <1>1, <1>2, TypeInvariant, PTL DEF Spec

(* Nothing is due and nobody is busy with a task that is over.             *)
LEMMA OverIdle ==
  ASSUME NEW t, Over(t)
  PROVE  ~Due(t) /\ \A L : ~Busy(t, L)
  BY DEF Over, Due, Busy

(* When everything about a task is over its record is final, unless its    *)
(* sender or a second execution died or a cancellation's upsert put an     *)
(* older status back.                                                      *)
THEOREM RecordsSettle == Spec => []RecordSettles
  <1>1. RecordInv => RecordSettles
    <2> SUFFICES ASSUME RecordInv, NEW t \in Tasks, Over(t)
                 PROVE  record[t] \in Terminal \/ t \in lost \cup raced
      BY DEF RecordSettles
    <2>1. sender[t] = "done"
      BY DEF Over
    <2> QED
      BY <2>1, OverIdle DEF RecordInv
  <1> QED
    BY <1>1, RecordInvariant, PTL

(***************************************************************************)
(* The set of running tasks settles                                        *)
(***************************************************************************)

(* What RunningInv says of one task.                                       *)
Leaves(t) ==
    \/ t \notin running \/ t \in lost \/ Busy(t, Listed)
    \/ t \in orphaned /\ (Due(t) \/ Busy(t, {"check"}) \/ t \in marker)

LEMMA LeavesFrame ==
  ASSUME NEW t, Leaves(t), t \in running' => t \in running,
         lost \subseteq lost', orphaned \subseteq orphaned',
         t \in marker => t \in marker',
         Due(t) => Due(t)' \/ Busy(t, {"check"})',
         Busy(t, Listed) => Busy(t, Listed)',
         Busy(t, {"check"}) => Busy(t, {"check"})'
  PROVE  Leaves(t)'
  BY DEF Leaves

LEMMA LeavesStill ==
  ASSUME TypeInv, NEW t \in Tasks, Leaves(t),
         \/ \E u \in Tasks : SenderStep(u)
         \/ AdminStep \/ Tick \/ UNCHANGED vars
  PROVE  Leaves(t)'
  <1>1. /\ Due(t) => Due(t)'
        /\ Busy(t, Listed) => Busy(t, Listed)'
        /\ Busy(t, {"check"}) => Busy(t, {"check"})'
    BY StillShape, StillKeeps, BusyStill
  <1>2. /\ running' = running /\ orphaned' = orphaned
        /\ lost \subseteq lost' /\ marker \subseteq marker'
    BY DEF SenderStep, Send, RetryTask, DelayedSend, Kiq, KiqFails, SenderDies, AdminStep,
           RequestCancel, SetMarker, UpsertReads, UpsertWrites, Tick, vars, history
  <1> QED
    BY <1>1, <1>2, LeavesFrame

LEMMA LeavesWorker ==
  ASSUME TypeInv, NEW t \in Tasks, Leaves(t), NEW s \in Slots, WorkerStep(s)
  PROVE  Leaves(t)'
  <1>0. "free" \notin Listed /\ "free" \notin {"check"} /\ "check" \notin Listed
    BY DEF Listed
  <1>1. lost \subseteq lost' /\ orphaned \subseteq orphaned'
    BY DEF WorkerStep, Proceed, Deliver, Redeliver, CheckCancelled, CheckFails, Prepare, SetStamp, Skip,
           ActorEnds, Finalize, RecordResult, Clear, Retry, Ack, PrepareFails,
           FinalizeFails, ClearKeepsMarker, WorkerDies, history, sending
  <1>2. ASSUME t \in running' => t \in running, t \in marker => t \in marker',
               Due(t) => Due(t)' \/ Busy(t, {"check"})',
               Busy(t, Listed) => Busy(t, Listed)',
               Busy(t, {"check"}) => Busy(t, {"check"})'
        PROVE  Leaves(t)'
    BY <1>1, <1>2, LeavesFrame
  <1>3. CASE CheckCancelled(s)
    <2>1. PICK l : Move(s, l) /\ l = IF TaskOf(s) \in marker THEN "end" ELSE "prepare"
      BY <1>3, CheckShape
    <2>2. Due(t) => Due(t)'
      BY <2>1, MoveKeeps
    <2>3. exec[s].pc \notin Listed /\ marker' = marker
      BY <1>0, <1>3 DEF CheckCancelled, At
    <2>4. Busy(t, Listed) => Busy(t, Listed)'
      BY <1>0, <2>1, <2>3, BusyStays
    <2>5. CASE TaskOf(s) = t /\ t \in marker
      <3>1. running' = running
        BY <1>3, <2>5 DEF CheckCancelled
      <3> QED
        BY <1>1, <2>3, <2>4, <2>5, <3>1 DEF Leaves
    <2>6. CASE TaskOf(s) = t /\ t \notin marker
      <3>1. Busy(t, Listed)'
        BY <2>1, <2>6, BusyMoved DEF Listed
      <3> QED
        BY <3>1 DEF Leaves
    <2>7. CASE TaskOf(s) # t
      <3>1. t \in running' => t \in running
        BY <1>3, <2>7 DEF CheckCancelled, BeginRun
      <3>2. Busy(t, {"check"}) => Busy(t, {"check"})'
        BY <1>0, <2>1, <2>7, BusyStays
      <3> QED
        BY <1>2, <2>2, <2>3, <2>4, <3>1, <3>2
    <2> QED
      BY <2>5, <2>6, <2>7
  <1>a. CASE CheckFails(s)
    <2>1. Move(s, "prepare")
      BY <1>a, CheckFailsShape
    <2>2. CASE TaskOf(s) = t
      <3>1. Busy(t, Listed)'
        BY <2>1, <2>2, BusyMoved DEF Listed
      <3> QED
        BY <3>1 DEF Leaves
    <2>3. CASE TaskOf(s) # t
      <3>1. (t \in running' => t \in running) /\ marker' = marker
        BY <1>a, <2>3 DEF CheckFails, BeginRun
      <3>2. /\ Busy(t, Listed) => Busy(t, Listed)'
            /\ Busy(t, {"check"}) => Busy(t, {"check"})'
        BY <1>0, <2>1, <2>3, BusyStays
      <3> QED
        BY <1>2, <2>1, <3>1, <3>2, MoveKeeps
    <2> QED
      BY <2>2, <2>3
  <1>4. CASE Skip(s) \/ Clear(s) \/ ClearKeepsMarker(s)
    <2>1. PICK l : Move(s, l)
      BY <1>4, RunShape
    <2>2. CASE TaskOf(s) = t
      <3>1. t \notin running'
        BY <1>4, <2>2 DEF Skip, Clear, ClearKeepsMarker
      <3> QED
        BY <3>1 DEF Leaves
    <2>3. CASE TaskOf(s) # t
      <3>1. (t \in running' => t \in running) /\ (t \in marker => t \in marker')
        BY <1>4, <2>3 DEF Skip, Clear, ClearKeepsMarker
      <3>2. /\ Busy(t, Listed) => Busy(t, Listed)'
            /\ Busy(t, {"check"}) => Busy(t, {"check"})'
        BY <1>0, <2>1, <2>3, BusyStays
      <3> QED
        BY <1>2, <2>1, <3>1, <3>2, MoveKeeps
    <2> QED
      BY <2>2, <2>3
  <1>5. CASE \/ Prepare(s) \/ SetStamp(s) \/ PrepareFails(s) \/ RecordResult(s)
             \/ Finalize(s) \/ FinalizeFails(s)
             \/ \E result \in Results \ {"none"} : ActorEnds(s, result)
    <2>1. PICK l \in Listed : Move(s, l)
      BY <1>5, PrepareShape, SetStampShape, RunShape, EndShape DEF Listed
    <2>2. running' = running /\ marker' = marker /\ exec[s].pc # "check"
      BY <1>5 DEF Prepare, SetStamp, PrepareFails, RecordResult, Finalize, FinalizeFails,
                  ActorEnds, At
    <2>3. Busy(t, Listed) => Busy(t, Listed)'
      BY <1>0, <2>1, BusyWithin
    <2>4. Busy(t, {"check"}) => Busy(t, {"check"})'
      BY <1>0, <2>1, <2>2, BusyStays
    <2> QED
      BY <1>2, <2>1, <2>2, <2>3, <2>4, MoveKeeps
  <1>6. CASE Retry(s)
    <2>1. Move(s, "ack") /\ exec[s].pc = "end" /\ running' = running /\ marker' = marker
      BY <1>6, RetryShape DEF Retry, At
    <2>2. /\ Busy(t, Listed) => Busy(t, Listed)'
          /\ Busy(t, {"check"}) => Busy(t, {"check"})'
      BY <1>0, <2>1, BusyStays DEF Listed
    <2> QED
      BY <1>2, <2>1, <2>2, MoveKeeps
  <1>7. CASE \E m \in Msgs : Deliver(s, m) \/ Redeliver(s, m)
    <2>1. PICK m \in Msgs : Start(s, m)
      BY <1>7, StartShape
    <2>2. running' = running /\ marker' = marker /\ exec[s].pc = "free"
      BY <1>7 DEF Deliver, Redeliver, At
    <2>3. /\ Busy(t, Listed) => Busy(t, Listed)'
          /\ Busy(t, {"check"}) => Busy(t, {"check"})'
      BY <1>0, <2>1, <2>2, BusyStays
    <2> QED
      BY <1>2, <2>1, <2>2, <2>3, StartKeeps
  <1>8. CASE Ack(s)
    <2>1. Leave(s) /\ exec[s].pc = "ack" /\ running' = running /\ marker' = marker
      BY <1>8, LeaveShape DEF Ack, At
    <2>2. /\ Busy(t, Listed) => Busy(t, Listed)'
          /\ Busy(t, {"check"}) => Busy(t, {"check"})'
      BY <1>0, <2>1, BusyStays DEF Listed
    <2> QED
      BY <1>2, <2>1, <2>2, LeaveKeeps
  <1>9. CASE WorkerDies(s)
    <2>1. Leave(s) /\ running' = running /\ marker' = marker
      BY <1>9, LeaveShape DEF WorkerDies
    <2>2. CASE TaskOf(s) = t
      <3>1. t \in orphaned'
        BY <1>9, <2>2 DEF WorkerDies
      <3> QED
        BY <1>9, <2>2, <3>1, DiesDue DEF Leaves
    <2>3. CASE TaskOf(s) # t
      <3>1. /\ Busy(t, Listed) => Busy(t, Listed)'
            /\ Busy(t, {"check"}) => Busy(t, {"check"})'
        BY <1>0, <2>1, <2>3, BusyStays
      <3> QED
        BY <1>2, <2>1, <3>1, LeaveKeeps
    <2> QED
      BY <2>2, <2>3
  <1> QED
    BY <1>a, <1>3, <1>4, <1>5, <1>6, <1>7, <1>8, <1>9 DEF WorkerStep, Proceed

(* A task in the set of running ones has somebody left to remove it.       *)
THEOREM RunningInvariant == Spec => [](TypeInv /\ RunningInv)
  <1>1. Init => RunningInv
    BY DEF Init, RunningInv
  <1>2. TypeInv /\ RunningInv /\ [Next]_vars => RunningInv'
    <2> SUFFICES ASSUME TypeInv, RunningInv, [Next]_vars, NEW t \in running'
                 PROVE  Leaves(t)'
      BY DEF RunningInv, Leaves
    <2>1. t \in Tasks
      BY TypeStep DEF TypeInv, TypeOK
    <2>2. Leaves(t)
      BY DEF RunningInv, Leaves
    <2> QED
      BY <2>1, <2>2, LeavesStill, LeavesWorker DEF Next
  <1> QED
    BY <1>1, <1>2, TypeInvariant, PTL DEF Spec

(* When everything about a task is over it is not listed as running,       *)
(* unless an execution of it died and its entry had been acknowledged by   *)
(* another, or the redelivered entry met the cancellation marker.          *)
THEOREM RunningSetSettles == Spec => []RunningSettles
  <1>1. RunningInv => RunningSettles
    BY OverIdle DEF RunningInv, RunningSettles
  <1> QED
    BY <1>1, RunningInvariant, PTL
=============================================================================
