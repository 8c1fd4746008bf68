----------------------- MODULE BackgroundSearchProofs -----------------------
(***************************************************************************)
(* Proofs about the background search, for every set of titles, every      *)
(* number of executions active together, every batch size and interval.    *)
(***************************************************************************)
EXTENDS BackgroundSearch, CountingLemmas, TLAPS

(***************************************************************************)
(* Type correctness                                                        *)
(***************************************************************************)

(* An execution holds an item exactly while it is at work on one; an idle  *)
(* one has no batch, the size of a batch is a number, and there is room in *)
(* it as long as the scan goes on.                                         *)
AtItem == {"scrape", "record", "remove", "finish"}

WellFormed(x) ==
    /\ x.item # NoItem <=> x.pc \in AtItem
    /\ x.pc = "idle" => x.due = {}
    /\ IsFiniteSet(x.due) /\ Cardinality(x.due) <= BatchSize
    /\ x.pc = "scan" => Cardinality(x.due) < BatchSize

TypeInv == TypeOK /\ \A r \in Runs : WellFormed(run[r])

LEMMA OlderType ==
  ASSUME NEW a \in Ages
  PROVE  /\ Older(a) \in Ages /\ Older(a) >= a /\ Interval \in Ages /\ 0 \in Ages
         /\ (a = Interval => Older(a) = Interval)
  BY BackgroundSearchAssumption DEF Ages, Older

(* Older is monotone.                                                      *)
LEMMA OlderMonotone ==
  ASSUME NEW a \in Ages, NEW b \in Ages, a <= b
  PROVE  Older(a) <= Older(b)
  BY BackgroundSearchAssumption DEF Ages, Older

LEMMA IdleType == Idle \in Run /\ WellFormed(Idle) /\ Idle.due = {}
  <1>1. Idle \in Run
    BY OlderType, BackgroundSearchAssumption DEF Idle, Run, PCs, Ages
  <1>2. Idle.due = {} /\ Idle.pc = "idle"
    BY DEF Idle
  <1>3. Idle.item = NoItem
    BY DEF Idle
  <1> QED
    BY <1>1, <1>2, <1>3, FS_EmptySet, BackgroundSearchAssumption DEF WellFormed, AtItem

(* Two records of an execution agree on all but the program counter.       *)
Kept(x, y) ==
    /\ x.age = y.age /\ x.todo = y.todo /\ x.due = y.due /\ x.item = y.item

(* Going on with the scan, or ending it, changes nothing else.             *)
LEMMA OnwardType ==
  ASSUME NEW x \in Run, IsFiniteSet(x.due), Cardinality(x.due) <= BatchSize,
         x.item = NoItem
  PROVE  /\ Onward(x) \in Run /\ WellFormed(Onward(x))
         /\ Onward(x).due = x.due /\ Onward(x).item = x.item /\ Onward(x).age = x.age
         /\ Onward(x).todo \subseteq x.todo /\ Onward(x).pc \in {"scan", "next"}
  <1>0. Cardinality(x.due) \in Nat /\ BatchSize \in Nat
    BY SubsetCount, BackgroundSearchAssumption
  <1>1. CASE x.todo = {} \/ Cardinality(x.due) >= BatchSize
    <2> DEFINE y == [x EXCEPT !.pc = "next", !.todo = {}]
    <2>1. y \in Run /\ y.due = x.due /\ y.item = x.item /\ y.age = x.age
          /\ y.todo = {} /\ y.pc = "next"
      BY DEF Run, PCs
    <2>2. Onward(x) = y
      BY <1>1 DEF Onward
    <2> HIDE DEF y
    <2> QED
      BY <2>1, <2>2 DEF WellFormed, AtItem
  <1>2. CASE ~(x.todo = {} \/ Cardinality(x.due) >= BatchSize)
    <2> DEFINE y == [x EXCEPT !.pc = "scan"]
    <2>1. y \in Run /\ y.due = x.due /\ y.item = x.item /\ y.age = x.age
          /\ y.todo = x.todo /\ y.pc = "scan"
      BY DEF Run, PCs
    <2>2. Onward(x) = y
      BY <1>2 DEF Onward
    <2>3. Cardinality(x.due) < BatchSize
      BY <1>0, <1>2
    <2> HIDE DEF y
    <2> QED
      BY <2>1, <2>2, <2>3 DEF WellFormed, AtItem
  <1> QED
    BY <1>1, <1>2

(***************************************************************************)
(* What the steps of an execution do to it                                 *)
(***************************************************************************)

LEMMA BecomeOne ==
  ASSUME TypeOK, NEW r \in Runs, NEW x, Become(r, x)
  PROVE  run'[r] = x /\ \A s \in Runs \ {r} : run'[s] = run[s]
  BY DEF TypeOK, Become

(* An execution becomes another well formed one.                           *)
LEMMA BecomeType ==
  ASSUME TypeInv, NEW r \in Runs, NEW x \in Run, Become(r, x), WellFormed(x)
  PROVE  run' \in [Runs -> Run] /\ \A s \in Runs : WellFormed(run'[s])
  <1>1. run'[r] = x /\ \A s \in Runs \ {r} : run'[s] = run[s]
    BY BecomeOne DEF TypeInv
  <1> QED
    BY <1>1 DEF TypeInv, TypeOK, Become

LEMMA GotoMove ==
  ASSUME TypeInv, NEW r \in Runs, run[r].pc \in AtItem, NEW l \in AtItem, Goto(r, l)
  PROVE  /\ run'[r].pc = l /\ Kept(run'[r], run[r])
         /\ \A s \in Runs \ {r} : run'[s] = run[s]
         /\ run' \in [Runs -> Run] /\ \A s \in Runs : WellFormed(run'[s])
  <1> DEFINE x == [run[r] EXCEPT !.pc = l]
  <1>1. run[r] \in Run /\ WellFormed(run[r])
    BY DEF TypeInv, TypeOK
  <1>2. x \in Run /\ x.pc = l /\ Kept(x, run[r])
    BY <1>1 DEF Run, Kept, PCs, AtItem
  <1>3. Become(r, x)
    BY DEF Goto
  <1> HIDE DEF x
  <1>4. WellFormed(x)
    BY <1>1, <1>2 DEF WellFormed, Kept, AtItem
  <1> QED
    BY <1>2, <1>3, <1>4, BecomeOne, BecomeType DEF TypeInv

(* The entries that an execution finds due.                                *)
LEMMA BeginMove ==
  ASSUME TypeInv, NEW r \in Runs, Begin(r)
  PROVE  /\ run'[r].pc \in {"scan", "next"} /\ run'[r].item = NoItem /\ run'[r].due = {}
         /\ \A i \in run'[r].todo : queue[i] = Interval
         /\ \A s \in Runs \ {r} : run'[s] = run[s]
         /\ run' \in [Runs -> Run] /\ \A s \in Runs : WellFormed(run'[s])
  <1>1. PICK hashes \in {Items, Movies, Items \ Movies, {}} :
          Become(r, Onward([Idle EXCEPT !.todo = {i \in hashes : queue[i] = Interval}]))
    BY DEF Begin
  <1> DEFINE t == {i \in hashes : queue[i] = Interval}
             x == [Idle EXCEPT !.todo = t]
  <1>2. t \subseteq Items
    BY BackgroundSearchAssumption
  <1> HIDE DEF t
  <1>3. x \in Run /\ x.due = {} /\ x.item = NoItem /\ x.todo = t
    BY <1>2, IdleType DEF Run, Idle
  <1>4. Become(r, Onward(x))
    BY <1>1 DEF t
  <1> HIDE DEF x
  <1>5. IsFiniteSet(x.due) /\ Cardinality(x.due) <= BatchSize
    BY <1>3, FS_EmptySet, BackgroundSearchAssumption
  <1>6. /\ Onward(x) \in Run /\ WellFormed(Onward(x))
        /\ Onward(x).due = {} /\ Onward(x).item = NoItem
        /\ Onward(x).todo \subseteq t /\ Onward(x).pc \in {"scan", "next"}
    BY <1>3, <1>5, OnwardType
  <1>7. \A i \in t : queue[i] = Interval
    BY DEF t
  <1> QED
    BY <1>4, <1>6, <1>7, BecomeOne, BecomeType DEF TypeInv

(* An entry that the scan takes into the batch was found free, or Redis    *)
(* could not tell.                                                         *)
LEMMA ScanMove ==
  ASSUME TypeInv, NEW r \in Runs, Scan(r)
  PROVE  /\ run[r].pc = "scan" /\ run'[r].pc \in {"scan", "next"}
         /\ run'[r].item = run[r].item /\ run'[r].todo \subseteq run[r].todo
         /\ run'[r].due \subseteq
              run[r].due \cup {i \in run[r].todo : i \notin processing \/ i \in slipped'}
         /\ \A s \in Runs \ {r} : run'[s] = run[s]
         /\ run' \in [Runs -> Run] /\ \A s \in Runs : WellFormed(run'[s])
         /\ faults' \in 0..MaxFaults /\ slipped' \subseteq Items /\ kept' = kept
         /\ slipped \subseteq slipped'
  <1>0. /\ run[r] \in Run /\ WellFormed(run[r]) /\ run[r].pc = "scan"
        /\ Cardinality(run[r].due) \in Nat /\ BatchSize \in Nat
        /\ IsFiniteSet(run[r].due) /\ Cardinality(run[r].due) < BatchSize
        /\ run[r].item = NoItem
    BY SubsetCount, BackgroundSearchAssumption
    DEF TypeInv, TypeOK, WellFormed, AtItem, Scan, At
  <1>1. PICK i \in Upcoming(run[r].todo) :
          LET x == [run[r] EXCEPT !.todo = @ \ {i}]
          IN  \/ Free(i) /\ Become(r, Onward([x EXCEPT !.due = @ \cup {i}]))
              \/ i \in processing /\ Answers /\ Become(r, Onward(x))
    BY DEF Scan
  <1>2. i \in run[r].todo /\ i \in Items
    BY <1>0, <1>1 DEF Upcoming, Run
  <1> DEFINE t == run[r].todo \ {i}
  <1>3. PICK d : /\ Become(r, Onward([run[r] EXCEPT !.todo = t, !.due = d]))
                 /\ \/ d = run[r].due /\ Answers
                    \/ d = run[r].due \cup {i} /\ Free(i)
    <2>1. CASE Become(r, Onward([run[r] EXCEPT !.todo = t])) /\ Answers
      <3>1. [run[r] EXCEPT !.todo = t] = [run[r] EXCEPT !.todo = t, !.due = run[r].due]
        BY <1>0 DEF Run
      <3> QED
        BY <2>1, <3>1
    <2>2. CASE Become(r, Onward([run[r] EXCEPT !.todo = t, !.due = run[r].due \cup {i}]))
               /\ Free(i)
      BY <2>2
    <2>3. [[run[r] EXCEPT !.todo = t] EXCEPT !.due = @ \cup {i}]
            = [run[r] EXCEPT !.todo = t, !.due = run[r].due \cup {i}]
      BY <1>0 DEF Run
    <2> QED
      BY <1>1, <2>1, <2>2, <2>3
  <1> DEFINE x == [run[r] EXCEPT !.todo = t, !.due = d]
  <1>4. /\ d \subseteq run[r].due \cup {i}
        /\ d \subseteq run[r].due \cup {j \in run[r].todo : j \notin processing \/ j \in slipped'}
        /\ faults' \in 0..MaxFaults /\ slipped' \subseteq Items /\ kept' = kept
        /\ slipped \subseteq slipped'
    <2>1. faults \in 0..MaxFaults /\ slipped \subseteq Items /\ MaxFaults \in Nat
      BY BackgroundSearchAssumption DEF TypeInv, TypeOK
    <2>2. CASE d = run[r].due /\ Answers
      BY <2>1, <2>2 DEF Answers
    <2>3. CASE d = run[r].due \cup {i} /\ Free(i)
      BY <1>2, <2>1, <2>3 DEF Free, Answers, Slips, Fault
    <2> QED
      BY <1>3, <2>2, <2>3
  <1>5. IsFiniteSet(d) /\ Cardinality(d) <= Cardinality(run[r].due) + 1
    BY <1>0, <1>4, AddCount
  <1>6. Cardinality(d) \in Nat
    BY <1>5, SubsetCount
  <1>7. Cardinality(d) <= BatchSize
    BY <1>0, <1>5, <1>6
  <1>8. x \in Run /\ x.due = d /\ x.item = run[r].item /\ x.todo = t
    BY <1>0, <1>2, <1>4 DEF Run
  <1>9. Become(r, Onward(x))
    BY <1>3
  <1> HIDE DEF x
  <1>10. /\ Onward(x) \in Run /\ WellFormed(Onward(x))
         /\ Onward(x).due = d /\ Onward(x).item = run[r].item
         /\ Onward(x).todo \subseteq t /\ Onward(x).pc \in {"scan", "next"}
    BY <1>0, <1>5, <1>7, <1>8, OnwardType
  <1> QED
    BY <1>0, <1>4, <1>9, <1>10, BecomeOne, BecomeType DEF TypeInv

LEMMA TakeMove ==
  ASSUME TypeInv, NEW r \in Runs, Take(r)
  PROVE  /\ \E i \in run[r].due :
              /\ i \in Items
              /\ \/ processing' = processing \cup {i} /\ Answers
                 \/ processing' = processing /\ Slips(i)
              /\ run'[r].pc \in {"scrape", "remove"} /\ run'[r].item = i
              /\ run'[r].due = run[r].due \ {i}
         /\ \A s \in Runs \ {r} : run'[s] = run[s]
         /\ run' \in [Runs -> Run] /\ \A s \in Runs : WellFormed(run'[s])
  <1>0. /\ run[r] \in Run /\ IsFiniteSet(run[r].due) /\ BatchSize \in Nat
        /\ Cardinality(run[r].due) <= BatchSize
    BY BackgroundSearchAssumption DEF TypeInv, TypeOK, WellFormed
  <1>1. PICK i \in run[r].due, step \in {"scrape", "remove"} :
          /\ \/ processing' = processing \cup {i} /\ Answers
             \/ processing' = processing /\ Slips(i)
          /\ Become(r, [run[r] EXCEPT !.pc = step, !.due = @ \ {i}, !.item = i])
    BY DEF Take
  <1> DEFINE d == run[r].due \ {i}
             x == [run[r] EXCEPT !.pc = step, !.due = d, !.item = i]
  <1>2. i \in Items /\ d \subseteq run[r].due
    BY <1>0 DEF Run
  <1>3. IsFiniteSet(d) /\ Cardinality(d) <= Cardinality(run[r].due)
        /\ Cardinality(d) \in Nat /\ Cardinality(run[r].due) \in Nat
    BY <1>0, <1>2, SubsetCount
  <1>4. x \in Run /\ x.due = d /\ x.item = i /\ x.pc = step
    BY <1>0, <1>1, <1>2 DEF Run, PCs
  <1>5. Become(r, x)
    BY <1>1
  <1> HIDE DEF x
  <1>6. WellFormed(x)
    BY <1>0, <1>1, <1>2, <1>3, <1>4, BackgroundSearchAssumption DEF WellFormed, AtItem
  <1> QED
    BY <1>1, <1>2, <1>4, <1>5, <1>6, BecomeOne, BecomeType DEF TypeInv

LEMMA UnmarkMove ==
  ASSUME TypeInv, NEW r \in Runs, Unmark(r)
  PROVE  /\ run'[r].pc = "next" /\ run'[r].item = NoItem /\ run'[r].due = run[r].due
         /\ \A s \in Runs \ {r} : run'[s] = run[s]
         /\ run' \in [Runs -> Run] /\ \A s \in Runs : WellFormed(run'[s])
  <1> DEFINE x == [run[r] EXCEPT !.pc = "next", !.item = NoItem]
  <1>1. run[r] \in Run /\ WellFormed(run[r])
    BY DEF TypeInv, TypeOK
  <1>2. x \in Run /\ x.due = run[r].due /\ x.pc = "next" /\ x.item = NoItem
    BY <1>1 DEF Run, PCs
  <1>3. Become(r, x)
    BY DEF Unmark
  <1> HIDE DEF x
  <1>4. WellFormed(x)
    BY <1>1, <1>2 DEF WellFormed, AtItem
  <1> QED
    BY <1>2, <1>3, <1>4, BecomeOne, BecomeType DEF TypeInv

LEMMA StopMove ==
  ASSUME TypeInv, NEW r \in Runs, Finish(r) \/ Cancelled(r) \/ Die(r)
  PROVE  /\ run'[r].pc = "idle" /\ run'[r].item = NoItem /\ run'[r].due = {}
         /\ \A s \in Runs \ {r} : run'[s] = run[s]
         /\ run' \in [Runs -> Run] /\ \A s \in Runs : WellFormed(run'[s])
  <1>1. Become(r, Idle) /\ Idle.pc = "idle" /\ Idle.item = NoItem /\ Idle.due = {}
    BY DEF Finish, Cancelled, Die, Idle
  <1> QED
    BY <1>1, IdleType, BecomeOne, BecomeType DEF TypeInv

(* The commands for the item in hand.                                      *)
Command(r) == Remove(r) \/ Scrape(r) \/ Record(r)

LEMMA CommandMove ==
  ASSUME TypeInv, NEW r \in Runs, Command(r)
  PROVE  /\ run[r].pc \in {"remove", "scrape", "record"}
         /\ run'[r].pc = (IF run[r].pc = "scrape" THEN "record" ELSE "finish")
         /\ Kept(run'[r], run[r]) /\ run[r].item \in Items
         /\ \A s \in Runs \ {r} : run'[s] = run[s]
         /\ run' \in [Runs -> Run] /\ \A s \in Runs : WellFormed(run'[s])
         /\ processing' = processing
  <1>1. run[r].pc \in {"remove", "scrape", "record"} /\ {"record", "finish"} \subseteq AtItem
    BY DEF Command, Remove, Scrape, Record, At, AtItem
  <1>2. run[r].item \in Items /\ run[r].pc \in AtItem
    BY <1>1 DEF TypeInv, TypeOK, WellFormed, Run, AtItem
  <1> QED
    BY <1>1, <1>2, GotoMove DEF Command, Remove, Scrape, Record, At

(***************************************************************************)
(* Types                                                                   *)
(***************************************************************************)

(* What a command can do to the record of the faults.                      *)
LEMMA FaultType ==
  ASSUME TypeOK, NEW i \in Items,
         Answers \/ Fails \/ Slips(i) \/ Keeps(i)
         \/ (Fault /\ UNCHANGED <<slipped, kept>>)
  PROVE  /\ faults' \in 0..MaxFaults /\ slipped' \subseteq Items /\ kept' \subseteq Items
         /\ slipped \subseteq slipped' /\ kept \subseteq kept'
  BY BackgroundSearchAssumption DEF TypeOK, Answers, Fails, Slips, Keeps, Fault

LEMMA RunType ==
  ASSUME TypeInv, NEW r \in Runs,
         Begin(r) \/ Handler(r) \/ Cancelled(r) \/ Die(r)
  PROVE  TypeInv'
  <1>0. /\ run[r] \in Run /\ TypeOK /\ run[r].age \in Ages
        /\ faults \in Nat /\ MaxFaults \in Nat /\ faults <= MaxFaults
    BY BackgroundSearchAssumption DEF TypeInv, TypeOK, Run
  <1>1. CASE Begin(r)
    <2>1. /\ faults' \in 0..MaxFaults /\ UNCHANGED <<slipped, kept>> /\ met' \in BOOLEAN
      BY <1>0, <1>1 DEF Begin, Answers, Fails, Fault, TypeOK
    <2> QED
      BY <1>0, <1>1, <2>1, BeginMove DEF TypeInv, TypeOK, Begin, WellFormed
  <1>2. CASE Scan(r)
    BY <1>0, <1>2, ScanMove DEF TypeInv, TypeOK, Scan, WellFormed
  <1>3. CASE Take(r)
    <2>1. PICK i \in run[r].due :
            /\ i \in Items
            /\ \/ processing' = processing \cup {i} /\ Answers
               \/ processing' = processing /\ Slips(i)
      BY <1>3, TakeMove
    <2>2. /\ faults' \in 0..MaxFaults /\ slipped' \subseteq Items /\ kept' \subseteq Items
          /\ processing' \subseteq Items
      BY <1>0, <2>1, FaultType DEF TypeOK
    <2> QED
      BY <1>0, <1>3, <2>2, TakeMove DEF TypeInv, TypeOK, Take, WellFormed
  <1>4. CASE Finish(r) \/ Cancelled(r) \/ Die(r)
    <2>1. CASE Finish(r)
      BY <1>0, <2>1, StopMove DEF TypeInv, TypeOK, Finish, WellFormed
    <2>2. CASE Cancelled(r) \/ Die(r)
      <3>1. faults' \in 0..MaxFaults /\ UNCHANGED <<slipped, kept>>
        BY <1>0, <2>2 DEF Cancelled, Die, Fault
      <3>2. lost' \in BOOLEAN
        BY <1>0, <2>2, Zenon DEF Cancelled, Die, TypeOK
      <3> QED
        BY <1>0, <2>2, <3>1, <3>2, StopMove DEF TypeInv, TypeOK, Cancelled, Die, WellFormed
    <2> QED
      BY <1>4, <2>1, <2>2
  <1>5. CASE Command(r)
    <2>0. run[r].item \in Items
      BY <1>5, CommandMove
    <2>1. /\ faults' \in 0..MaxFaults /\ slipped' \subseteq Items /\ kept' \subseteq Items
      BY <1>0, <1>5, <2>0, FaultType DEF Command, Remove, Scrape, Record, Answers
    <2>2. /\ queue' \in [Items -> Ages \cup {NotQueued}] /\ since' \in [Items -> Ages]
      BY <1>0, <1>5 DEF TypeOK, Command, Remove, Scrape, Record
    <2> QED
      BY <1>0, <1>5, <2>0, <2>1, <2>2, CommandMove
      DEF TypeInv, TypeOK, Command, Remove, Scrape, Record, WellFormed
  <1>6. CASE Unmark(r)
    <2>1. run[r].item \in Items
      BY <1>0, <1>6 DEF TypeInv, WellFormed, AtItem, Unmark, At, Run
    <2>2. /\ faults' \in 0..MaxFaults /\ slipped' \subseteq Items /\ kept' \subseteq Items
          /\ processing' \subseteq Items
      BY <1>0, <1>6, <2>1, FaultType DEF Unmark, TypeOK
    <2> QED
      BY <1>0, <1>6, <2>2, UnmarkMove DEF TypeInv, TypeOK, Unmark, WellFormed
  <1> QED
    BY <1>1, <1>2, <1>3, <1>4, <1>5, <1>6 DEF Handler, Command

(* What a tick does to an execution.                                       *)
LEMMA TickRun ==
  ASSUME TypeOK, Tick, NEW r \in Runs
  PROVE  /\ run'[r].pc = run[r].pc
         /\ run'[r].todo = run[r].todo /\ run'[r].due = run[r].due
         /\ run'[r].item = run[r].item /\ run'[r] \in Run
         /\ run'[r].age \in {run[r].age, Older(run[r].age)}
  <1>1. run[r] \in Run /\ Older(run[r].age) \in Ages
    BY OlderType DEF TypeOK, Run
  <1>2. run'[r] = IF At(r, "idle") THEN run[r] ELSE [run[r] EXCEPT !.age = Older(@)]
    BY DEF Tick
  <1> QED
    BY <1>1, <1>2 DEF Run

LEMMA TypeStep == TypeInv /\ [Next]_vars => TypeInv'
  <1> SUFFICES ASSUME TypeInv, [Next]_vars PROVE TypeInv'
    OBVIOUS
  <1>1. ASSUME NEW i \in Items, Enqueue(i) PROVE TypeInv'
    <2>1. queue' \in [Items -> Ages \cup {NotQueued}] /\ since' \in [Items -> Ages]
      BY <1>1, OlderType, BackgroundSearchAssumption DEF TypeInv, TypeOK, Enqueue, Ages
    <2> QED
      BY <1>1, <2>1 DEF TypeInv, TypeOK, Enqueue
  <1>2. CASE Tick
    <2>1. queue' \in [Items -> Ages \cup {NotQueued}] /\ since' \in [Items -> Ages]
      BY <1>2, OlderType DEF TypeInv, TypeOK, Tick
    <2>2. run' \in [Runs -> Run]
      <3>1. run' = [r \in Runs |-> run'[r]]
        BY <1>2 DEF Tick
      <3> QED
        BY <1>2, <3>1, TickRun DEF TypeInv
    <2>3. \A r \in Runs : WellFormed(run'[r])
      BY <1>2, TickRun DEF TypeInv, WellFormed
    <2> QED
      BY <1>2, <2>1, <2>2, <2>3 DEF TypeInv, TypeOK, Tick
  <1>3. CASE UNCHANGED vars
    BY <1>3 DEF TypeInv, TypeOK, vars
  <1> QED
    BY <1>1, <1>2, <1>3, RunType DEF Next

LEMMA TypeInvariant == Spec => []TypeInv
  <1>1. ASSUME Init PROVE TypeInv
    <2>1. /\ queue \in [Items -> Ages \cup {NotQueued}] /\ processing \subseteq Items
          /\ slipped \subseteq Items /\ kept \subseteq Items
          /\ lost \in BOOLEAN /\ met \in BOOLEAN
      BY <1>1 DEF Init
    <2>2. since \in [Items -> Ages] /\ faults \in 0..MaxFaults
      BY <1>1, BackgroundSearchAssumption DEF Init, Ages
    <2>3. run \in [Runs -> Run] /\ \A r \in Runs : run[r] = Idle
      BY <1>1, IdleType DEF Init
    <2> QED
      BY <2>1, <2>2, <2>3, IdleType DEF TypeInv, TypeOK, WellFormed
  <1> QED
    BY <1>1, TypeStep, PTL DEF Spec

(* Every reachable state is well typed: no execution ever collects more    *)
(* than BATCH_SIZE items, and ages stay within the interval.               *)
THEOREM TypeCorrect == Spec => []TypeOK
  <1>1. TypeInv => TypeOK
    BY DEF TypeInv
  <1> QED
    BY <1>1, TypeInvariant, PTL

(***************************************************************************)
(* Who owns a mark                                                         *)
(***************************************************************************)

LEMMA MarksStep == TypeInv /\ MarksOwned /\ [Next]_vars => MarksOwned'
  <1> SUFFICES ASSUME TypeInv, MarksOwned, [Next]_vars,
                      NEW i \in processing', ~lost', i \notin kept'
               PROVE  \E r \in Runs : run'[r].item = i
    BY DEF MarksOwned, Working, Left
  <1>0. TypeOK /\ NoItem \notin processing'
    BY TypeStep, BackgroundSearchAssumption DEF TypeInv, TypeOK
  <1>1. i \in processing /\ ~lost /\ i \notin kept => \E s \in Runs : run[s].item = i
    BY DEF MarksOwned, Working, Left
  <1>2. CASE Tick \/ UNCHANGED <<run, processing, kept, lost>>
    <2>1. /\ i \in processing /\ ~lost /\ i \notin kept
          /\ \A s \in Runs : run'[s].item = run[s].item
      BY <1>0, <1>2, TickRun DEF Tick
    <2> QED
      BY <1>1, <2>1
  <1>3. ASSUME NEW r \in Runs, Begin(r) \/ Handler(r) \/ Cancelled(r)
        PROVE  \E s \in Runs : run'[s].item = i
    <2>0. ~lost /\ i \notin kept
      <3>1. lost' = lost
        BY <1>3 DEF Begin, Handler, Cancelled, Scan, Take, Finish, Remove, Scrape,
                    Record, Unmark
      <3>2. kept' = kept \/ \E j \in Items \cup {NoItem} : kept' = kept \cup {j}
        BY <1>3 DEF TypeInv, TypeOK, Run, Begin, Handler, Cancelled, Scan, Take, Finish,
                    Remove, Scrape, Record, Unmark, Answers, Fails, Slips, Keeps, Free
      <3> QED
        BY <3>1, <3>2
    <2>1. CASE Take(r)
      <3>1. run[r].item = NoItem
        BY <2>1 DEF Take, TypeInv, WellFormed, At, AtItem
      <3>2. PICK j \in run[r].due :
              /\ processing' \in {processing, processing \cup {j}} /\ run'[r].item = j
              /\ \A s \in Runs \ {r} : run'[s] = run[s]
        BY <2>1, TakeMove
      <3>3. CASE i = j
        BY <3>2, <3>3
      <3>4. CASE i \in processing
        BY <1>0, <1>1, <2>0, <3>1, <3>2, <3>4
      <3> QED
        BY <3>2, <3>3, <3>4
    <2>2. CASE Unmark(r)
      <3>1. i \in processing /\ i # run[r].item
        BY <2>2 DEF Unmark, Keeps
      <3> QED
        BY <1>0, <1>1, <2>0, <2>2, <3>1, UnmarkMove
    <2>3. CASE Begin(r) \/ Finish(r) \/ Cancelled(r)
      <3>1. i \in processing /\ run[r].item = NoItem
        BY <2>3 DEF Begin, Finish, Cancelled, TypeInv, WellFormed, At, AtItem
      <3>2. \A s \in Runs \ {r} : run'[s] = run[s]
        BY <2>3, BeginMove, StopMove
      <3> QED
        BY <1>0, <1>1, <2>0, <3>1, <3>2
    <2>4. CASE Scan(r) \/ Command(r)
      <3>1. i \in processing
        BY <2>4, CommandMove DEF Scan
      <3>2. run'[r].item = run[r].item /\ \A s \in Runs \ {r} : run'[s] = run[s]
        BY <2>4, ScanMove, CommandMove DEF Kept
      <3> QED
        BY <1>1, <2>0, <3>1, <3>2
    <2> QED
      BY <1>3, <2>1, <2>2, <2>3, <2>4 DEF Handler, Command
  <1>4. \/ Tick \/ UNCHANGED <<run, processing, kept, lost>>
        \/ \E r \in Runs : Begin(r) \/ Handler(r) \/ Cancelled(r)
    BY DEF Next, vars, Enqueue, Die
  <1> QED
    BY <1>2, <1>3, <1>4

(* Unless a worker process has died or the SREM of the mark has failed,    *)
(* every mark of the processing set belongs to an execution that is at work*)
(* on the item, whatever the number of executions that SADD and SREM the   *)
(* same item and whatever other commands fail.                             *)
THEOREM MarksAreOwned == Spec => []MarksOwned
  <1>1. Init => MarksOwned
    BY DEF Init, MarksOwned
  <1> QED
    BY <1>1, TypeInvariant, MarksStep, PTL DEF Spec

(***************************************************************************)
(* The interval between two scrapes                                        *)
(*                                                                         *)
(* While no two executions have met, what the queue, and what an execution *)
(* remembers of it, say about the age of the last scrape can be trusted:   *)
(* the entry is never older than the scrape, except for an item in hand    *)
(* (its record comes after its scrape) or one whose mark or time Redis     *)
(* failed to keep.                                                         *)
(***************************************************************************)

(* The item may be scraped now.                                            *)
Ripe(i) == since[i] = Interval \/ i \in slipped

Alone == \A r, s \in Runs : ~At(r, "idle") /\ ~At(s, "idle") => r = s

(* The item is not in hand and its entry claims too old a scrape: never.   *)
QueueHonest ==
    \A i \in Items : i \in processing \/ i \in slipped \/ queue[i] <= since[i]

(* What an execution is about to rely on is still true.                    *)
RunHonest(r) ==
    LET x == run[r]
    IN  /\ x.pc = "scan" => \A i \in x.todo : i \in processing \/ Ripe(i)
        /\ \A i \in x.due : Ripe(i)
        /\ x.pc \in {"scrape", "remove"} => Ripe(x.item)
        /\ x.pc \in AtItem => /\ x.item \in processing \cup slipped
                              /\ x.item \notin x.due
        /\ x.pc = "record" => x.age <= since[x.item]
        /\ x.pc = "finish" => x.item \in slipped \/ queue[x.item] <= since[x.item]

SpaceInv == ~met => Alone /\ QueueHonest /\ \A r \in Runs : RunHonest(r)

Stop(r) == Finish(r) \/ Cancelled(r) \/ Die(r)

(* As long as none has met another, the execution that takes a step is the *)
(* only one that is active after it.                                       *)
LEMMA OneMover ==
  ASSUME TypeInv, SpaceInv, ~met', NEW r \in Runs,
         Begin(r) \/ Handler(r) \/ Cancelled(r) \/ Die(r)
  PROVE  /\ ~met
         /\ \A s \in Runs \ {r} : run'[s].pc = "idle" /\ run'[s].due = {}
  <1>1. ~met
    BY DEF Begin, Handler, Scan, Take, Finish, Remove, Scrape, Record, Unmark,
           Cancelled, Die
  <1>2. \A s \in Runs \ {r} : run'[s] = run[s]
    BY BeginMove, ScanMove, TakeMove, UnmarkMove, StopMove, CommandMove DEF Handler, Command
  <1>3. \A s \in Runs \ {r} : run[s].pc = "idle"
    <2>1. CASE Begin(r)
      BY <2>1 DEF Begin, At
    <2>2. CASE ~Begin(r)
      BY <1>1, <2>2 DEF SpaceInv, Alone, Handler, Scan, Take, Finish, Remove, Scrape,
                        Record, Unmark, Cancelled, Die, At
    <2> QED
      BY <2>1, <2>2
  <1> QED
    BY <1>1, <1>2, <1>3 DEF TypeInv, WellFormed

(* The step of an execution keeps the queue and its own memory honest.     *)
LEMMA MoverHonest ==
  ASSUME TypeInv, QueueHonest, NEW r \in Runs, RunHonest(r),
         Begin(r) \/ Handler(r) \/ Cancelled(r) \/ Die(r)
  PROVE  QueueHonest' /\ RunHonest(r)'
  <1>0. /\ run[r] \in Run
        /\ run[r].pc \in AtItem => run[r].item \in Items
        /\ queue \in [Items -> Ages \cup {NotQueued}] /\ since \in [Items -> Ages]
        /\ run[r].age \in Ages /\ Interval \in Nat
        /\ run[r].todo \subseteq Items /\ run[r].due \subseteq Items
        /\ run[r].pc = "scan" => run[r].item = NoItem
    BY BackgroundSearchAssumption DEF TypeInv, TypeOK, Run, WellFormed, AtItem
  <1>1. CASE Begin(r)
    <2>1. UNCHANGED <<queue, processing, since, slipped>>
      BY <1>1 DEF Begin, Answers, Fails
    <2>2. \A i \in Items : queue[i] = Interval => i \in processing \/ Ripe(i)
      BY <1>0 DEF QueueHonest, Ripe, Ages
    <2>3. run'[r].todo \subseteq Items
      BY <1>1, BeginMove DEF Run
    <2> QED
      BY <1>1, <2>1, <2>2, <2>3, BeginMove DEF QueueHonest, RunHonest, Ripe, AtItem
  <1>2. CASE Scan(r)
    <2>1. UNCHANGED <<queue, processing, since>> /\ slipped \subseteq slipped'
      BY <1>2, ScanMove DEF Scan
    <2>2. \A i \in Items : Ripe(i) => Ripe(i)'
      BY <2>1 DEF Ripe
    <2>3. \A i \in run'[r].due : Ripe(i)'
      BY <1>0, <1>2, <2>2, ScanMove DEF RunHonest, Ripe
    <2>4. \A i \in run'[r].todo : i \in processing \/ Ripe(i)'
      BY <1>0, <1>2, <2>2, ScanMove DEF RunHonest
    <2> QED
      BY <1>2, <2>1, <2>3, <2>4, ScanMove DEF QueueHonest, RunHonest, AtItem
  <1>3. CASE Take(r)
    <2>1. UNCHANGED <<queue, since>>
      BY <1>3 DEF Take
    <2>2. PICK i \in run[r].due :
            /\ i \in Items
            /\ i \in processing' \cup slipped'
            /\ processing \subseteq processing' /\ slipped \subseteq slipped'
            /\ run'[r].pc \in {"scrape", "remove"} /\ run'[r].item = i
            /\ run'[r].due = run[r].due \ {i}
      BY <1>3, TakeMove DEF Answers, Slips
    <2>3. \A j \in run[r].due : Ripe(j)'
      BY <2>1, <2>2 DEF RunHonest, Ripe
    <2> QED
      BY <2>1, <2>2, <2>3 DEF QueueHonest, RunHonest, AtItem
  <1>4. CASE Stop(r)
    <2>1. UNCHANGED <<queue, processing, since, slipped>>
      BY <1>4 DEF Stop, Finish, Cancelled, Die
    <2> QED
      BY <1>4, <2>1, StopMove DEF Stop, QueueHonest, RunHonest, AtItem
  <1>5. CASE Remove(r)
    <2>1. /\ UNCHANGED <<processing, since, slipped>> /\ run[r].pc = "remove"
          /\ queue' \in {queue, [queue EXCEPT ![run[r].item] = NotQueued]}
          /\ run'[r].pc = "finish" /\ Kept(run'[r], run[r]) /\ run[r].item \in Items
      BY <1>5, CommandMove DEF Command, Remove, Answers, Fails, At
    <2>2. \A i \in Items : queue'[i] = queue[i] \/ queue'[i] = NotQueued
      BY <1>0, <2>1
    <2>3. run[r].item \in slipped \/ queue'[run[r].item] <= since[run[r].item]
      BY <1>0, <2>1, <2>2 DEF RunHonest, Ripe, Ages, NotQueued
    <2>4. QueueHonest'
      BY <1>0, <2>1, <2>2 DEF QueueHonest, NotQueued, Ages
    <2> QED
      BY <2>1, <2>3, <2>4 DEF RunHonest, Ripe, AtItem, Kept
  <1>6. CASE Scrape(r)
    <2>1. /\ UNCHANGED <<queue, processing, slipped>> /\ run[r].pc = "scrape"
          /\ since' = [since EXCEPT ![run[r].item] = run[r].age]
          /\ run'[r].pc = "record" /\ Kept(run'[r], run[r]) /\ run[r].item \in Items
      BY <1>6, CommandMove DEF Command, Scrape, At
    <2>2. run[r].item \in processing \cup slipped /\ run[r].item \notin run[r].due
      BY <2>1 DEF RunHonest, AtItem
    <2>3. /\ \A i \in Items \ {run[r].item} : since'[i] = since[i]
          /\ since'[run[r].item] = run[r].age
      BY <1>0, <2>1
    <2>4. QueueHonest'
      BY <2>1, <2>2, <2>3 DEF QueueHonest
    <2>5. \A i \in run[r].due : Ripe(i)'
      BY <1>0, <2>1, <2>2, <2>3 DEF RunHonest, Ripe
    <2> QED
      BY <1>0, <2>1, <2>2, <2>3, <2>4, <2>5 DEF RunHonest, AtItem, Kept, Ages
  <1>7. CASE Record(r)
    <2>1. /\ UNCHANGED <<processing, since>> /\ run[r].pc = "record"
          /\ \/ queue' = [queue EXCEPT ![run[r].item] = run[r].age] /\ slipped' = slipped
             \/ queue' = queue /\ slipped' = slipped \cup {run[r].item}
          /\ run'[r].pc = "finish" /\ Kept(run'[r], run[r]) /\ run[r].item \in Items
      BY <1>7, CommandMove DEF Command, Record, Answers, Slips, At
    <2>2. run[r].age <= since[run[r].item] /\ run[r].item \in processing \cup slipped
      BY <2>1 DEF RunHonest, AtItem
    <2>3. QueueHonest'
      BY <1>0, <2>1, <2>2 DEF QueueHonest
    <2>4. run[r].item \in slipped' \/ queue'[run[r].item] <= since[run[r].item]
      BY <1>0, <2>1, <2>2
    <2>5. \A i \in run[r].due : Ripe(i)'
      BY <2>1 DEF RunHonest, Ripe
    <2> QED
      BY <2>1, <2>2, <2>3, <2>4, <2>5 DEF RunHonest, AtItem, Kept
  <1>8. CASE Unmark(r)
    <2>1. /\ UNCHANGED <<queue, since, slipped>> /\ run[r].pc = "finish"
          /\ processing' \in {processing, processing \ {run[r].item}}
      BY <1>8 DEF Unmark, Answers, Keeps, At
    <2>2. QueueHonest'
      BY <1>0, <2>1 DEF QueueHonest, RunHonest, AtItem
    <2> QED
      BY <1>8, <2>1, <2>2, UnmarkMove DEF RunHonest, Ripe, AtItem
  <1> QED
    BY <1>1, <1>2, <1>3, <1>4, <1>5, <1>6, <1>7, <1>8 DEF Handler, Stop

(* Time does not make a memory dishonest: ages grow together.              *)
LEMMA TickHonest ==
  ASSUME TypeInv, SpaceInv, Tick
  PROVE  SpaceInv'
  <1> SUFFICES ASSUME ~met PROVE Alone' /\ QueueHonest' /\ \A r \in Runs : RunHonest(r)'
    BY DEF SpaceInv, Tick
  <1>0. /\ TypeOK /\ Alone /\ QueueHonest /\ UNCHANGED <<processing, slipped>>
        /\ queue \in [Items -> Ages \cup {NotQueued}] /\ since \in [Items -> Ages]
    BY DEF SpaceInv, TypeInv, TypeOK, Tick
  <1>1. Alone'
    BY <1>0, TickRun DEF Alone, At
  <1>2. \A i \in Items : /\ since'[i] = Older(since[i])
                         /\ queue'[i] = IF queue[i] = NotQueued THEN NotQueued
                                        ELSE Older(queue[i])
    BY DEF Tick
  <1>3. ASSUME NEW i \in Items, queue[i] <= since[i] PROVE queue'[i] <= since'[i]
    <2>1. CASE queue[i] = NotQueued
      BY <1>0, <1>2, <2>1, OlderType DEF NotQueued, Ages
    <2>2. CASE queue[i] # NotQueued
      <3>1. queue[i] \in Ages
        BY <1>0, <2>2
      <3> QED
        BY <1>0, <1>2, <1>3, <2>2, <3>1, OlderMonotone
    <2> QED
      BY <2>1, <2>2
  <1>4. QueueHonest'
    BY <1>0, <1>3 DEF QueueHonest
  <1>5. \A i \in Items : Ripe(i) => Ripe(i)'
    BY <1>0, <1>2, OlderType DEF Ripe
  <1>6. ASSUME NEW r \in Runs PROVE RunHonest(r)'
    <2>0. /\ RunHonest(r) /\ run[r] \in Run
          /\ run[r].pc \in AtItem => run[r].item \in Items
          /\ run[r].todo \subseteq Items /\ run[r].due \subseteq Items /\ run[r].age \in Ages
      BY <1>0 DEF SpaceInv, TypeInv, TypeOK, Run, WellFormed
    <2>1. /\ run'[r].pc = run[r].pc
          /\ run'[r].todo = run[r].todo /\ run'[r].due = run[r].due
          /\ run'[r].item = run[r].item
          /\ run'[r].age \in {run[r].age, Older(run[r].age)}
      BY <1>0, TickRun
    <2>2. run[r].pc = "record" => run'[r].age <= since'[run[r].item]
      <3> SUFFICES ASSUME run[r].pc = "record" PROVE run'[r].age <= since'[run[r].item]
        OBVIOUS
      <3> DEFINE i == run[r].item
      <3>1. i \in Items /\ since[i] \in Ages /\ run[r].age <= since[i]
        BY <1>0, <2>0 DEF RunHonest, AtItem
      <3>2. /\ Older(run[r].age) <= Older(since[i]) /\ since'[i] = Older(since[i])
            /\ run[r].age <= Older(run[r].age) /\ Older(run[r].age) \in Ages
            /\ Older(since[i]) \in Ages
        BY <1>2, <2>0, <3>1, OlderMonotone, OlderType
      <3> QED
        BY <2>0, <2>1, <3>2 DEF Ages
    <2>3. run[r].pc = "finish" => \/ run[r].item \in slipped
                                  \/ queue'[run[r].item] <= since'[run[r].item]
      BY <1>3, <2>0 DEF RunHonest, AtItem
    <2>4. run[r].pc = "scan" => \A i \in run[r].todo : i \in processing \/ Ripe(i)'
      BY <1>5, <2>0 DEF RunHonest
    <2>5. /\ \A i \in run[r].due : Ripe(i)'
          /\ run'[r].pc \in {"scrape", "remove"} => Ripe(run[r].item)'
          /\ run[r].pc \in AtItem => /\ run[r].item \in processing \cup slipped
                                     /\ run[r].item \notin run[r].due
      BY <1>5, <2>0, <2>1 DEF RunHonest, AtItem
    <2> QED
      BY <1>0, <2>1, <2>2, <2>3, <2>4, <2>5 DEF RunHonest, Ripe
  <1> QED
    BY <1>1, <1>4, <1>6

LEMMA SpaceStep == TypeInv /\ SpaceInv /\ [Next]_vars => SpaceInv'
  <1> SUFFICES ASSUME TypeInv, SpaceInv, [Next]_vars PROVE SpaceInv'
    OBVIOUS
  <1>1. ASSUME NEW i \in Items, Enqueue(i) PROVE SpaceInv'
    <2> SUFFICES ASSUME ~met PROVE Alone' /\ QueueHonest' /\ \A r \in Runs : RunHonest(r)'
      BY <1>1 DEF SpaceInv, Enqueue
    <2>1. /\ UNCHANGED <<processing, run, slipped>>
          /\ \A j \in Items \ {i} : queue'[j] = queue[j] /\ since'[j] = since[j]
          /\ queue'[i] = Interval /\ since'[i] = Interval
      BY <1>1 DEF Enqueue, TypeInv, TypeOK
    <2>2. Interval \in Nat /\ since \in [Items -> Ages]
      BY BackgroundSearchAssumption DEF TypeInv, TypeOK
    <2>3. Alone' /\ QueueHonest'
      BY <2>1, <2>2 DEF SpaceInv, Alone, At, QueueHonest
    <2>4. ASSUME NEW r \in Runs PROVE RunHonest(r)'
      <3>1. /\ run[r].pc \in AtItem => run[r].item \in Items
            /\ run[r].todo \subseteq Items /\ run[r].due \subseteq Items
            /\ run[r].age \in Ages
        BY DEF SpaceInv, TypeInv, TypeOK, Run, WellFormed
      <3>2. RunHonest(r)
        BY DEF SpaceInv
      <3>3. \A j \in Items : Ripe(j) => Ripe(j)'
        BY <2>1 DEF Ripe
      <3>4. run[r].pc = "record" => run[r].age <= since'[run[r].item]
        BY <2>1, <2>2, <3>1, <3>2 DEF RunHonest, AtItem, Ages
      <3>5. run[r].pc = "finish" => \/ run[r].item \in slipped
                                    \/ queue'[run[r].item] <= since'[run[r].item]
        BY <2>1, <2>2, <3>1, <3>2 DEF RunHonest, AtItem
      <3>6. /\ run[r].pc = "scan" => \A j \in run[r].todo : j \in processing \/ Ripe(j)'
            /\ \A j \in run[r].due : Ripe(j)'
            /\ run[r].pc \in {"scrape", "remove"} => Ripe(run[r].item)'
        <4>1. run[r].pc = "scan" => \A j \in run[r].todo : j \in processing \/ Ripe(j)'
          BY <3>1, <3>2, <3>3 DEF RunHonest
        <4>2. \A j \in run[r].due : Ripe(j)'
          BY <3>1, <3>2, <3>3 DEF RunHonest
        <4>3. run[r].pc \in {"scrape", "remove"} => Ripe(run[r].item)'
          <5> SUFFICES ASSUME run[r].pc \in {"scrape", "remove"} PROVE Ripe(run[r].item)'
            OBVIOUS
          <5>1. run[r].item \in Items
            BY <3>1 DEF AtItem
          <5>2. Ripe(run[r].item)
            BY <3>2 DEF RunHonest
          <5> QED
            BY <2>1, <5>1, <5>2 DEF Ripe
        <4> QED
          BY <4>1, <4>2, <4>3
      <3>7. run[r].pc \in AtItem => /\ run[r].item \in processing \cup slipped
                                    /\ run[r].item \notin run[r].due
        BY <3>2 DEF RunHonest
      <3> QED
        BY <2>1, <3>4, <3>5, <3>6, <3>7 DEF RunHonest, Ripe
    <2> QED
      BY <2>3, <2>4
  <1>2. ASSUME NEW r \in Runs, Begin(r) \/ Handler(r) \/ Cancelled(r) \/ Die(r)
        PROVE  SpaceInv'
    <2> SUFFICES ASSUME ~met' PROVE Alone' /\ QueueHonest' /\ \A s \in Runs : RunHonest(s)'
      BY DEF SpaceInv
    <2>1. ~met /\ \A s \in Runs \ {r} : run'[s].pc = "idle" /\ run'[s].due = {}
      BY <1>2, OneMover
    <2>2. QueueHonest' /\ RunHonest(r)'
      BY <1>2, <2>1, MoverHonest DEF SpaceInv
    <2> QED
      BY <2>1, <2>2 DEF Alone, RunHonest, At, AtItem
  <1>3. CASE UNCHANGED vars
    BY <1>3 DEF vars, SpaceInv, Alone, QueueHonest, RunHonest, Ripe, At
  <1> QED
    BY <1>1, <1>2, <1>3, TickHonest DEF Next

(* While no two executions have been active together, no entry, batch or   *)
(* item in hand overstates the age of the last scrape.                     *)
THEOREM SpaceInvariant == Spec => [](TypeInv /\ SpaceInv)
  <1>1. ASSUME Init PROVE SpaceInv
    <2>1. /\ \A r \in Runs : run[r].item = NoItem /\ run[r].pc = "idle" /\ run[r].due = {}
          /\ \A i \in Items : queue[i] = NotQueued /\ since[i] = Interval
      BY <1>1 DEF Init, Idle
    <2>2. \A i \in Items : queue[i] <= since[i]
      BY <2>1, BackgroundSearchAssumption DEF NotQueued
    <2> QED
      BY <2>1, <2>2 DEF SpaceInv, Alone, QueueHonest, RunHonest, AtItem, At
  <1> QED
    BY <1>1, TypeInvariant, SpaceStep, PTL DEF Spec

(* One execution after another, an item is never scraped again before the  *)
(* interval is over unless a stream request asked for it or Redis failed to*)
(* keep or tell its mark or its time, across deaths, cancellations and     *)
(* failed lookups.                                                         *)
THEOREM ScrapesAreSpaced == Spec => SpacedOrExcused
  <1>1. ASSUME SpaceInv, NEW r \in Runs, At(r, "scrape")
        PROVE  LET i == run[r].item IN since[i] = Interval \/ met \/ i \in slipped
    BY <1>1 DEF SpaceInv, RunHonest, At, Ripe
  <1>2. SpaceInv => [\A r \in Runs : At(r, "scrape") /\ run'[r].pc = "record" =>
                       LET i == run[r].item
                       IN  since[i] = Interval \/ met \/ i \in slipped]_vars
    BY <1>1
  <1> QED
    BY <1>2, SpaceInvariant, PTL DEF SpacedOrExcused
=============================================================================
