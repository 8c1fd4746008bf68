-------------------------- MODULE ModerationProofs --------------------------
(***************************************************************************)
(* Proofs about the moderation of user content: types, that an item is     *)
(* settled once, that the stream is visible when an import of it is        *)
(* approved, that it is blocked when enough users report it, and that the  *)
(* points of every user are accounted for, for any number of items, users  *)
(* and concurrent requests.                                                *)
(***************************************************************************)
EXTENDS Moderation, CountingLemmas, TLAPS

(***************************************************************************)
(* What the operators on a transaction change                              *)
(***************************************************************************)

SameFlow(t, n) ==
  n.request = t.request /\ n.bulk = t.bulk /\ n.todo = t.todo /\ n.item = t.item
SameReads(t, n) == n.read = t.read /\ n.stale = t.stale
SameCredit(t, n) == n.awarded = t.awarded /\ n.fined = t.fined
SameStream(t, n) ==
  /\ n.new = t.new /\ n.public = t.public /\ n.hide = t.hide
  /\ n.block = t.block /\ n.done = t.done

(* The session sees points as a natural number.                            *)
LEMMA PointsInType ==
  ASSUME NEW t \in Txn, NEW u \in Users
  PROVE  PointsIn(t, u) \in Nat
  <1> DEFINE x == t.base[u] + t.gain[u]
             S == {0, x}
             m == IF x > 0 THEN x ELSE 0
  <1>0. x \in Int
    BY DEF Txn
  <1> HIDE DEF x
  <1>1. m \in Nat /\ m \in S /\ \A y \in S : m >= y
    BY <1>0
  <1>2. \A n \in S : (\A y \in S : n >= y) => n = m
    BY <1>0
  <1>3. Max(S) = m
    BY <1>1, <1>2 DEF Max
  <1> QED
    BY <1>1, <1>3 DEF PointsIn, x

LEMMA IdleType == Idle \in Txn
  BY ModerationAssumption DEF Idle, Txn, Requests

(* The author is loaded: nothing but read and base changes.                *)
LEMMA LoadAuthorFields ==
  ASSUME NEW t \in Txn, NEW i \in Items, points \in [Users -> Nat]
  PROVE  LET n == LoadAuthor(t, i)
         IN  /\ n \in Txn /\ n.pc = t.pc /\ n.write = t.write
             /\ SameFlow(t, n) /\ SameCredit(t, n) /\ SameStream(t, n)
             /\ n.stale = t.stale /\ t.read \subseteq n.read
             /\ n.read \subseteq t.read \cup Users
  <1> DEFINE u == Author[i]
  <1>1. u \in Users \cup {NoUser}
    BY ModerationAssumption
  <1>2. CASE u = NoUser \/ u \in t.read
    BY <1>2 DEF LoadAuthor, SameFlow, SameCredit, SameStream
  <1>3. CASE u # NoUser /\ u \notin t.read
    <2> u \in Users
      BY <1>1, <1>3
    <2> HIDE DEF u
    <2> DEFINE n == [t EXCEPT !.read = @ \cup {u}, !.base[u] = points[u]]
    <2>1. LoadAuthor(t, i) = n
      BY <1>3 DEF LoadAuthor, u
    <2>2. n \in Txn
      BY DEF Txn, Row
    <2>3. /\ n.pc = t.pc /\ n.write = t.write
          /\ SameFlow(t, n) /\ SameCredit(t, n) /\ SameStream(t, n)
          /\ n.stale = t.stale /\ n.read = t.read \cup {u}
      BY DEF Txn, SameFlow, SameCredit, SameStream
    <2> QED
      BY <2>1, <2>2, <2>3
  <1> QED
    BY <1>2, <1>3

(* A status is written.                                                    *)
LEMMA WriteFields ==
  ASSUME NEW t \in Txn, NEW i \in Items, NEW v \in Statuses
  PROVE  LET n == [t EXCEPT !.write[i] = v]
         IN  /\ n \in Txn /\ n.pc = t.pc /\ n.write = [t.write EXCEPT ![i] = v]
             /\ SameFlow(t, n) /\ SameReads(t, n) /\ SameCredit(t, n)
             /\ SameStream(t, n)
  BY DEF Txn, SameFlow, SameReads, SameCredit, SameStream

(* Points are given.                                                       *)
LEMMA CreditAwardFields ==
  ASSUME NEW t \in Txn, NEW i \in Items
  PROVE  LET n == CreditAward(t, i)
         IN  /\ n \in Txn /\ n.pc = t.pc /\ n.write = t.write
             /\ SameFlow(t, n) /\ SameReads(t, n) /\ SameStream(t, n)
             /\ n.fined = t.fined /\ n.awarded \subseteq t.awarded \cup {i}
  <1>1. CASE Author[i] = NoUser
    BY <1>1 DEF CreditAward, SameFlow, SameReads, SameStream
  <1>2. CASE Author[i] # NoUser
    <2> DEFINE u == Author[i]
               g == [t.gain EXCEPT ![u] = @ + Award]
               a == t.awarded \cup {i}
               n == [t EXCEPT !.gain = g, !.awarded = a]
    <2>1. u \in Users /\ Award \in Int
      BY <1>2, ModerationAssumption
    <2>2. CreditAward(t, i) = n
      BY <1>2 DEF CreditAward
    <2>3. g \in [Users -> Int] /\ a \subseteq Items
      BY <2>1 DEF Txn
    <2> HIDE DEF u, g
    <2>5. n \in Txn
      BY <2>3 DEF Txn
    <2>4. /\ n.pc = t.pc /\ n.write = t.write
          /\ SameFlow(t, n) /\ SameReads(t, n) /\ SameStream(t, n)
          /\ n.fined = t.fined /\ n.awarded = t.awarded \cup {i}
      BY DEF Txn, SameFlow, SameReads, SameStream
    <2> QED
      BY <2>2, <2>4, <2>5
  <1> QED
    BY <1>1, <1>2

(* Points are taken.                                                       *)
LEMMA CreditPenaltyFields ==
  ASSUME NEW t \in Txn, NEW i \in Suggestions
  PROVE  LET n == CreditPenalty(t, i)
         IN  /\ n \in Txn /\ n.pc = t.pc /\ n.write = t.write
             /\ SameFlow(t, n) /\ SameReads(t, n) /\ SameStream(t, n)
             /\ n.awarded = t.awarded /\ n.fined = t.fined \cup {i}
  <1> DEFINE u == Author[i]
             g == [t.gain EXCEPT ![u] = @ - Penalty]
             f == t.fined \cup {i}
             n == [t EXCEPT !.gain = g, !.fined = f]
  <1>1. u \in Users /\ Penalty \in Int /\ i \in Items
    BY ModerationAssumption DEF Items, Suggestions
  <1>2. CreditPenalty(t, i) = n
    BY DEF CreditPenalty
  <1>3. g \in [Users -> Int] /\ f \subseteq Items
    BY <1>1 DEF Txn
  <1> HIDE DEF u, g
  <1>5. n \in Txn
    BY <1>3 DEF Txn
  <1>4. /\ n.pc = t.pc /\ n.write = t.write
        /\ SameFlow(t, n) /\ SameReads(t, n) /\ SameStream(t, n)
        /\ n.awarded = t.awarded /\ n.fined = t.fined \cup {i}
    BY DEF Txn, SameFlow, SameReads, SameStream
  <1> QED
    BY <1>2, <1>4, <1>5

(* What an import's processing, asked to publish or not, leaves behind.    *)
Processed(t, n, i, public) ==
  /\ n.new = (t.new \/ ~stream.exists)
  /\ public => n.public = "yes" \/ (n.public = "keep" /\ t.public = "keep" /\ stream.public)
  /\ ~public => n.public = t.public \/ (n.public = "no" /\ n.new)
  /\ n.done = IF public THEN t.done \cup {i} ELSE t.done

LEMMA ProcessFields ==
  ASSUME NEW t \in Txn, NEW i \in Imports, NEW public \in BOOLEAN, stream \in Stream
  PROVE  LET n == ProcessImport(t, i, public)
         IN  /\ n \in Txn /\ n.pc = t.pc /\ n.write = t.write
             /\ SameFlow(t, n) /\ SameCredit(t, n)
             /\ n.read = t.read \cup {"stream"} /\ n.stale = t.stale
             /\ n.hide = t.hide /\ n.block = t.block
             /\ Processed(t, n, i, public)
  <1> DEFINE found == stream.exists \/ t.new
             isPublic == t.public = "yes" \/ (t.public = "keep" /\ stream.public)
             p == CASE found /\ public /\ ~isPublic -> "yes"
                    [] ~found -> IF public THEN "yes" ELSE "no"
                    [] OTHER -> t.public
             w == t.new \/ ~found
             d == IF public THEN t.done \cup {i} ELSE t.done
             n == [t EXCEPT !.read = @ \cup {"stream"}, !.new = w, !.public = p, !.done = d]
  <1>1. p \in {"keep", "yes", "no"} /\ w \in BOOLEAN /\ d \in SUBSET Imports
    BY DEF Txn, Stream
  <1>2. /\ public => p = "yes" \/ (p = "keep" /\ t.public = "keep" /\ stream.public)
        /\ ~public => p = t.public \/ (p = "no" /\ w)
        /\ w = (t.new \/ ~stream.exists)
    BY DEF Txn, Stream
  <1>3. ProcessImport(t, i, public) = n
    BY DEF ProcessImport, Txn
  <1> HIDE DEF p, w, d
  <1>4. n \in Txn
    BY <1>1 DEF Txn, Row
  <1>5. /\ n.pc = t.pc /\ n.write = t.write /\ SameFlow(t, n) /\ SameCredit(t, n)
        /\ n.read = t.read \cup {"stream"} /\ n.stale = t.stale
        /\ n.hide = t.hide /\ n.block = t.block
        /\ n.new = w /\ n.public = p /\ n.done = d
    BY DEF Txn, SameFlow, SameCredit
  <1>6. Processed(t, n, i, public)
    BY <1>2, <1>5 DEF Processed, d
  <1> QED
    BY <1>3, <1>4, <1>5, <1>6

(* The reports are counted.                                                *)
Enough(counted) ==
    AutoBlock /\ ~stream.blocked /\ Cardinality(Reporters(counted)) + 1 >= Threshold

LEMMA CountReportsFields ==
  ASSUME NEW t \in Txn, NEW counted
  PROVE  LET n == CountReports(t, counted)
         IN  /\ n \in Txn /\ n.pc = t.pc /\ n.write = t.write
             /\ SameFlow(t, n) /\ SameCredit(t, n)
             /\ n.read = t.read \cup {"stream"} /\ n.stale = t.stale
             /\ n.new = t.new /\ n.public = t.public /\ n.hide = t.hide /\ n.done = t.done
             /\ n.block = (t.block \/ Enough(counted))
  <1> DEFINE b == t.block \/ Enough(counted)
             n == [t EXCEPT !.read = @ \cup {"stream"}, !.block = b]
  <1>1. CountReports(t, counted) = n
    BY DEF CountReports, Enough
  <1>2. b \in BOOLEAN
    BY DEF Txn, Enough
  <1> HIDE DEF b
  <1>3. n \in Txn
    BY <1>2 DEF Txn, Row
  <1>4. /\ n.pc = t.pc /\ n.write = t.write
        /\ SameFlow(t, n) /\ SameCredit(t, n)
        /\ n.read = t.read \cup {"stream"} /\ n.stale = t.stale
        /\ n.new = t.new /\ n.public = t.public /\ n.hide = t.hide /\ n.done = t.done
        /\ n.block = b
    BY DEF Txn, SameFlow, SameCredit
  <1> QED
    BY <1>1, <1>3, <1>4 DEF b

-----------------------------------------------------------------------------
(***************************************************************************)
(* What a step of a transaction does to it, short of its commit: t is the  *)
(* transaction before and n after the step.                                *)
(***************************************************************************)

(* Nothing is to be written yet.                                           *)
Blank(t) ==
  /\ t.write = [i \in Items |-> "keep"]
  /\ t.awarded = {} /\ t.fined = {}
  /\ ~t.new /\ t.public = "keep" /\ ~t.hide /\ ~t.block /\ t.done = {}

(* A submission has passed its checks.                                     *)
SubmitOpened(t, n, i) ==
  /\ t.pc = "idle" /\ Blank(n) /\ n.stale = {} /\ n.todo = {}
  /\ n.pc = "apply" /\ n.request = "submit" /\ n.item = i
  /\ status[i] = "absent" /\ ~Submitting(i)

(* A review, single or bulk, has read what it needs.                       *)
ReviewOpened(t, n) ==
  /\ t.pc = "idle" /\ Blank(n) /\ n.stale = {}
  /\ n.request \in {"approve", "reject"} /\ n.pc \in {"author", "next"}
  /\ n.pc = "author" => n.item \in Items /\ n.item \in n.read /\ status[n.item] = "pending"
  /\ \A i \in n.todo \cap Imports : i \in n.read /\ status[i] = "pending"
  /\ "stream" \notin n.read

(* An approved import is rejected, or an item deleted.                     *)
WriteOpened(t, n, i, v) ==
  /\ t.pc = "idle"
  /\ n.write = [[j \in Items |-> "keep"] EXCEPT ![i] = v]
  /\ n.awarded = {} /\ n.fined = {}
  /\ ~n.new /\ n.public = "keep" /\ ~n.hide /\ ~n.block /\ n.done = {}
  /\ n.item = i /\ n.todo = {} /\ n.read = {i} /\ n.stale = {}
  /\ \/ /\ n.request = "strike" /\ v = "rejected" /\ n.pc = "apply"
        /\ i \in Imports /\ status[i] = "approved"
     \/ /\ n.request = "delete" /\ v = "deleted" /\ n.pc = "commit"
        /\ status[i] \in Stored /\ (i \in Suggestions => status[i] = "pending")

(* A review goes on and has decided nothing new.                           *)
Advanced(t, n) ==
  /\ t.pc \in {"next", "author"} \/ (t.pc = "apply" /\ t.request = "approve")
  /\ n.pc # "idle" /\ n.request = t.request
  /\ n.write = t.write /\ SameCredit(t, n) /\ SameStream(t, n) /\ n.stale = t.stale
  /\ t.read \subseteq n.read /\ n.todo \subseteq t.todo
  /\ "stream" \in n.read => "stream" \in t.read
  /\ n.pc \in {"author", "apply"} =>
       /\ n.item \in Items
       /\ \/ t.pc = "author" /\ t.item = n.item
          \/ n.item \in t.todo \cap Imports
          \/ n.item \in n.read /\ status[n.item] = "pending"

(* Statuses as the session sees them.                                      *)
Overlay(t) == [r \in Items |-> IF t.write[r] = "keep" THEN status[r] ELSE t.write[r]]

(* An item gets the status v.                                              *)
Settled(t, n, i, v) ==
  /\ t.pc = "apply" /\ t.item = i /\ SameFlow(t, n)
  /\ n.pc = IF t.todo = {} THEN "commit" ELSE "next"
  /\ n.write = [t.write EXCEPT ![i] = v]
  /\ n.awarded \subseteq t.awarded \cup {i}
  /\ v \notin Approved => n.awarded = t.awarded
  /\ n.fined \subseteq t.fined \cup {i}
  /\ v # "rejected" => n.fined = t.fined
  /\ n.hide = t.hide
  /\ \/ t.request = "submit" /\ v \in Approved \cup {"pending"}
     \/ /\ t.request = "approve" /\ v = "approved"
        /\ t.read \subseteq n.read /\ n.stale = t.stale
     \/ /\ t.request = "reject" /\ v = "rejected"
        /\ t.read \subseteq n.read /\ n.stale = t.stale
  /\ \/ n.new = t.new /\ n.public = t.public /\ n.done = t.done
     \/ v # "rejected" /\ i \in Imports /\ Processed(t, n, i, v \in Approved)
  /\ \/ n.block = t.block /\ ~(i \in Reports /\ v \in Approved)
     \/ /\ i \in Reports /\ v \in Approved /\ "stream" \in n.read
        /\ n.block = (t.block \/ Enough(IF t.request = "submit" THEN status ELSE Overlay(n)))

(* reject_approved has looked at the stream.                               *)
Hidden(t, n) ==
  /\ t.pc = "apply" /\ t.request = "strike" /\ SameFlow(t, n)
  /\ n.pc = IF t.todo = {} THEN "commit" ELSE "next"
  /\ n.write = t.write /\ SameCredit(t, n) /\ n.stale = t.stale
  /\ n.read = IF stream.exists THEN t.read \cup {"stream"} ELSE t.read
  /\ n.public = IF stream.public THEN "no" ELSE t.public
  /\ n.hide = stream.active
  /\ n.new = t.new /\ n.block = t.block /\ n.done = t.done

Moved(t, n) ==
  \/ n = Idle
  \/ \E i \in Items : SubmitOpened(t, n, i)
  \/ ReviewOpened(t, n)
  \/ \E i \in Items, v \in Statuses : WriteOpened(t, n, i, v)
  \/ Advanced(t, n)
  \/ \E i \in Items, v \in Statuses : Settled(t, n, i, v)
  \/ Hidden(t, n)

(* A step of session s that commits nothing.                               *)
Step(s) ==
  /\ txn' = [txn EXCEPT ![s] = txn'[s]] /\ txn'[s] \in Txn
  /\ Moved(txn[s], txn'[s])
  /\ requests' \in 0..MaxRequests
  /\ UNCHANGED <<status, stream, points, history>>

(* What reading an author depends on.                                      *)
LookupOK == \A s \in Sessions : txn[s].pc = "author" => txn[s].item \in Items

(* The frame of a request that arrives, and of one that goes on.           *)
LEMMA BeginStep ==
  ASSUME TypeOK, NEW s \in Sessions, NEW n \in Txn, Begin(s, n), Moved(txn[s], n)
  PROVE  Step(s)
  <1>1. txn' = [txn EXCEPT ![s] = n] /\ txn'[s] = n
    BY DEF Begin, TypeOK
  <1>2. requests' \in 0..MaxRequests
    BY ModerationAssumption DEF Begin, TypeOK
  <1>3. UNCHANGED <<status, stream, points, history>>
    BY DEF Begin
  <1> QED
    BY <1>1, <1>2, <1>3 DEF Step

LEMMA BecomeStep ==
  ASSUME TypeOK, NEW s \in Sessions, NEW n \in Txn, Become(s, n), Moved(txn[s], n)
  PROVE  Step(s)
  <1>1. txn' = [txn EXCEPT ![s] = n] /\ txn'[s] = n
    BY DEF Become, TypeOK
  <1>2. requests' \in 0..MaxRequests
    BY DEF Become, TypeOK
  <1>3. UNCHANGED <<status, stream, points, history>>
    BY DEF Become
  <1> QED
    BY <1>1, <1>2, <1>3 DEF Step

(* The item in hand is finished: only pc changes.                          *)
Finished(t) == [t EXCEPT !.pc = IF t.todo = {} THEN "commit" ELSE "next"]

LEMMA FinishedFields ==
  ASSUME NEW t \in Txn
  PROVE  LET n == Finished(t)
         IN  /\ n \in Txn /\ n.pc = IF t.todo = {} THEN "commit" ELSE "next"
             /\ n.write = t.write
             /\ SameFlow(t, n) /\ SameReads(t, n) /\ SameCredit(t, n)
             /\ SameStream(t, n)
  BY DEF Finished, Txn, SameFlow, SameReads, SameCredit, SameStream

LEMMA ItemDoneStep ==
  ASSUME TypeOK, NEW s \in Sessions, NEW t \in Txn, ItemDone(s, t),
         Moved(txn[s], Finished(t))
  PROVE  Step(s)
  <1>1. Finished(t) \in Txn
    BY FinishedFields
  <1>2. Become(s, Finished(t))
    BY DEF ItemDone, Finished
  <1> QED
    BY <1>1, <1>2, BecomeStep

-----------------------------------------------------------------------------
(***************************************************************************)
(* Every action of a session but its commit is such a step                 *)
(***************************************************************************)

LEMMA SubmitStep ==
  ASSUME TypeOK, NEW s \in Sessions, NEW i \in Items, Submit(s, i)
  PROVE  Step(s)
  <1> DEFINE t == [Idle EXCEPT !.item = i, !.pc = "apply"]
             n == LoadAuthor(t, i)
  <1>1. /\ t \in Txn /\ t.pc = "apply" /\ t.item = i /\ t.request = "submit"
        /\ t.todo = {} /\ t.stale = {} /\ Blank(t)
    BY IdleType DEF Idle, Txn, Blank
  <1> HIDE DEF t
  <1>2. points \in [Users -> Nat]
    BY DEF TypeOK
  <1>3. /\ n \in Txn /\ n.pc = t.pc /\ n.write = t.write
        /\ SameFlow(t, n) /\ SameCredit(t, n) /\ SameStream(t, n) /\ n.stale = t.stale
    BY <1>1, <1>2, LoadAuthorFields
  <1> HIDE DEF n
  <1>4. txn[s].pc = "idle" /\ Begin(s, n) /\ status[i] = "absent" /\ ~Submitting(i)
    BY DEF Submit, Begin, At, n, t
  <1>5. SubmitOpened(txn[s], n, i)
    BY <1>1, <1>3, <1>4 DEF SubmitOpened, Blank, SameFlow, SameCredit, SameStream
  <1>6. Moved(txn[s], n)
    BY <1>5 DEF Moved
  <1> QED
    BY <1>3, <1>4, <1>6, BeginStep

(* A contribution, and what its processing adds, of a submission.          *)
LEMMA ContributionStep ==
  ASSUME TypeOK, NEW s \in Sessions, NEW i \in Imports, AtSubmit(s, i),
         NEW t \in Txn, t.write = txn[s].write, SameFlow(txn[s], t),
         SameCredit(txn[s], t), SameStream(txn[s], t), NEW approve \in BOOLEAN,
         \/ ItemDone(s, Contribution(t, i, approve))
         \/ ItemDone(s, ProcessImport(Contribution(t, i, approve), i, approve))
  PROVE  Step(s)
  <1> DEFINE v == IF approve THEN "approved" ELSE "pending"
             c == Contribution(t, i, approve)
             p == ProcessImport(c, i, approve)
             w == [t EXCEPT !.write[i] = v]
  <1>0. /\ i \in Items /\ v \in Statuses /\ v \in Approved \cup {"pending"} /\ v # "rejected"
        /\ approve <=> v \in Approved
    BY DEF Items, Statuses, Approved
  <1>1. /\ w \in Txn /\ w.pc = t.pc /\ w.write = [t.write EXCEPT ![i] = v]
        /\ SameFlow(t, w) /\ SameReads(t, w) /\ SameCredit(t, w) /\ SameStream(t, w)
    BY <1>0, WriteFields
  <1>2. /\ c \in Txn /\ c.write = [t.write EXCEPT ![i] = v]
        /\ SameFlow(t, c) /\ SameStream(t, c) /\ c.fined = t.fined
        /\ c.awarded \subseteq t.awarded \cup {i}
        /\ v \notin Approved => c.awarded = t.awarded
    <2>1. CASE approve
      <3>1. c = CreditAward(w, i)
        BY <2>1 DEF Contribution
      <3> HIDE DEF c, w
      <3>2. /\ c \in Txn /\ c.write = w.write /\ SameFlow(w, c) /\ SameStream(w, c)
            /\ c.fined = w.fined /\ c.awarded \subseteq w.awarded \cup {i}
        BY <1>0, <1>1, <3>1, CreditAwardFields
      <3> QED
        BY <1>0, <1>1, <2>1, <3>2 DEF SameFlow, SameStream, SameCredit
    <2>2. CASE ~approve
      <3>1. c = w
        BY <2>2 DEF Contribution
      <3> HIDE DEF c, w
      <3> QED
        BY <1>1, <3>1 DEF SameFlow, SameStream, SameCredit
    <2> QED
      BY <2>1, <2>2
  <1>3. txn[s].pc = "apply" /\ txn[s].item = i /\ txn[s].request = "submit"
    BY DEF AtSubmit, At
  <1>5. i \notin Reports
    BY ModerationAssumption DEF Suggestions
  <1>6. stream \in Stream
    BY DEF TypeOK
  <1> HIDE DEF c, w, v
  <1>7. CASE ItemDone(s, c)
    <2> DEFINE n == Finished(c)
    <2>1. /\ n \in Txn /\ n.pc = IF c.todo = {} THEN "commit" ELSE "next"
          /\ n.write = c.write /\ SameFlow(c, n) /\ SameCredit(c, n) /\ SameStream(c, n)
      BY <1>2, FinishedFields
    <2> HIDE DEF n
    <2>2. Settled(txn[s], n, i, v)
      BY <1>0, <1>2, <1>3, <1>5, <2>1
      DEF Settled, SameFlow, SameCredit, SameStream
    <2>3. Moved(txn[s], n)
      BY <1>0, <2>2 DEF Moved
    <2> QED
      BY <1>2, <1>7, <2>3, ItemDoneStep DEF n
  <1>8. CASE ItemDone(s, p)
    <2>0. /\ p \in Txn /\ p.write = c.write /\ SameFlow(c, p) /\ SameCredit(c, p)
          /\ p.hide = c.hide /\ p.block = c.block /\ Processed(c, p, i, approve)
      BY <1>2, <1>6, ProcessFields
    <2> HIDE DEF p
    <2> DEFINE n == Finished(p)
    <2>1. /\ n \in Txn /\ n.pc = IF p.todo = {} THEN "commit" ELSE "next"
          /\ n.write = p.write /\ SameFlow(p, n) /\ SameCredit(p, n) /\ SameStream(p, n)
      BY <2>0, FinishedFields
    <2> HIDE DEF n
    <2>4. Processed(txn[s], n, i, v \in Approved)
      BY <1>0, <1>2, <2>0, <2>1 DEF Processed, SameStream
    <2>2. Settled(txn[s], n, i, v)
      BY <1>0, <1>2, <1>3, <1>5, <2>0, <2>1, <2>4
      DEF Settled, SameFlow, SameCredit, SameStream
    <2>3. Moved(txn[s], n)
      BY <1>0, <2>2 DEF Moved
    <2> QED
      BY <2>0, <1>8, <2>3, ItemDoneStep DEF n
  <1> QED
    BY <1>7, <1>8 DEF c

(* A transaction that loads its author in a session of its own.            *)
LEMMA NewSessionFields ==
  ASSUME NEW t \in Txn, NEW i \in Items, points \in [Users -> Nat]
  PROVE  LET n == NewSession(t, i)
         IN  /\ n \in Txn /\ n.write = t.write
             /\ SameFlow(t, n) /\ SameCredit(t, n) /\ SameStream(t, n)
  <1> DEFINE m == [t EXCEPT !.read = {}, !.stale = {}]
             n == LoadAuthor(m, i)
  <1>1. /\ m \in Txn /\ m.write = t.write
        /\ SameFlow(t, m) /\ SameCredit(t, m) /\ SameStream(t, m)
    BY DEF Txn, SameFlow, SameCredit, SameStream
  <1> HIDE DEF m
  <1>2. /\ n \in Txn /\ n.write = m.write
        /\ SameFlow(m, n) /\ SameCredit(m, n) /\ SameStream(m, n)
    BY <1>1, LoadAuthorFields
  <1>3. NewSession(t, i) = n
    BY DEF NewSession, m
  <1> HIDE DEF n
  <1> QED
    BY <1>1, <1>2, <1>3 DEF SameFlow, SameCredit, SameStream

LEMMA RefusedStep ==
  ASSUME TypeOK, NEW s \in Sessions, Become(s, Idle)
  PROVE  Step(s)
  BY IdleType, BecomeStep DEF Moved

LEMMA ImportSteps ==
  ASSUME TypeOK, NEW s \in Sessions, NEW i \in Items,
         \/ ImportMagnet(s, i) \/ ImportTorrentFile(s, i) \/ ImportNzbFile(s, i)
         \/ ImportNzbUrl(s, i) \/ ImportYoutubeVideo(s, i) \/ CreateContribution(s, i)
  PROVE  Step(s)
  <1>0. i \in Imports /\ AtSubmit(s, i)
    BY DEF ImportMagnet, ImportTorrentFile, ImportNzbFile, ImportNzbUrl,
           ImportYoutubeVideo, CreateContribution, ImportWith
  <1>1. txn[s] \in Txn /\ points \in [Users -> Nat]
    BY DEF TypeOK
  <1> DEFINE a == txn[s]
             b == NewSession(txn[s], i)
             From(t) == \E approve \in BOOLEAN :
                          \/ ItemDone(s, Contribution(t, i, approve))
                          \/ ItemDone(s, ProcessImport(Contribution(t, i, approve), i, approve))
  <1>2. \/ Become(s, Idle) \/ From(a) \/ From(b)
    BY DEF ImportMagnet, ImportTorrentFile, ImportNzbFile, ImportNzbUrl,
           ImportYoutubeVideo, CreateContribution, ImportWith,
           ProcessTorrent, ProcessNzb, ProcessYoutube
  <1>3. /\ b \in Txn /\ b.write = a.write
        /\ SameFlow(a, b) /\ SameCredit(a, b) /\ SameStream(a, b)
    BY <1>1, NewSessionFields
  <1>4. a \in Txn /\ SameFlow(a, a) /\ SameCredit(a, a) /\ SameStream(a, a)
    BY <1>1 DEF SameFlow, SameCredit, SameStream
  <1>5. CASE Become(s, Idle)
    BY <1>5, RefusedStep
  <1>6. CASE From(a)
    BY <1>0, <1>4, <1>6, ContributionStep
  <1>7. CASE From(b)
    <2> HIDE DEF b
    <2> QED
      BY <1>0, <1>3, <1>7, ContributionStep
  <1> QED
    BY <1>2, <1>5, <1>6, <1>7

(* An automatic approval: the status, the count of the reports if the item *)
(* is one, and the points.                                                 *)
LEMMA AutoApproveStep ==
  ASSUME TypeOK, NEW s \in Sessions, NEW i \in Suggestions, AtSubmit(s, i),
         \/ i \notin Reports /\ ItemDone(s, AutoApprove(txn[s], i))
         \/ i \in Reports /\ ItemDone(s, AutoApprove(CountReports(txn[s], status), i))
  PROVE  Step(s)
  <1> DEFINE t == txn[s]
             c == IF i \in Reports THEN CountReports(t, status) ELSE t
             w == [c EXCEPT !.write[i] = "auto"]
             a == CreditAward(w, i)
             n == Finished(a)
  <1>0. /\ t \in Txn /\ t.pc = "apply" /\ t.item = i /\ t.request = "submit"
        /\ i \in Items /\ "auto" \in Statuses /\ "auto" \in Approved
        /\ "auto" \notin {"rejected", "pending"}
    BY DEF TypeOK, AtSubmit, At, Items, Suggestions, Statuses, Approved
  <1>1. ItemDone(s, a)
    BY DEF AutoApprove
  <1>2. /\ c \in Txn /\ c.write = t.write /\ SameFlow(t, c) /\ SameCredit(t, c)
        /\ c.new = t.new /\ c.public = t.public /\ c.hide = t.hide /\ c.done = t.done
        /\ i \notin Reports => c.block = t.block
        /\ i \in Reports => "stream" \in c.read /\ c.block = (t.block \/ Enough(status))
    BY <1>0, CountReportsFields DEF SameFlow, SameCredit
  <1> HIDE DEF c
  <1>3. /\ w \in Txn /\ w.write = [c.write EXCEPT ![i] = "auto"]
        /\ SameFlow(c, w) /\ SameReads(c, w) /\ SameCredit(c, w) /\ SameStream(c, w)
    BY <1>0, <1>2, WriteFields
  <1> HIDE DEF w
  <1>4. /\ a \in Txn /\ a.write = w.write /\ SameFlow(w, a) /\ SameReads(w, a)
        /\ SameStream(w, a) /\ a.fined = w.fined /\ a.awarded \subseteq w.awarded \cup {i}
    BY <1>0, <1>3, CreditAwardFields
  <1> HIDE DEF a
  <1>5. /\ n \in Txn /\ n.pc = IF a.todo = {} THEN "commit" ELSE "next"
        /\ n.write = a.write /\ SameFlow(a, n) /\ SameReads(a, n) /\ SameCredit(a, n)
        /\ SameStream(a, n)
    BY <1>4, FinishedFields
  <1> HIDE DEF n
  <1>6. Settled(t, n, i, "auto")
    BY <1>0, <1>2, <1>3, <1>4, <1>5
    DEF Settled, SameFlow, SameReads, SameCredit, SameStream
  <1>7. Moved(t, n)
    BY <1>0, <1>6 DEF Moved
  <1> QED
    BY <1>1, <1>4, <1>7, ItemDoneStep DEF n

LEMMA LeavePendingStep ==
  ASSUME TypeOK, NEW s \in Sessions, NEW i \in Suggestions, AtSubmit(s, i),
         ItemDone(s, LeavePending(txn[s], i))
  PROVE  Step(s)
  <1> DEFINE t == txn[s]
             w == [t EXCEPT !.write[i] = "pending"]
             n == Finished(w)
  <1>0. /\ t \in Txn /\ t.pc = "apply" /\ t.item = i /\ t.request = "submit"
        /\ i \in Items /\ "pending" \in Statuses
        /\ "pending" \notin Approved \cup {"rejected"}
    BY DEF TypeOK, AtSubmit, At, Items, Suggestions, Statuses, Approved
  <1>1. ItemDone(s, w)
    BY DEF LeavePending
  <1>3. /\ w \in Txn /\ w.write = [t.write EXCEPT ![i] = "pending"]
        /\ SameFlow(t, w) /\ SameReads(t, w) /\ SameCredit(t, w) /\ SameStream(t, w)
    BY <1>0, WriteFields
  <1> HIDE DEF w
  <1>5. /\ n \in Txn /\ n.pc = IF w.todo = {} THEN "commit" ELSE "next"
        /\ n.write = w.write /\ SameFlow(w, n) /\ SameReads(w, n) /\ SameCredit(w, n)
        /\ SameStream(w, n)
    BY <1>3, FinishedFields
  <1> HIDE DEF n
  <1>6. Settled(t, n, i, "pending")
    BY <1>0, <1>3, <1>5 DEF Settled, SameFlow, SameReads, SameCredit, SameStream
  <1>7. Moved(t, n)
    BY <1>0, <1>6 DEF Moved
  <1> QED
    BY <1>1, <1>3, <1>7, ItemDoneStep DEF n

LEMMA SuggestSteps ==
  ASSUME TypeOK, NEW s \in Sessions, NEW i \in Items,
         \/ CreateStreamSuggestion(s, i) \/ CreateSuggestion(s, i)
         \/ CreateEpisodeSuggestion(s, i)
  PROVE  Step(s)
  <1>1. CASE CreateStreamSuggestion(s, i)
    <2>1. i \in Suggestions /\ i \in Reports /\ AtSubmit(s, i)
      BY <1>1 DEF CreateStreamSuggestion, Suggestions
    <2>2. \/ Become(s, Idle)
          \/ ItemDone(s, AutoApprove(CountReports(txn[s], status), i))
          \/ ItemDone(s, LeavePending(txn[s], i))
      BY <1>1 DEF CreateStreamSuggestion
    <2> QED
      BY <2>1, <2>2, RefusedStep, AutoApproveStep, LeavePendingStep
  <1>2. CASE CreateSuggestion(s, i) \/ CreateEpisodeSuggestion(s, i)
    <2>1. i \in Suggestions /\ i \notin Reports /\ AtSubmit(s, i)
      BY <1>2, ModerationAssumption
      DEF CreateSuggestion, CreateEpisodeSuggestion, Suggestions
    <2>2. \/ ItemDone(s, AutoApprove(txn[s], i))
          \/ ItemDone(s, LeavePending(txn[s], i))
      BY <1>2 DEF CreateSuggestion, CreateEpisodeSuggestion, SuggestEdit, FailedApply
    <2> QED
      BY <2>1, <2>2, AutoApproveStep, LeavePendingStep
  <1> QED
    BY <1>1, <1>2

LEMMA OpenReviewStep ==
  ASSUME TypeOK, NEW s \in Sessions,
         \/ \E i \in Items : BeginReview(s, i)
         \/ \E todo \in SUBSET Imports : BulkReviewContributions(s, todo)
         \/ \E kind \in {Reports, Edits, Episodes} :
              \E todo \in SUBSET kind : BulkReviewSuggestions(s, todo)
  PROVE  Step(s)
  <1>0. {"approve", "reject"} \subseteq Requests /\ "stream" \notin Items
    BY ModerationAssumption DEF Requests
  <1>1. CASE \E i \in Items : BeginReview(s, i)
    <2> PICK i \in Items : BeginReview(s, i)
      BY <1>1
    <2> PICK verdict \in {"approve", "reject"} :
               Begin(s, Review(verdict, FALSE, "author", {}, i, {i}))
      BY DEF BeginReview
    <2> DEFINE n == Review(verdict, FALSE, "author", {}, i, {i})
    <2>0. {i} \in SUBSET Row /\ verdict \in Requests
      BY <1>0 DEF Row
    <2>1. /\ n \in Txn /\ Blank(n) /\ n.stale = {}
          /\ n.request = verdict /\ n.pc = "author" /\ n.todo = {} /\ n.item = i
          /\ n.read = {i}
      BY <2>0, IdleType DEF Review, Idle, Txn, Blank
    <2> HIDE DEF n
    <2>2. txn[s].pc = "idle" /\ status[i] = "pending"
      BY DEF Begin, At, BeginReview
    <2>3. ReviewOpened(txn[s], n)
      BY <1>0, <2>1, <2>2 DEF ReviewOpened
    <2> QED
      BY <2>1, <2>3, BeginStep DEF Moved, n
  <1>2. CASE \E todo \in SUBSET Imports : BulkReviewContributions(s, todo)
    <2> PICK todo \in SUBSET Imports : BulkReviewContributions(s, todo)
      BY <1>2
    <2> PICK verdict \in {"approve", "reject"} :
               Begin(s, Review(verdict, TRUE, "next", todo, NoItem, todo))
      BY DEF BulkReviewContributions
    <2> DEFINE n == Review(verdict, TRUE, "next", todo, NoItem, todo)
    <2>0. todo \subseteq Items
      BY DEF Items
    <2>1. /\ n \in Txn /\ Blank(n) /\ n.stale = {}
          /\ n.request = verdict /\ n.pc = "next" /\ n.todo = todo /\ n.read = todo
      BY <1>0, <2>0, IdleType DEF Review, Idle, Txn, Blank, Row, Requests
    <2> HIDE DEF n
    <2>2. txn[s].pc = "idle" /\ \A i \in todo : status[i] = "pending"
      BY DEF Begin, At, BulkReviewContributions
    <2>3. ReviewOpened(txn[s], n)
      BY <1>0, <2>0, <2>1, <2>2 DEF ReviewOpened
    <2> QED
      BY <2>1, <2>3, BeginStep DEF Moved, n
  <1>3. CASE \E kind \in {Reports, Edits, Episodes} :
               \E todo \in SUBSET kind : BulkReviewSuggestions(s, todo)
    <2> PICK kind \in {Reports, Edits, Episodes} :
               \E todo \in SUBSET kind : BulkReviewSuggestions(s, todo)
      BY <1>3
    <2> PICK todo \in SUBSET kind : BulkReviewSuggestions(s, todo)
      OBVIOUS
    <2> PICK verdict \in {"approve", "reject"} :
               Begin(s, Review(verdict, TRUE, "next", todo, NoItem, {}))
      BY DEF BulkReviewSuggestions
    <2> DEFINE n == Review(verdict, TRUE, "next", todo, NoItem, {})
    <2>0. todo \subseteq Items /\ todo \cap Imports = {}
      BY ModerationAssumption DEF Items, Suggestions
    <2>1. /\ n \in Txn /\ Blank(n) /\ n.stale = {}
          /\ n.request = verdict /\ n.pc = "next" /\ n.todo = todo /\ n.read = {}
      BY <1>0, <2>0, IdleType DEF Review, Idle, Txn, Blank, Row, Requests
    <2> HIDE DEF n
    <2>2. txn[s].pc = "idle"
      BY DEF Begin, At
    <2>3. ReviewOpened(txn[s], n)
      BY <1>0, <2>0, <2>1, <2>2 DEF ReviewOpened
    <2> QED
      BY <2>1, <2>3, BeginStep DEF Moved, n
  <1> QED
    BY <1>1, <1>2, <1>3

LEMMA OpenWriteStep ==
  ASSUME TypeOK, NEW s \in Sessions, NEW i \in Items,
         RejectApproved(s, i) \/ DeleteContribution(s, i) \/ DeleteSuggestion(s, i)
  PROVE  Step(s)
  <1> DEFINE strike == RejectApproved(s, i)
             verdict == IF strike THEN "strike" ELSE "delete"
             pc == IF strike THEN "apply" ELSE "commit"
             v == IF strike THEN "rejected" ELSE "deleted"
             m == Review(verdict, FALSE, pc, {}, i, {i})
             n == [m EXCEPT !.write[i] = v]
  <1>0. /\ verdict \in Requests /\ v \in Statuses
        /\ pc \in {"next", "author", "apply", "commit"} /\ {i} \in SUBSET Row
    BY DEF Requests, Statuses, Row
  <1>1. Begin(s, n) /\ txn[s].pc = "idle"
    BY DEF RejectApproved, DeleteContribution, DeleteSuggestion, Begin, At
  <1>2. /\ strike => i \in Imports /\ status[i] = "approved"
        /\ ~strike => status[i] \in Stored /\ (i \in Suggestions => status[i] = "pending")
    BY ModerationAssumption
    DEF RejectApproved, DeleteContribution, DeleteSuggestion, Stored, Statuses
  <1>3. verdict = IF strike THEN "strike" ELSE "delete"
    OBVIOUS
  <1>4. pc = IF strike THEN "apply" ELSE "commit"
    OBVIOUS
  <1>5. v = IF strike THEN "rejected" ELSE "deleted"
    OBVIOUS
  <1> HIDE DEF strike, verdict, pc, v
  <1>6. /\ m \in Txn /\ Blank(m) /\ m.stale = {}
        /\ m.request = verdict /\ m.pc = pc /\ m.todo = {} /\ m.item = i
        /\ m.read = {i}
    BY <1>0, IdleType DEF Review, Idle, Txn, Blank
  <1> HIDE DEF m
  <1>7. /\ n \in Txn /\ n.pc = m.pc /\ n.write = [m.write EXCEPT ![i] = v]
        /\ SameFlow(m, n) /\ SameReads(m, n) /\ SameCredit(m, n) /\ SameStream(m, n)
    BY <1>0, <1>6, WriteFields
  <1> HIDE DEF n
  <1>8. WriteOpened(txn[s], n, i, v)
    BY <1>1, <1>2, <1>3, <1>4, <1>5, <1>6, <1>7
    DEF WriteOpened, Blank, SameFlow, SameReads, SameCredit, SameStream
  <1>9. Moved(txn[s], n)
    BY <1>0, <1>8 DEF Moved
  <1> QED
    BY <1>1, <1>7, <1>9, BeginStep

LEMMA NextItemStep ==
  ASSUME TypeOK, NEW s \in Sessions, NEW i \in Items, NextItem(s, i)
  PROVE  Step(s)
  <1> DEFINE t == txn[s]
             m == [t EXCEPT !.todo = @ \ {i}, !.item = i, !.read = @ \cup {i}]
             a == [m EXCEPT !.pc = "author"]
             n == Finished(m)
  <1>0. t \in Txn /\ t.pc = "next" /\ i \in t.todo /\ i # "stream"
    BY ModerationAssumption DEF TypeOK, NextItem, At
  <1>1. /\ m \in Txn /\ m.request = t.request /\ m.write = t.write
        /\ m.todo = t.todo \ {i} /\ m.item = i /\ m.read = t.read \cup {i}
        /\ SameCredit(t, m) /\ SameStream(t, m) /\ m.stale = t.stale
    BY <1>0 DEF Txn, Row, SameCredit, SameStream
  <1>2. IF i \in Imports \/ status[i] = "pending" THEN Become(s, a) ELSE ItemDone(s, m)
    BY DEF NextItem
  <1> HIDE DEF m
  <1>3. CASE i \in Imports \/ status[i] = "pending"
    <2>1. /\ a \in Txn /\ a.pc = "author" /\ a.request = m.request /\ a.write = m.write
          /\ a.todo = m.todo /\ a.item = m.item /\ SameReads(m, a)
          /\ SameCredit(m, a) /\ SameStream(m, a)
      BY <1>1 DEF Txn, SameCredit, SameStream, SameReads
    <2> HIDE DEF a
    <2>2. Advanced(t, a)
      BY <1>0, <1>1, <1>3, <2>1 DEF Advanced, SameCredit, SameStream, SameReads
    <2> QED
      BY <1>2, <1>3, <2>1, <2>2, BecomeStep DEF Moved
  <1>4. CASE ~(i \in Imports \/ status[i] = "pending")
    <2>1. /\ n \in Txn /\ n.pc \in {"commit", "next"} /\ n.write = m.write
          /\ SameFlow(m, n) /\ SameReads(m, n) /\ SameCredit(m, n) /\ SameStream(m, n)
      BY <1>1, FinishedFields
    <2> HIDE DEF n
    <2>2. Advanced(t, n)
      BY <1>0, <1>1, <2>1 DEF Advanced, SameFlow, SameCredit, SameStream, SameReads
    <2> QED
      BY <1>1, <1>2, <1>4, <2>1, <2>2, ItemDoneStep DEF Moved, n
  <1> QED
    BY <1>3, <1>4

LEMMA ReadAuthorStep ==
  ASSUME TypeOK, LookupOK, NEW s \in Sessions, ReadAuthor(s)
  PROVE  Step(s)
  <1> DEFINE t == txn[s]
             i == t.item
             m == LoadAuthor(t, i)
             n == [m EXCEPT !.pc = "apply"]
  <1>0. t \in Txn /\ t.pc = "author" /\ i \in Items /\ points \in [Users -> Nat]
    BY DEF TypeOK, LookupOK, ReadAuthor, At
  <1>1. /\ m \in Txn /\ m.pc = t.pc /\ m.write = t.write
        /\ SameFlow(t, m) /\ SameCredit(t, m) /\ SameStream(t, m)
        /\ m.stale = t.stale /\ t.read \subseteq m.read
        /\ m.read \subseteq t.read \cup Users
    BY <1>0, LoadAuthorFields
  <1>2. Become(s, n)
    BY DEF ReadAuthor
  <1> HIDE DEF m
  <1>3. /\ n \in Txn /\ n.pc = "apply" /\ n.write = m.write /\ SameFlow(m, n)
        /\ SameReads(m, n) /\ SameCredit(m, n) /\ SameStream(m, n)
    BY <1>1 DEF Txn, SameFlow, SameCredit, SameStream, SameReads
  <1> HIDE DEF n
  <1>4. "stream" \notin Users
    BY ModerationAssumption
  <1>5. Advanced(t, n)
    BY <1>0, <1>1, <1>3, <1>4
    DEF Advanced, SameFlow, SameCredit, SameStream, SameReads
  <1> QED
    BY <1>2, <1>3, <1>5, BecomeStep DEF Moved

(* A review that decides nothing.                                          *)
LEMMA PassedStep ==
  ASSUME TypeOK, NEW s \in Sessions, NEW i \in Items, Reviewing(s, i, "approve"),
         ItemDone(s, txn[s])
  PROVE  Step(s)
  <1> DEFINE t == txn[s]
             n == Finished(t)
  <1>0. t \in Txn /\ t.pc = "apply" /\ t.request = "approve"
    BY DEF TypeOK, Reviewing, At
  <1>1. /\ n \in Txn /\ n.pc \in {"commit", "next"} /\ n.write = t.write
        /\ SameFlow(t, n) /\ SameReads(t, n) /\ SameCredit(t, n) /\ SameStream(t, n)
    BY <1>0, FinishedFields
  <1> HIDE DEF n
  <1>2. Advanced(t, n)
    BY <1>0, <1>1 DEF Advanced, SameFlow, SameCredit, SameStream, SameReads
  <1> QED
    BY <1>0, <1>1, <1>2, ItemDoneStep DEF Moved, n

(* The status of the item in hand is written and its points are given or   *)
(* not; an import may be processed besides.                                *)
LEMMA VerdictStep ==
  ASSUME TypeOK, NEW s \in Sessions, NEW i \in Items, NEW r \in {"approve", "reject"},
         Reviewing(s, i, r), NEW v \in Statuses,
         v = IF r = "approve" THEN "approved" ELSE "rejected",
         NEW m \in Txn, m.write = [txn[s].write EXCEPT ![i] = v],
         SameFlow(txn[s], m), SameReads(txn[s], m), SameStream(txn[s], m),
         m.awarded \subseteq txn[s].awarded \cup {i},
         m.fined \subseteq txn[s].fined \cup {i},
         v \notin Approved => m.awarded = txn[s].awarded,
         v # "rejected" => m.fined = txn[s].fined,
         \/ (i \notin Reports \/ v = "rejected") /\ ItemDone(s, m)
         \/ i \in Imports /\ r = "approve" /\ ItemDone(s, ProcessImport(m, i, TRUE))
  PROVE  Step(s)
  <1> DEFINE t == txn[s]
  <1>0. /\ t \in Txn /\ t.pc = "apply" /\ t.item = i /\ t.request = r /\ stream \in Stream
        /\ v = "rejected" => v \notin Approved
        /\ v = "approved" => v \in Approved
        /\ i \in Imports => i \notin Reports
    BY ModerationAssumption DEF TypeOK, Reviewing, At, Approved, Suggestions
  <1>1. CASE ItemDone(s, m) /\ (i \notin Reports \/ v = "rejected")
    <2> DEFINE n == Finished(m)
    <2>1. /\ n \in Txn /\ n.pc = IF m.todo = {} THEN "commit" ELSE "next"
          /\ n.write = m.write
          /\ SameFlow(m, n) /\ SameReads(m, n) /\ SameCredit(m, n) /\ SameStream(m, n)
      BY FinishedFields
    <2> HIDE DEF n
    <2>2. Settled(t, n, i, v)
      BY <1>0, <1>1, <2>1 DEF Settled, SameFlow, SameReads, SameCredit, SameStream
    <2>3. Moved(t, n)
      BY <2>2 DEF Moved
    <2> QED
      BY <1>1, <2>3, ItemDoneStep DEF n
  <1>2. CASE i \in Imports /\ r = "approve" /\ ItemDone(s, ProcessImport(m, i, TRUE))
    <2> DEFINE p == ProcessImport(m, i, TRUE)
               n == Finished(p)
    <2>0. /\ p \in Txn /\ p.write = m.write /\ SameFlow(m, p) /\ SameCredit(m, p)
          /\ p.read = m.read \cup {"stream"} /\ p.stale = m.stale
          /\ p.hide = m.hide /\ p.block = m.block /\ Processed(m, p, i, TRUE)
      BY <1>0, <1>2, ProcessFields
    <2>4. ItemDone(s, p)
      BY <1>2
    <2> HIDE DEF p
    <2>1. /\ n \in Txn /\ n.pc = IF p.todo = {} THEN "commit" ELSE "next"
          /\ n.write = p.write
          /\ SameFlow(p, n) /\ SameReads(p, n) /\ SameCredit(p, n) /\ SameStream(p, n)
      BY <2>0, FinishedFields
    <2> HIDE DEF n
    <2>5. Processed(t, n, i, v \in Approved)
      BY <1>0, <1>2, <2>0, <2>1 DEF Processed, SameStream
    <2>2. Settled(t, n, i, v)
      BY <1>0, <1>2, <2>0, <2>1, <2>5
      DEF Settled, SameFlow, SameReads, SameCredit, SameStream
    <2>3. Moved(t, n)
      BY <2>2 DEF Moved
    <2> QED
      BY <2>0, <2>3, <2>4, ItemDoneStep DEF n
  <1> QED
    BY <1>1, <1>2

LEMMA ApproveSteps ==
  ASSUME TypeOK, NEW s \in Sessions, NEW i \in Items,
         \/ ApproveContribution(s, i) \/ ApproveSuggestion(s, i)
         \/ ApproveEpisodeSuggestion(s, i)
  PROVE  Step(s)
  <1> DEFINE t == txn[s]
             w == [t EXCEPT !.write[i] = "approved"]
             a == CreditAward(w, i)
  <1>0. /\ Reviewing(s, i, "approve") /\ i \notin Reports /\ "approved" \in Statuses
        /\ t \in Txn /\ "approved" \in Approved
    BY ModerationAssumption
    DEF ApproveContribution, ApproveSuggestion, ApproveEpisodeSuggestion, TypeOK,
        Suggestions, Statuses, Approved
  <1>1. \/ ItemDone(s, t) \/ ItemDone(s, w) \/ ItemDone(s, a)
        \/ i \in Imports /\ ItemDone(s, ProcessImport(a, i, TRUE))
    BY DEF ApproveContribution, ApproveSuggestion, ApproveEpisodeSuggestion
  <1>2. /\ w \in Txn /\ w.write = [t.write EXCEPT ![i] = "approved"]
        /\ SameFlow(t, w) /\ SameReads(t, w) /\ SameCredit(t, w) /\ SameStream(t, w)
    BY <1>0, WriteFields
  <1> HIDE DEF w
  <1>3. /\ a \in Txn /\ a.write = w.write /\ SameFlow(w, a) /\ SameReads(w, a)
        /\ SameStream(w, a) /\ a.fined = w.fined /\ a.awarded \subseteq w.awarded \cup {i}
    BY <1>2, CreditAwardFields
  <1> HIDE DEF a
  <1>4. CASE ItemDone(s, t)
    BY <1>0, <1>4, PassedStep
  <1>5. CASE ItemDone(s, w)
    BY <1>0, <1>2, <1>5, VerdictStep DEF SameCredit
  <1>6. /\ a.write = [t.write EXCEPT ![i] = "approved"]
        /\ SameFlow(t, a) /\ SameReads(t, a) /\ SameStream(t, a)
        /\ a.fined = t.fined /\ a.awarded \subseteq t.awarded \cup {i}
    BY <1>2, <1>3 DEF SameFlow, SameReads, SameStream, SameCredit
  <1>7. CASE ItemDone(s, a) \/ (i \in Imports /\ ItemDone(s, ProcessImport(a, i, TRUE)))
    BY <1>0, <1>3, <1>6, <1>7, VerdictStep
  <1> QED
    BY <1>1, <1>4, <1>5, <1>7

LEMMA RejectSteps ==
  ASSUME TypeOK, NEW s \in Sessions, NEW i \in Items,
         RejectContribution(s, i) \/ RejectSuggestion(s, i)
  PROVE  Step(s)
  <1> DEFINE t == txn[s]
             w == [t EXCEPT !.write[i] = "rejected"]
             c == CreditPenalty(w, i)
  <1>0. /\ Reviewing(s, i, "reject") /\ "rejected" \in Statuses
        /\ t \in Txn /\ "rejected" \notin Approved
    BY DEF RejectContribution, RejectSuggestion, TypeOK, Statuses, Approved
  <1>1. ItemDone(s, w) \/ (i \in Suggestions /\ ItemDone(s, c))
    BY DEF RejectContribution, RejectSuggestion
  <1>2. /\ w \in Txn /\ w.write = [t.write EXCEPT ![i] = "rejected"]
        /\ SameFlow(t, w) /\ SameReads(t, w) /\ SameCredit(t, w) /\ SameStream(t, w)
    BY <1>0, WriteFields
  <1> HIDE DEF w
  <1>3. CASE ItemDone(s, w)
    BY <1>0, <1>2, <1>3, VerdictStep DEF SameCredit
  <1>4. CASE i \in Suggestions /\ ItemDone(s, c)
    <2>1. /\ c \in Txn /\ c.write = w.write /\ SameFlow(w, c) /\ SameReads(w, c)
          /\ SameStream(w, c) /\ c.awarded = w.awarded /\ c.fined = w.fined \cup {i}
      BY <1>2, <1>4, CreditPenaltyFields
    <2>2. ItemDone(s, c)
      BY <1>4
    <2> HIDE DEF c
    <2>3. /\ c.write = [t.write EXCEPT ![i] = "rejected"]
          /\ SameFlow(t, c) /\ SameReads(t, c) /\ SameStream(t, c)
          /\ c.awarded = t.awarded /\ c.fined \subseteq t.fined \cup {i}
      BY <1>2, <2>1 DEF SameFlow, SameReads, SameStream, SameCredit
    <2> QED
      BY <1>0, <2>1, <2>2, <2>3, VerdictStep
  <1> QED
    BY <1>1, <1>3, <1>4

LEMMA ApproveReportStep ==
  ASSUME TypeOK, NEW s \in Sessions, NEW i \in Items, ApproveStreamSuggestion(s, i)
  PROVE  Step(s)
  <1> DEFINE t == txn[s]
             w == [t EXCEPT !.write[i] = "approved"]
             c == CountReports(w, Overlay(w))
             a == CreditAward(c, i)
             n == Finished(a)
  <1>0. /\ t \in Txn /\ t.pc = "apply" /\ t.item = i /\ t.request = "approve"
        /\ i \in Reports /\ "approved" \in Statuses /\ "approved" \in Approved
    BY DEF TypeOK, ApproveStreamSuggestion, Reviewing, At, Statuses, Approved
  <1>1. ItemDone(s, a)
    BY DEF ApproveStreamSuggestion, Overlay
  <1>2. /\ w \in Txn /\ w.write = [t.write EXCEPT ![i] = "approved"]
        /\ SameFlow(t, w) /\ SameReads(t, w) /\ SameCredit(t, w) /\ SameStream(t, w)
    BY <1>0, WriteFields
  <1> HIDE DEF w
  <1>3. /\ c \in Txn /\ c.write = w.write /\ SameFlow(w, c) /\ SameCredit(w, c)
        /\ c.read = w.read \cup {"stream"} /\ c.stale = w.stale
        /\ c.new = w.new /\ c.public = w.public /\ c.hide = w.hide /\ c.done = w.done
        /\ c.block = (w.block \/ Enough(Overlay(w)))
    BY <1>2, CountReportsFields
  <1> HIDE DEF c
  <1>4. /\ a \in Txn /\ a.write = c.write /\ SameFlow(c, a) /\ SameReads(c, a)
        /\ SameStream(c, a) /\ a.fined = c.fined /\ a.awarded \subseteq c.awarded \cup {i}
    BY <1>3, CreditAwardFields
  <1> HIDE DEF a
  <1>5. /\ n \in Txn /\ n.pc = IF a.todo = {} THEN "commit" ELSE "next"
        /\ n.write = a.write /\ SameFlow(a, n) /\ SameReads(a, n) /\ SameCredit(a, n)
        /\ SameStream(a, n)
    BY <1>4, FinishedFields
  <1> HIDE DEF n
  <1>6. Overlay(n) = Overlay(w)
    BY <1>3, <1>4, <1>5 DEF Overlay
  <1>7. Settled(t, n, i, "approved")
    BY <1>0, <1>2, <1>3, <1>4, <1>5, <1>6
    DEF Settled, SameFlow, SameReads, SameCredit, SameStream
  <1>8. Moved(t, n)
    BY <1>0, <1>7 DEF Moved
  <1> QED
    BY <1>1, <1>4, <1>8, ItemDoneStep DEF n

LEMMA HideStep ==
  ASSUME TypeOK, NEW s \in Sessions, NEW i \in Items, HideStream(s, i)
  PROVE  Step(s)
  <1> DEFINE t == txn[s]
             rd == IF stream.exists THEN t.read \cup {"stream"} ELSE t.read
             pb == IF stream.public THEN "no" ELSE t.public
             m == [t EXCEPT !.read = rd, !.public = pb, !.hide = stream.active]
             n == Finished(m)
  <1>0. t \in Txn /\ t.pc = "apply" /\ t.request = "strike" /\ stream.active \in BOOLEAN
    BY DEF TypeOK, HideStream, Reviewing, At, Stream
  <1>1. rd \in SUBSET Row /\ pb \in {"keep", "yes", "no"}
    BY <1>0 DEF Row, Txn
  <1>2. ItemDone(s, m)
    BY DEF HideStream
  <1>3. rd = (IF stream.exists THEN t.read \cup {"stream"} ELSE t.read)
    OBVIOUS
  <1>4. pb = IF stream.public THEN "no" ELSE t.public
    OBVIOUS
  <1> HIDE DEF rd, pb
  <1>5. /\ m \in Txn /\ m.pc = t.pc /\ m.write = t.write
        /\ SameFlow(t, m) /\ SameCredit(t, m)
        /\ m.stale = t.stale /\ m.read = rd /\ m.public = pb /\ m.hide = stream.active
        /\ m.new = t.new /\ m.block = t.block /\ m.done = t.done
    BY <1>0, <1>1 DEF Txn, SameFlow, SameCredit
  <1> HIDE DEF m
  <1>6. /\ n \in Txn /\ n.pc = IF m.todo = {} THEN "commit" ELSE "next"
        /\ n.write = m.write /\ SameFlow(m, n) /\ SameReads(m, n) /\ SameCredit(m, n)
        /\ SameStream(m, n)
    BY <1>5, FinishedFields
  <1> HIDE DEF n
  <1>7. Hidden(t, n)
    BY <1>0, <1>3, <1>4, <1>5, <1>6
    DEF Hidden, SameFlow, SameReads, SameCredit, SameStream
  <1> QED
    BY <1>2, <1>5, <1>7, ItemDoneStep DEF Moved, n

(* A step of the system is a commit or a step of one transaction.          *)
LEMMA NextSteps ==
  ASSUME TypeOK, LookupOK, Next
  PROVE  \E s \in Sessions : Step(s) \/ Commit(s)
  <1> PICK s \in Sessions :
      \/ ReadAuthor(s) \/ Commit(s) \/ Rollback(s)
      \/ \E todo \in SUBSET Imports : BulkReviewContributions(s, todo)
      \/ \E kind \in {Reports, Edits, Episodes} :
           \E todo \in SUBSET kind : BulkReviewSuggestions(s, todo)
      \/ \E i \in Items :
           \/ Submit(s, i)
           \/ ImportMagnet(s, i) \/ ImportTorrentFile(s, i) \/ ImportNzbFile(s, i)
           \/ ImportNzbUrl(s, i) \/ ImportYoutubeVideo(s, i) \/ CreateContribution(s, i)
           \/ CreateStreamSuggestion(s, i) \/ CreateSuggestion(s, i)
           \/ CreateEpisodeSuggestion(s, i)
           \/ BeginReview(s, i) \/ NextItem(s, i)
           \/ ApproveContribution(s, i) \/ RejectContribution(s, i)
           \/ ApproveStreamSuggestion(s, i) \/ ApproveSuggestion(s, i)
           \/ ApproveEpisodeSuggestion(s, i) \/ RejectSuggestion(s, i)
           \/ RejectApproved(s, i) \/ HideStream(s, i)
           \/ DeleteContribution(s, i) \/ DeleteSuggestion(s, i)
    BY DEF Next
  <1>1. CASE ReadAuthor(s)
    BY <1>1, ReadAuthorStep
  <1>2. CASE Commit(s)
    BY <1>2
  <1>3. CASE Rollback(s)
    BY <1>3, RefusedStep DEF Rollback
  <1>4. CASE \/ \E todo \in SUBSET Imports : BulkReviewContributions(s, todo)
             \/ \E kind \in {Reports, Edits, Episodes} :
                  \E todo \in SUBSET kind : BulkReviewSuggestions(s, todo)
             \/ \E i \in Items : BeginReview(s, i)
    BY <1>4, OpenReviewStep
  <1>5. ASSUME NEW i \in Items,
               \/ Submit(s, i)
               \/ ImportMagnet(s, i) \/ ImportTorrentFile(s, i) \/ ImportNzbFile(s, i)
               \/ ImportNzbUrl(s, i) \/ ImportYoutubeVideo(s, i)
               \/ CreateContribution(s, i)
               \/ CreateStreamSuggestion(s, i) \/ CreateSuggestion(s, i)
               \/ CreateEpisodeSuggestion(s, i) \/ NextItem(s, i)
        PROVE  Step(s)
    BY <1>5, SubmitStep, ImportSteps, SuggestSteps, NextItemStep
  <1>6. ASSUME NEW i \in Items,
               \/ ApproveContribution(s, i) \/ RejectContribution(s, i)
               \/ ApproveStreamSuggestion(s, i) \/ ApproveSuggestion(s, i)
               \/ ApproveEpisodeSuggestion(s, i) \/ RejectSuggestion(s, i)
               \/ RejectApproved(s, i) \/ HideStream(s, i)
               \/ DeleteContribution(s, i) \/ DeleteSuggestion(s, i)
        PROVE  Step(s)
    BY <1>6, ApproveSteps, RejectSteps, ApproveReportStep, HideStep, OpenWriteStep
  <1> QED
    BY <1>1, <1>2, <1>3, <1>4, <1>5, <1>6

-----------------------------------------------------------------------------
(***************************************************************************)
(* The inductive invariant                                                 *)
(***************************************************************************)

Submits(t) == t.request = "submit" /\ t.pc # "idle"

IdleOK(t) == t.pc = "idle" => t = Idle

(* A submission creates one item that does not exist before its commit.    *)
SubmitOK(t) ==
  Submits(t) =>
    /\ t.pc \in {"apply", "commit"} /\ t.todo = {} /\ t.item \in Items
    /\ status[t.item] = "absent"
    /\ t.pc = "apply" => Blank(t)
    /\ \A i \in Items : t.write[i] # "keep" => i = t.item

InHand(t, i) ==
  \/ t.write[i] # "keep"
  \/ t.pc \in {"author", "apply"} /\ t.item = i
  \/ i \in t.todo /\ i \in Imports

(* Every other request works on items that it has read, and a review on    *)
(* items that are pending unless another commit changed them since.        *)
ReviewOK(t) ==
  t.request # "submit" =>
    /\ t.pc \in {"author", "apply"} => t.item \in Items
    /\ \A i \in Items : InHand(t, i) =>
         /\ i \in t.read /\ status[i] # "absent"
         /\ (t.request \in {"approve", "reject"} \/ (t.request = "delete" /\ i \in Suggestions))
              => status[i] = "pending" \/ i \in t.stale
         /\ t.request = "strike" => status[i] # "pending"

(* What a request of each kind may write.                                  *)
VerdictOK(t) ==
  /\ \A i \in Items :
       /\ t.request = "submit" => t.write[i] \in {"keep", "pending"} \cup Approved
       /\ t.request = "approve" => t.write[i] \in {"keep", "approved"}
       /\ t.request \in {"reject", "strike"} => t.write[i] \in {"keep", "rejected"}
       /\ t.request = "delete" => t.write[i] \in {"keep", "deleted"}
  /\ t.request \in {"strike", "delete"} =>
       /\ \A i \in Items : t.write[i] # "keep" => i = t.item
       /\ t.awarded = {} /\ t.fined = {} /\ t.todo = {}
       /\ t.pc \in {"apply", "commit"}
       /\ t.item \in Items /\ t.write[t.item] # "keep"
  /\ t.request = "strike" => t.item \in Imports

(* Points go with the verdict on the item.                                 *)
CreditOK(t) ==
  /\ \A i \in t.awarded : t.write[i] \in Approved
  /\ \A i \in t.fined : t.write[i] = "rejected"

FlowOK(t) == IdleOK(t) /\ SubmitOK(t) /\ ReviewOK(t) /\ VerdictOK(t) /\ CreditOK(t)

SoleSubmit ==
  \A s, r \in Sessions :
    s # r /\ Submits(txn[s]) /\ Submits(txn[r]) => txn[s].item # txn[r].item

FlowInv == (\A s \in Sessions : FlowOK(txn[s])) /\ SoleSubmit /\ SettledOnce

(* What a transaction knows of the stream it is going to write.            *)
Unraced == ~erased /\ raced \cap (Imports \cup {"stream"}) = {}

LookOK(t) ==
  /\ \A i \in t.done : t.write[i] \in Approved
  /\ t.done # {} => /\ t.new \/ stream.exists
                    /\ \/ t.public = "yes"
                       \/ t.public = "keep" /\ (stream.public \/ struck)
  /\ t.public = "yes" => t.done # {}
  /\ t.public = "no" => \/ t.request = "strike" /\ "stream" \in t.read
                        \/ t.new /\ t.done = {}
  /\ t.request \notin {"submit", "approve"} => ~t.new /\ t.done = {}
  /\ t.hide => t.request = "strike" /\ "stream" \in t.read
  /\ t.request = "strike" =>
       /\ "stream" \in t.read => stream.exists /\ (t.hide \/ struck)
       /\ t.pc = "commit" /\ "stream" \notin t.read /\ Unraced => t.item \notin published

StreamInv ==
  /\ published # {} => stream.exists
  /\ stream.public \/ struck => stream.exists
  /\ stream.active <=> stream.exists /\ ~struck
  /\ Unraced /\ ~struck =>
       /\ stream.public <=> published # {}
       /\ \A i \in published : status[i] \in Approved

LookInv == (\A s \in Sessions : LookOK(txn[s])) /\ StreamInv

(* What a transaction knows of the reports.                                *)
ApprovesReport(t) == \E r \in Reports : t.write[r] \in Approved

BlockOK(t) ==
  /\ t.block \/ ApprovesReport(t) => "stream" \in t.read
  /\ t.block => AutoBlock /\ ApprovesReport(t)
  /\ CountedAlone /\ t.block => Cardinality(Reporters(Overlay(t))) >= Threshold - 1
  /\ (/\ CountedAlone /\ ApprovesReport(t) /\ "stream" \notin t.stale
      /\ AutoBlock /\ Cardinality(Reporters(Overlay(t))) >= Threshold)
       => t.block \/ stream.blocked

BlockInv == (\A s \in Sessions : BlockOK(txn[s])) /\ BlockedByReports

-----------------------------------------------------------------------------
(***************************************************************************)
(* Types                                                                   *)
(***************************************************************************)

(* A transaction that another one's commit has overtaken.                  *)
Overtaken(t, n, changed) ==
  /\ n \in Txn /\ n.pc = t.pc /\ n.write = t.write /\ n.read = t.read
  /\ n.base = t.base /\ n.gain = t.gain
  /\ SameFlow(t, n) /\ SameCredit(t, n) /\ SameStream(t, n)
  /\ n.stale = t.stale \cup (changed \cap t.read)

LEMMA InitType == Init => TypeOK
  <1> SUFFICES ASSUME Init PROVE TypeOK
    OBVIOUS
  <1>1. status \in [Items -> Statuses]
    BY DEF Init, Statuses
  <1>2. stream \in Stream
    <2>1. NoStream \in Stream /\ [NoStream EXCEPT !.exists = TRUE, !.active = TRUE] \in Stream
      BY DEF Stream, NoStream
    <2> QED
      BY <2>1 DEF Init
  <1>3. txn \in [Sessions -> Txn]
    BY IdleType DEF Init
  <1>4. requests \in 0..MaxRequests
    BY ModerationAssumption DEF Init
  <1> QED
    BY <1>1, <1>2, <1>3, <1>4 DEF Init, TypeOK

LEMMA StepType ==
  ASSUME TypeOK, NEW s \in Sessions, Step(s)
  PROVE  TypeOK'
  BY DEF TypeOK, Step, history

LEMMA CommitOthers ==
  ASSUME TypeOK, NEW s \in Sessions, Commit(s)
  PROVE  /\ txn' \in [Sessions -> Txn] /\ txn'[s] = Idle
         /\ \A r \in Sessions \ {s} : Overtaken(txn[r], txn'[r], Changed(txn[s]))
  <1> DEFINE c == Changed(txn[s])
  <1>1. txn' = [r \in Sessions |-> IF r = s THEN Idle
                  ELSE [txn[r] EXCEPT !.stale = @ \cup (c \cap txn[r].read)]]
    BY DEF Commit
  <1> HIDE DEF c
  <1>2. ASSUME NEW r \in Sessions \ {s}
        PROVE  Overtaken(txn[r], txn'[r], c)
    <2> DEFINE t == txn[r]
               x == t.stale \cup (c \cap t.read)
               n == [t EXCEPT !.stale = x]
    <2>1. t \in Txn /\ txn'[r] = n
      BY <1>1 DEF TypeOK
    <2> HIDE DEF t
    <2>2. x \in SUBSET Row
      BY <2>1 DEF Txn
    <2> HIDE DEF x
    <2>3. Overtaken(t, n, c)
      <3>1. n \in Txn
        BY <2>1, <2>2 DEF Txn
      <3>2. /\ n.pc = t.pc /\ n.write = t.write /\ n.read = t.read /\ n.stale = x
            /\ n.base = t.base /\ n.gain = t.gain
            /\ SameFlow(t, n) /\ SameCredit(t, n) /\ SameStream(t, n)
        BY <2>1 DEF Txn, SameFlow, SameCredit, SameStream
      <3> QED
        BY <3>1, <3>2 DEF Overtaken, x
    <2> QED
      BY <2>1, <2>3 DEF t
  <1>3. txn'[s] = Idle
    BY <1>1
  <1>4. \A r \in Sessions : txn'[r] \in Txn
    BY <1>2, <1>3, IdleType DEF Overtaken
  <1> QED
    BY <1>1, <1>2, <1>3, <1>4 DEF c

LEMMA CommitType ==
  ASSUME TypeOK, NEW s \in Sessions, Commit(s)
  PROVE  TypeOK'
  <1> DEFINE t == txn[s]
  <1>0. t \in Txn
    BY DEF TypeOK
  <1>1. status' = [i \in Items |-> IF t.write[i] = "keep" THEN status[i] ELSE t.write[i]]
    BY DEF Commit
  <1>2. status' \in [Items -> Statuses]
    BY <1>0, <1>1 DEF TypeOK, Txn
  <1>3. points' = [u \in Users |->
                     IF PointsIn(t, u) # t.base[u] THEN PointsIn(t, u) ELSE points[u]]
    BY DEF Commit
  <1>4. points' \in [Users -> Nat]
    BY <1>0, <1>3, PointsInType DEF TypeOK
  <1>5. stream' \in Stream
    BY <1>0 DEF Commit, CommitStream, TypeOK, Stream, Txn
  <1>6. Changed(t) \subseteq Row
    BY DEF Changed, Row
  <1>7. raced' \subseteq Row
    BY <1>0, <1>6 DEF Commit, TypeOK
  <1>8. published' \subseteq Imports /\ struck' \in BOOLEAN /\ erased' \in BOOLEAN
    BY <1>0 DEF Commit, TypeOK, Txn
  <1>9. awards' \in [Items -> Nat] /\ fines' \in [Items -> Nat]
    BY DEF Commit, TypeOK
  <1>10. requests' \in 0..MaxRequests
    BY DEF Commit, TypeOK
  <1> QED
    BY <1>2, <1>4, <1>5, <1>7, <1>8, <1>9, <1>10, CommitOthers DEF TypeOK

-----------------------------------------------------------------------------
(***************************************************************************)
(* The items a transaction has in hand                                     *)
(***************************************************************************)

LEMMA IdleFlow == FlowOK(Idle)
  BY DEF FlowOK, IdleOK, SubmitOK, ReviewOK, VerdictOK, CreditOK, Submits, Idle

(* A step keeps what is known of its own transaction.                      *)
LEMMA FlowMoved ==
  ASSUME TypeOK, NEW t \in Txn, NEW n \in Txn, FlowOK(t), Moved(t, n)
  PROVE  FlowOK(n)
  <1>0. /\ t.write \in [Items -> Statuses \cup {"keep"}] /\ n.request \in Requests
        /\ t.awarded \subseteq Items /\ t.fined \subseteq Items
        /\ "keep" \notin Statuses
    BY DEF Txn, Statuses, Approved
  <1>1. CASE n = Idle
    BY <1>1, IdleFlow
  <1>2. ASSUME NEW i \in Items, SubmitOpened(t, n, i)
        PROVE  FlowOK(n)
    BY <1>2
    DEF SubmitOpened, Blank, FlowOK, IdleOK, SubmitOK, ReviewOK, VerdictOK, CreditOK,
        Submits
  <1>3. CASE ReviewOpened(t, n)
    <2>1. n.request # "submit" /\ n.pc # "idle" /\ n.request \in {"approve", "reject"}
      BY <1>3 DEF ReviewOpened
    <2>2. ReviewOK(n)
      BY <1>3 DEF ReviewOpened, Blank, ReviewOK, InHand
    <2>3. VerdictOK(n) /\ CreditOK(n)
      BY <1>3 DEF ReviewOpened, Blank, VerdictOK, CreditOK
    <2> QED
      BY <2>1, <2>2, <2>3 DEF FlowOK, IdleOK, SubmitOK, Submits
  <1>4. ASSUME NEW i \in Items, NEW v \in Statuses, WriteOpened(t, n, i, v)
        PROVE  FlowOK(n)
    <2>1. /\ n.request \in {"strike", "delete"} /\ n.pc \in {"apply", "commit"}
          /\ n.item = i /\ n.awarded = {} /\ n.fined = {} /\ n.todo = {}
          /\ n.read = {i} /\ n.write[i] = v
          /\ \A j \in Items : j # i => n.write[j] = "keep"
      BY <1>4 DEF WriteOpened
    <2>2. /\ n.request = "strike" => v = "rejected" /\ i \in Imports /\ status[i] = "approved"
          /\ n.request = "delete" => v = "deleted" /\ status[i] \in Stored
                                     /\ (i \in Suggestions => status[i] = "pending")
      BY <1>4 DEF WriteOpened
    <2>3. ReviewOK(n)
      BY <2>1, <2>2 DEF ReviewOK, InHand, Stored
    <2>4. VerdictOK(n) /\ CreditOK(n)
      BY <2>1, <2>2 DEF VerdictOK, CreditOK
    <2> QED
      BY <2>1, <2>3, <2>4 DEF FlowOK, IdleOK, SubmitOK, Submits
  <1>5. CASE Advanced(t, n)
    <2>1. /\ t.request \in {"approve", "reject"} /\ n.pc # "idle"
          /\ n.request = t.request
      BY <1>5 DEF Advanced, FlowOK, SubmitOK, Submits, VerdictOK, Txn, Requests
    <2>2. ASSUME NEW i \in Items, InHand(n, i)
          PROVE  InHand(t, i) \/ (i \in n.read /\ status[i] = "pending")
      BY <1>5, <2>2 DEF Advanced, InHand
    <2>3. ReviewOK(n)
      <3>1. ReviewOK(t)
        BY DEF FlowOK
      <3>2. n.pc \in {"author", "apply"} => n.item \in Items
        BY <1>5 DEF Advanced
      <3>3. t.read \subseteq n.read /\ n.stale = t.stale
        BY <1>5 DEF Advanced
      <3> QED
        BY <2>1, <2>2, <3>1, <3>2, <3>3 DEF ReviewOK
    <2>4. VerdictOK(n) /\ CreditOK(n)
      BY <1>5, <2>1 DEF Advanced, SameCredit, FlowOK, VerdictOK, CreditOK
    <2> QED
      BY <2>1, <2>3, <2>4 DEF FlowOK, IdleOK, SubmitOK, Submits
  <1>6. ASSUME NEW i \in Items, NEW v \in Statuses, Settled(t, n, i, v)
        PROVE  FlowOK(n)
    <2>1. /\ t.pc = "apply" /\ t.item = i /\ SameFlow(t, n) /\ n.pc \in {"commit", "next"}
          /\ n.write[i] = v /\ \A j \in Items : j # i => n.write[j] = t.write[j]
      BY <1>0, <1>6 DEF Settled
    <2>2. \/ t.request = "submit" /\ v \in Approved \cup {"pending"}
          \/ /\ t.request = "approve" /\ v = "approved"
             /\ t.read \subseteq n.read /\ n.stale = t.stale
          \/ /\ t.request = "reject" /\ v = "rejected"
             /\ t.read \subseteq n.read /\ n.stale = t.stale
      BY <1>6 DEF Settled
    <2>3. SubmitOK(n)
      BY <1>6, <2>1 DEF Settled, SameFlow, FlowOK, SubmitOK, Submits
    <2>4. ReviewOK(n)
      <3>1. ASSUME t.request # "submit", NEW j \in Items, InHand(n, j)
            PROVE  InHand(t, j)
        BY <2>1, <3>1 DEF InHand, SameFlow
      <3> QED
        BY <2>1, <2>2, <3>1 DEF FlowOK, ReviewOK, SameFlow
    <2>5. VerdictOK(n)
      BY <2>1, <2>2 DEF FlowOK, VerdictOK, SameFlow
    <2>6. CreditOK(n)
      <3>1. /\ n.awarded \subseteq t.awarded \cup {i}
            /\ v \notin Approved => n.awarded = t.awarded
            /\ n.fined \subseteq t.fined \cup {i}
            /\ v # "rejected" => n.fined = t.fined
        BY <1>6 DEF Settled
      <3>2. \A j \in t.awarded : t.write[j] \in Approved
        BY DEF FlowOK, CreditOK
      <3>3. \A j \in t.fined : t.write[j] = "rejected"
        BY DEF FlowOK, CreditOK
      <3>4. \A j \in Items : t.write[j] \in Approved => t.request # "reject"
        BY <2>2 DEF FlowOK, VerdictOK, Approved
      <3>5. \A j \in Items : t.write[j] = "rejected" => t.request \notin {"submit", "approve"}
        BY <2>2 DEF FlowOK, VerdictOK, Approved
      <3>6. i \in t.awarded => v \in Approved
        BY <1>0, <2>1, <2>2, <3>2, <3>4, <1>6
        DEF FlowOK, SubmitOK, Submits, Blank, Approved
      <3>7. i \in t.fined => v = "rejected"
        BY <1>0, <2>1, <2>2, <3>3, <3>5
      <3>8. \A j \in n.awarded : n.write[j] \in Approved
        BY <1>0, <2>1, <3>1, <3>2, <3>6
      <3>9. \A j \in n.fined : n.write[j] = "rejected"
        BY <1>0, <2>1, <3>1, <3>3, <3>7
      <3> QED
        BY <3>8, <3>9 DEF CreditOK
    <2> QED
      BY <2>1, <2>3, <2>4, <2>5, <2>6 DEF FlowOK, IdleOK
  <1>7. CASE Hidden(t, n)
    <2>1. /\ t.pc = "apply" /\ n.request = "strike" /\ t.request = "strike"
          /\ SameFlow(t, n) /\ n.pc = "commit" /\ n.write = t.write
          /\ SameCredit(t, n) /\ n.stale = t.stale /\ t.read \subseteq n.read
      BY <1>7 DEF Hidden, SameFlow, FlowOK, VerdictOK
    <2>2. ReviewOK(n)
      <3>1. ASSUME NEW j \in Items, InHand(n, j)
            PROVE  InHand(t, j)
        BY <2>1, <3>1 DEF InHand, SameFlow
      <3> QED
        BY <2>1, <3>1 DEF FlowOK, ReviewOK
    <2>3. VerdictOK(n) /\ CreditOK(n)
      BY <2>1 DEF FlowOK, VerdictOK, CreditOK, SameFlow, SameCredit
    <2> QED
      BY <2>1, <2>2, <2>3 DEF FlowOK, IdleOK, SubmitOK, Submits
  <1> QED
    BY <1>1, <1>2, <1>3, <1>4, <1>5, <1>6, <1>7 DEF Moved

(* What a commit writes, by what its transaction has in hand.              *)
LEMMA CommitWrites ==
  ASSUME TypeOK, NEW s \in Sessions, Commit(s), FlowOK(txn[s]), NEW i \in Items
  PROVE  LET t == txn[s]
         IN  /\ t.write[i] = "keep" => status'[i] = status[i]
             /\ t.write[i] # "keep" => /\ status'[i] = t.write[i]
                                       /\ i \in Changed(t)
                                       /\ status'[i] # "absent"
             /\ t.write[i] # "keep" /\ t.request = "submit" =>
                  status[i] = "absent" /\ i = t.item
             /\ t.write[i] # "keep" /\ t.request # "submit" =>
                  /\ status[i] # "absent" /\ status'[i] # "pending"
                  /\ t.request \in {"approve", "reject"} => status[i] = "pending" \/ i \in t.stale
             /\ t.request = "submit" => status'[i] # "rejected" \/ t.write[i] = "keep"
             /\ t.write[i] # "keep" /\ i \in Suggestions =>
                  status[i] \in {"absent", "pending"} \/ i \in t.stale
  <1> DEFINE t == txn[s]
  <1>1. t \in Txn /\ t.pc = "commit" /\ t.write[i] \in Statuses \cup {"keep"}
    BY DEF TypeOK, Commit, At, Txn
  <1>2. status'[i] = IF t.write[i] = "keep" THEN status[i] ELSE t.write[i]
    BY DEF Commit
  <1>3. t.write[i] # "keep" => i \in Changed(t)
    BY DEF Changed
  <1>4. t.write[i] # "keep" => InHand(t, i)
    BY DEF InHand
  <1>5. t.request \in Requests
    BY <1>1 DEF Txn
  <1> HIDE DEF t
  <1>6. SubmitOK(t) /\ ReviewOK(t) /\ VerdictOK(t)
    BY DEF FlowOK, t
  <1>7. t.write[i] # "keep" => t.write[i] # "absent"
    BY <1>5, <1>6 DEF VerdictOK, Approved, Requests
  <1>8. t.write[i] # "keep" /\ t.request = "submit" =>
          status[i] = "absent" /\ i = t.item
    BY <1>1, <1>6 DEF SubmitOK, Submits
  <1>9. t.write[i] # "keep" /\ t.request # "submit" =>
          /\ status[i] # "absent"
          /\ t.request \in {"approve", "reject"} => status[i] = "pending" \/ i \in t.stale
    BY <1>4, <1>6 DEF ReviewOK
  <1>10. t.request # "submit" => t.write[i] # "pending"
    BY <1>5, <1>6 DEF VerdictOK, Requests
  <1>11. t.request = "submit" => t.write[i] # "rejected"
    BY <1>6 DEF VerdictOK, Approved
  <1>12. ASSUME t.write[i] # "keep", i \in Suggestions
         PROVE  status[i] \in {"absent", "pending"} \/ i \in t.stale
    <2>1. CASE t.request = "submit"
      BY <1>8, <1>12, <2>1
    <2>2. CASE t.request \in {"approve", "reject", "delete"}
      BY <1>4, <1>6, <1>12, <2>2 DEF ReviewOK
    <2>3. t.request # "strike"
      BY <1>6, <1>12, ModerationAssumption DEF VerdictOK, Suggestions
    <2> QED
      BY <1>5, <2>1, <2>2, <2>3 DEF Requests
  <1> QED
    BY <1>2, <1>3, <1>7, <1>8, <1>9, <1>10, <1>11, <1>12 DEF t

(* A commit of another transaction keeps what is known of this one.        *)
LEMMA FlowOvertaken ==
  ASSUME TypeOK, FlowInv, NEW s \in Sessions, Commit(s), NEW r \in Sessions \ {s},
         NEW n \in Txn, Overtaken(txn[r], n, Changed(txn[s]))
  PROVE  FlowOK(n)'
  <1> DEFINE t == txn[s]
             x == txn[r]
  <1>0. FlowOK(t) /\ FlowOK(x) /\ x \in Txn /\ t.pc = "commit"
    BY DEF FlowInv, TypeOK, Commit, At
  <1>1. /\ n.pc = x.pc /\ n.write = x.write /\ n.read = x.read
        /\ SameFlow(x, n) /\ SameCredit(x, n) /\ SameStream(x, n)
        /\ n.stale = x.stale \cup (Changed(t) \cap x.read)
    BY DEF Overtaken
  <1>2. \A i \in Items :
          /\ t.write[i] = "keep" => status'[i] = status[i]
          /\ t.write[i] # "keep" => i \in Changed(t) /\ status'[i] # "absent"
          /\ t.write[i] # "keep" /\ t.request = "submit" => status[i] = "absent" /\ i = t.item
          /\ t.write[i] # "keep" /\ t.request # "submit" =>
               status[i] # "absent" /\ status'[i] # "pending"
    BY <1>0, CommitWrites
  <1>3. Submits(t) /\ Submits(x) => t.item # x.item
    BY DEF FlowInv, SoleSubmit
  <1> HIDE DEF t, x
  <1>4. IdleOK(n)'
    <2>1. ASSUME x.pc = "idle" PROVE n = Idle
      <3>1. x = Idle
        BY <1>0, <2>1 DEF FlowOK, IdleOK
      <3>2. n.stale = x.stale
        BY <1>1, <3>1 DEF Idle
      <3>3. n.base = x.base /\ n.gain = x.gain
        BY DEF Overtaken, x
      <3> QED
        BY <1>0, <1>1, <3>1, <3>2, <3>3 DEF Txn, SameFlow, SameCredit, SameStream
    <2> QED
      BY <1>1, <2>1 DEF IdleOK
  <1>5. SubmitOK(n)'
    <2>1. Submits(x) => status'[x.item] = "absent"
      BY <1>0, <1>2, <1>3 DEF FlowOK, SubmitOK, Submits
    <2> QED
      BY <1>0, <1>1, <2>1
      DEF FlowOK, SubmitOK, Submits, Blank, SameFlow, SameCredit, SameStream
  <1>6. ReviewOK(n)'
    <2>1. \A i \in Items : InHand(n, i) <=> InHand(x, i)
      BY <1>1 DEF InHand, SameFlow
    <2>2. ReviewOK(x)
      BY <1>0 DEF FlowOK
    <2>3. ASSUME NEW i \in Items, InHand(x, i), x.request # "submit"
          PROVE  /\ i \in n.read /\ status'[i] # "absent"
                 /\ (\/ x.request \in {"approve", "reject"}
                     \/ x.request = "delete" /\ i \in Suggestions)
                      => status'[i] = "pending" \/ i \in n.stale
                 /\ x.request = "strike" => status'[i] # "pending"
      BY <1>1, <1>2, <2>2, <2>3 DEF ReviewOK
    <2>4. /\ n.request = x.request
          /\ x.request # "submit" /\ n.pc \in {"author", "apply"} => n.item \in Items
      BY <1>1, <2>2 DEF ReviewOK, SameFlow
    <2> QED
      BY <2>1, <2>3, <2>4 DEF ReviewOK, InHand
  <1>7. VerdictOK(n)' /\ CreditOK(n)'
    BY <1>0, <1>1 DEF FlowOK, VerdictOK, CreditOK, SameFlow, SameCredit
  <1> QED
    BY <1>4, <1>5, <1>6, <1>7 DEF FlowOK

LEMMA CommitSettles ==
  ASSUME TypeOK, FlowInv, NEW s \in Sessions, Commit(s)
  PROVE  SettledOnce'
  <1> DEFINE t == txn[s]
  <1>0. FlowOK(t) /\ t \in Txn
    BY DEF FlowInv, TypeOK
  <1>1. raced' = raced \cup (t.stale \cap Changed(t))
    BY DEF Commit
  <1>2. \A i \in Items :
          /\ awards'[i] = awards[i] + IF i \in t.awarded THEN 1 ELSE 0
          /\ fines'[i] = fines[i] + IF i \in t.fined THEN 1 ELSE 0
    BY DEF Commit
  <1> SUFFICES ASSUME NEW i \in Items, i \notin raced'
               PROVE  /\ awards'[i] + fines'[i] <= 1
                      /\ status'[i] \in {"absent", "pending"} => awards'[i] + fines'[i] = 0
                      /\ i \in Suggestions =>
                           /\ fines'[i] > 0 => status'[i] = "rejected"
                           /\ awards'[i] > 0 => status'[i] \in Approved
    BY DEF SettledOnce
  <1>3. awards[i] \in Nat /\ fines[i] \in Nat
    BY DEF TypeOK
  <1>4. /\ awards[i] + fines[i] <= 1
        /\ status[i] \in {"absent", "pending"} => awards[i] + fines[i] = 0
        /\ i \in Suggestions => /\ fines[i] > 0 => status[i] = "rejected"
                                /\ awards[i] > 0 => status[i] \in Approved
    BY <1>1 DEF FlowInv, SettledOnce
  <1>5. /\ t.write[i] = "keep" => status'[i] = status[i]
        /\ t.write[i] # "keep" => status'[i] = t.write[i] /\ i \in Changed(t)
                                  /\ status'[i] # "absent"
        /\ t.write[i] # "keep" /\ t.request = "submit" => status[i] = "absent"
        /\ t.write[i] # "keep" /\ t.request # "submit" =>
             /\ status'[i] # "pending"
             /\ t.request \in {"approve", "reject"} => status[i] = "pending" \/ i \in t.stale
        /\ t.write[i] # "keep" /\ i \in Suggestions =>
             status[i] \in {"absent", "pending"} \/ i \in t.stale
    BY <1>0, CommitWrites
  <1>6. /\ i \in t.awarded => t.write[i] \in Approved
        /\ i \in t.fined => t.write[i] = "rejected"
        /\ t.request \in {"strike", "delete"} => i \notin t.awarded /\ i \notin t.fined
    BY <1>0 DEF FlowOK, CreditOK, VerdictOK
  <1>7. t.request \in Requests
    BY <1>0 DEF Txn
  <1>8. i \notin t.stale \/ i \notin Changed(t)
    BY <1>1
  <1> HIDE DEF t
  <1>9. CASE i \in t.awarded \/ i \in t.fined
    <2>1. t.write[i] # "keep" /\ t.write[i] \notin {"absent", "pending"}
      BY <1>6, <1>9 DEF Approved
    <2>2. ~(i \in t.awarded /\ i \in t.fined)
      BY <1>6 DEF Approved
    <2>3. status[i] \in {"absent", "pending"}
      BY <1>5, <1>6, <1>7, <1>8, <1>9, <2>1 DEF Requests
    <2>4. awards'[i] + fines'[i] <= 1
      BY <1>2, <1>3, <1>4, <2>2, <2>3
    <2>5. awards[i] = 0 /\ fines[i] = 0
      BY <1>3, <1>4, <2>3
    <2>6. /\ fines'[i] > 0 => status'[i] = "rejected"
          /\ awards'[i] > 0 => status'[i] \in Approved
      BY <1>2, <1>5, <1>6, <2>1, <2>5
    <2> QED
      BY <1>5, <2>1, <2>4, <2>6
  <1>10. CASE i \notin t.awarded /\ i \notin t.fined
    <2>1. awards'[i] = awards[i] /\ fines'[i] = fines[i]
      BY <1>2, <1>3, <1>10
    <2>2. status'[i] \in {"absent", "pending"} => status[i] \in {"absent", "pending"}
      BY <1>5
    <2>3. CASE t.write[i] = "keep"
      BY <1>4, <1>5, <2>1, <2>2, <2>3
    <2>4. CASE t.write[i] # "keep"
      <3>1. i \in Suggestions => awards[i] = 0 /\ fines[i] = 0
        BY <1>3, <1>4, <1>5, <1>8, <2>4
      <3> QED
        BY <1>4, <2>1, <2>2, <3>1
    <2> QED
      BY <2>3, <2>4
  <1> QED
    BY <1>9, <1>10

(* A step or a commit keeps the invariant.                                 *)
LEMMA StepFlow ==
  ASSUME TypeOK, FlowInv, NEW s \in Sessions, Step(s)
  PROVE  FlowInv'
  <1> PICK n : n = txn'[s]
    OBVIOUS
  <1>1. /\ n \in Txn /\ Moved(txn[s], n) /\ txn[s] \in Txn /\ FlowOK(txn[s])
        /\ \A r \in Sessions : txn'[r] = IF r = s THEN n ELSE txn[r]
        /\ status' = status /\ awards' = awards /\ fines' = fines /\ raced' = raced
    BY DEF Step, TypeOK, FlowInv, history
  <1>2. FlowOK(n)
    BY <1>1, FlowMoved
  <1>3. \A r \in Sessions : FlowOK(txn'[r])
    BY <1>1, <1>2 DEF FlowInv
  <1>4. (\A r \in Sessions : FlowOK(txn[r]))'
    BY <1>1, <1>3
    DEF FlowOK, IdleOK, SubmitOK, ReviewOK, VerdictOK, CreditOK, InHand, Submits, Blank
  <1>5. SoleSubmit'
    <2>1. Submits(n) =>
            \/ Submits(txn[s]) /\ n.item = txn[s].item
            \/ \A r \in Sessions : Submits(txn[r]) => txn[r].item # n.item
      <3>1. ASSUME NEW i \in Items, SubmitOpened(txn[s], n, i)
            PROVE  \A r \in Sessions : Submits(txn[r]) => txn[r].item # n.item
        BY <3>1 DEF SubmitOpened, Submitting, Submits, At
      <3>2. ASSUME NEW i \in Items, NEW v \in Statuses,
                   Settled(txn[s], n, i, v), Submits(n)
            PROVE  Submits(txn[s]) /\ n.item = txn[s].item
        BY <3>2 DEF Settled, Submits, SameFlow
      <3>3. n = Idle => ~Submits(n)
        BY DEF Idle, Submits
      <3>4. ReviewOpened(txn[s], n) \/ Hidden(txn[s], n) => ~Submits(n)
        BY DEF ReviewOpened, Hidden, Submits, SameFlow
      <3>5. ASSUME NEW i \in Items, NEW v \in Statuses, WriteOpened(txn[s], n, i, v)
            PROVE  ~Submits(n)
        BY <3>5 DEF WriteOpened, Submits
      <3>6. Advanced(txn[s], n) => ~Submits(n)
        BY <1>1 DEF Advanced, Submits, FlowOK, SubmitOK
      <3> QED
        BY <1>1, <3>1, <3>2, <3>3, <3>4, <3>5, <3>6 DEF Moved
    <2> SUFFICES ASSUME NEW p \in Sessions, NEW q \in Sessions, p # q,
                        Submits(txn'[p]), Submits(txn'[q])
                 PROVE  txn'[p].item # txn'[q].item
      BY DEF SoleSubmit, Submits
    <2>2. SoleSubmit
      BY DEF FlowInv
    <2> QED
      BY <1>1, <2>1, <2>2 DEF SoleSubmit
  <1>6. SettledOnce'
    BY <1>1 DEF FlowInv, SettledOnce
  <1> QED
    BY <1>4, <1>5, <1>6 DEF FlowInv

LEMMA CommitFlow ==
  ASSUME TypeOK, FlowInv, NEW s \in Sessions, Commit(s)
  PROVE  FlowInv'
  <1>1. /\ txn' \in [Sessions -> Txn] /\ txn'[s] = Idle
        /\ \A r \in Sessions \ {s} : Overtaken(txn[r], txn'[r], Changed(txn[s]))
    BY CommitOthers
  <1>2. ASSUME NEW r \in Sessions PROVE FlowOK(txn[r])'
    <2> PICK n : n = txn'[r]
      OBVIOUS
    <2>1. FlowOK(n)'
      <3>1. CASE r = s
        <4>1. n = Idle
          BY <1>1, <3>1
        <4> QED
          BY <4>1 DEF FlowOK, IdleOK, SubmitOK, ReviewOK, VerdictOK, CreditOK, Submits, Idle
      <3>2. CASE r # s
        <4>1. n \in Txn /\ Overtaken(txn[r], n, Changed(txn[s])) /\ r \in Sessions \ {s}
          BY <1>1, <3>2
        <4> QED
          BY <4>1, FlowOvertaken
      <3> QED
        BY <3>1, <3>2
    <2> QED
      BY <2>1
      DEF FlowOK, IdleOK, SubmitOK, ReviewOK, VerdictOK, CreditOK, InHand, Submits, Blank
  <1>3. SoleSubmit'
    <2>1. ~Submits(Idle)
      BY DEF Submits, Idle
    <2>2. \A r \in Sessions : r # s =>
            (Submits(txn'[r]) <=> Submits(txn[r])) /\ txn'[r].item = txn[r].item
      BY <1>1 DEF Overtaken, SameFlow, Submits
    <2> SUFFICES ASSUME NEW p \in Sessions, NEW q \in Sessions, p # q,
                        Submits(txn'[p]), Submits(txn'[q])
                 PROVE  txn'[p].item # txn'[q].item
      BY DEF SoleSubmit, Submits
    <2>3. p # s /\ q # s
      BY <1>1, <2>1
    <2> QED
      BY <2>2, <2>3 DEF FlowInv, SoleSubmit
  <1>4. SettledOnce'
    BY CommitSettles
  <1> QED
    BY <1>2, <1>3, <1>4 DEF FlowInv

LEMMA FlowLookup == FlowInv => LookupOK
  BY DEF FlowInv, FlowOK, SubmitOK, ReviewOK, LookupOK, Submits

LEMMA InitFlow == Init => FlowInv
  <1> SUFFICES ASSUME Init PROVE FlowInv
    OBVIOUS
  <1>1. \A s \in Sessions : txn[s] = Idle
    BY DEF Init
  <1>2. \A i \in Items : awards[i] = 0 /\ fines[i] = 0
    BY DEF Init
  <1>3. SettledOnce
    BY <1>2 DEF SettledOnce
  <1>4. SoleSubmit
    BY <1>1 DEF SoleSubmit, Submits, Idle
  <1> QED
    BY <1>1, <1>3, <1>4, IdleFlow DEF FlowInv

(* Types, and what every transaction knows of the items it has in hand,    *)
(* are kept by every step of the routers.                                  *)
THEOREM FlowInvariant == Spec => [](TypeOK /\ FlowInv)
  <1>1. Init => TypeOK /\ FlowInv
    BY InitType, InitFlow
  <1>2. TypeOK /\ FlowInv /\ [Next]_vars => (TypeOK /\ FlowInv)'
    <2> SUFFICES ASSUME TypeOK, FlowInv, [Next]_vars PROVE (TypeOK /\ FlowInv)'
      OBVIOUS
    <2>1. CASE Next
      <3> PICK s \in Sessions : Step(s) \/ Commit(s)
        BY <2>1, FlowLookup, NextSteps
      <3> QED
        BY StepType, CommitType, StepFlow, CommitFlow
    <2>2. CASE UNCHANGED vars
      <3>1. TypeOK'
        BY <2>2 DEF TypeOK, vars
      <3>2. FlowInv'
        BY <2>2 DEF FlowInv, FlowOK, IdleOK, SubmitOK, ReviewOK, VerdictOK, CreditOK,
                    InHand, Submits, Blank, SoleSubmit, SettledOnce, vars
      <3> QED
        BY <3>1, <3>2
    <2> QED
      BY <2>1, <2>2
  <1> QED
    BY <1>1, <1>2, PTL DEF Spec

(* Every variable holds a value of its type; contribution_points never     *)
(* fall below zero, whatever reviews and rejections overlap.               *)
THEOREM TypeCorrect == Spec => []TypeOK
  BY FlowInvariant, PTL

(* Points are given or taken once per item, never for one that waits, and  *)
(* as the verdict on a suggestion says, so that a withdrawn one brings and *)
(* costs nothing; unless two requests reviewed or withdrew it at once.     *)
THEOREM ItemsAreSettledOnce == Spec => []SettledOnce
  <1>1. FlowInv => SettledOnce
    BY DEF FlowInv
  <1> QED
    BY <1>1, FlowInvariant, PTL

-----------------------------------------------------------------------------
(***************************************************************************)
(* Visibility of the stream                                                *)
(***************************************************************************)

LEMMA IdleLook == LookOK(Idle)
  BY DEF LookOK, Idle

LEMMA LookMoved ==
  ASSUME TypeOK, NEW t \in Txn, NEW n \in Txn, FlowOK(t), FlowOK(n), LookOK(t),
         StreamInv, Moved(t, n)
  PROVE  LookOK(n)
  <1>0. /\ t.write \in [Items -> Statuses \cup {"keep"}]
        /\ t.done \subseteq Imports /\ Imports \subseteq Items /\ "stream" \notin Items
        /\ t.public \in {"keep", "yes", "no"} /\ t.request \in Requests
        /\ t.new \in BOOLEAN /\ t.hide \in BOOLEAN
        /\ n.new \in BOOLEAN /\ n.hide \in BOOLEAN
        /\ stream.exists \in BOOLEAN /\ stream.public \in BOOLEAN /\ stream.active \in BOOLEAN
    BY ModerationAssumption DEF Txn, Items, TypeOK, Stream
  <1>1. CASE n = Idle
    BY <1>1, IdleLook
  <1>2. ASSUME NEW i \in Items, SubmitOpened(t, n, i)
        PROVE  LookOK(n)
    BY <1>2 DEF SubmitOpened, Blank, LookOK
  <1>3. CASE ReviewOpened(t, n)
    BY <1>3 DEF ReviewOpened, Blank, LookOK
  <1>4. ASSUME NEW i \in Items, NEW v \in Statuses, WriteOpened(t, n, i, v)
        PROVE  LookOK(n)
    BY <1>0, <1>4 DEF WriteOpened, LookOK
  <1>5. CASE Advanced(t, n)
    <2>1. t.request # "strike" /\ n.request = t.request
      BY <1>5 DEF Advanced, FlowOK, VerdictOK
    <2> QED
      BY <1>5, <2>1 DEF Advanced, SameStream, LookOK
  <1>6. ASSUME NEW i \in Items, NEW v \in Statuses, Settled(t, n, i, v)
        PROVE  LookOK(n)
    <2>1. /\ n.request = t.request /\ t.request \in {"submit", "approve", "reject"}
          /\ n.write[i] = v /\ n.hide = t.hide
          /\ \A j \in Items : j # i => n.write[j] = t.write[j]
          /\ t.request = "approve" => v \in Approved
          /\ t.request = "reject" <=> v = "rejected"
      BY <1>0, <1>6 DEF Settled, SameFlow, Approved
    <2>2. ~t.hide
      BY <2>1 DEF LookOK
    <2>3. t.request = "submit" => t.done = {} /\ t.public = "keep" /\ ~t.new
      BY <1>6 DEF Settled, FlowOK, SubmitOK, Submits, Blank
    <2>4. t.request = "reject" => t.done = {} /\ ~t.new
      BY <2>1 DEF LookOK
    <2>5. \A j \in t.done : n.write[j] \in Approved
      BY <1>0, <2>1, <2>3, <2>4 DEF LookOK
    <2>6. t.public = "no" => t.new /\ t.done = {}
      BY <2>1 DEF LookOK
    <2>7. CASE n.new = t.new /\ n.public = t.public /\ n.done = t.done
      BY <2>1, <2>2, <2>4, <2>5, <2>6, <2>7 DEF LookOK
    <2>8. CASE v # "rejected" /\ i \in Imports /\ Processed(t, n, i, v \in Approved)
      <3>1. CASE v \in Approved
        <4>1. /\ n.new = (t.new \/ ~stream.exists) /\ n.done = t.done \cup {i}
              /\ n.public = "yes" \/ (n.public = "keep" /\ stream.public)
          BY <2>8, <3>1 DEF Processed
        <4> QED
          BY <1>0, <2>1, <2>2, <2>5, <2>8, <3>1, <4>1 DEF LookOK
      <3>2. CASE v \notin Approved
        <4>1. t.request = "submit"
          BY <2>1, <2>8, <3>2
        <4>2. n.done = {} /\ (n.public = "keep" \/ (n.public = "no" /\ n.new))
          BY <2>3, <2>8, <3>2, <4>1 DEF Processed
        <4> QED
          BY <2>1, <2>2, <4>1, <4>2 DEF LookOK
      <3> QED
        BY <3>1, <3>2
    <2> QED
      BY <1>6, <2>7, <2>8 DEF Settled
  <1>7. CASE Hidden(t, n)
    <2>1. /\ n.request = "strike" /\ t.request = "strike" /\ ~t.new /\ t.done = {}
          /\ n.done = t.done /\ n.new = t.new /\ n.hide = stream.active
          /\ n.public = IF stream.public THEN "no" ELSE t.public
          /\ n.read = IF stream.exists THEN t.read \cup {"stream"} ELSE t.read
      BY <1>7 DEF Hidden, SameFlow, LookOK
    <2>2. t.public # "yes" /\ (t.public = "no" => "stream" \in t.read)
          /\ ("stream" \in t.read => stream.exists)
      BY <2>1 DEF LookOK
    <2>3. /\ published # {} => stream.exists
          /\ stream.public \/ struck => stream.exists
          /\ stream.active <=> stream.exists /\ ~struck
      BY DEF StreamInv
    <2> QED
      BY <1>0, <2>1, <2>2, <2>3 DEF LookOK
  <1> QED
    BY <1>1, <1>2, <1>3, <1>4, <1>5, <1>6, <1>7 DEF Moved

LEMMA StepLook ==
  ASSUME TypeOK, FlowInv, FlowInv', LookInv, NEW s \in Sessions, Step(s)
  PROVE  LookInv'
  <1> PICK n : n = txn'[s]
    OBVIOUS
  <1>1. /\ n \in Txn /\ Moved(txn[s], n) /\ txn[s] \in Txn
        /\ FlowOK(txn[s]) /\ LookOK(txn[s]) /\ StreamInv
        /\ \A r \in Sessions : txn'[r] = IF r = s THEN n ELSE txn[r]
        /\ status' = status /\ stream' = stream
        /\ published' = published /\ struck' = struck /\ erased' = erased /\ raced' = raced
    BY DEF Step, TypeOK, FlowInv, LookInv, history
  <1>2. FlowOK(n)
    BY <1>1, FlowMoved
  <1>3. LookOK(n)
    BY <1>1, <1>2, LookMoved
  <1>4. \A r \in Sessions : LookOK(txn'[r])
    BY <1>1, <1>3 DEF LookInv
  <1>5. (\A r \in Sessions : LookOK(txn[r]))'
    BY <1>1, <1>4 DEF LookOK, Unraced
  <1>6. StreamInv'
    BY <1>1 DEF StreamInv, Unraced
  <1> QED
    BY <1>5, <1>6 DEF LookInv

(* What a commit does to the stream.                                       *)
LEMMA CommitStreamFields ==
  ASSUME TypeOK, NEW s \in Sessions, Commit(s)
  PROVE  LET t == txn[s]
         IN  /\ stream'.exists = (stream.exists \/ t.new)
             /\ stream'.public = IF t.public = "keep" THEN stream.public ELSE t.public = "yes"
             /\ stream'.active = ((stream.active \/ t.new) /\ ~t.hide)
             /\ stream'.blocked = (stream.blocked \/ t.block)
             /\ t.new => ~stream.exists
             /\ published' = published \cup t.done
             /\ struck' = (struck \/ (t.request = "strike" /\ "stream" \in t.read))
             /\ Unraced' => Unraced
             /\ \A i \in Imports : i \in t.stale /\ t.write[i] # "keep" => ~Unraced'
             /\ \A i \in Imports : t.write[i] = "deleted" /\ status[i] \in Approved => ~Unraced'
  <1> DEFINE t == txn[s]
  <1>1. stream' = CommitStream(t)
    BY DEF Commit
  <1>2. ~Rejected(t)
    BY DEF Commit
  <1>3. /\ published' = published \cup t.done
        /\ struck' = (struck \/ (t.request = "strike" /\ "stream" \in t.read))
        /\ erased' = (erased \/ \E i \in Imports :
                                  t.write[i] = "deleted" /\ status[i] \in Approved)
        /\ raced' = raced \cup (t.stale \cap Changed(t))
    BY DEF Commit
  <1>4. \A i \in Imports : t.write[i] # "keep" => i \in Changed(t)
    BY DEF Changed, Items
  <1> HIDE DEF t
  <1>5. /\ stream'.exists = (stream.exists \/ t.new)
        /\ stream'.public = IF t.public = "keep" THEN stream.public ELSE t.public = "yes"
        /\ stream'.active = ((stream.active \/ t.new) /\ ~t.hide)
        /\ stream'.blocked = (stream.blocked \/ t.block)
    BY <1>1 DEF CommitStream
  <1>6. t.new => ~stream.exists
    BY <1>2 DEF Rejected
  <1>7. Unraced' => Unraced
    BY <1>3 DEF Unraced
  <1>8. \A i \in Imports : i \in t.stale /\ t.write[i] # "keep" => ~Unraced'
    BY <1>3, <1>4 DEF Unraced
  <1>9. \A i \in Imports : t.write[i] = "deleted" /\ status[i] \in Approved => ~Unraced'
    BY <1>3 DEF Unraced
  <1> QED
    BY <1>3, <1>5, <1>6, <1>7, <1>8, <1>9 DEF t

LEMMA CommitStreamInv ==
  ASSUME TypeOK, FlowInv, LookInv, NEW s \in Sessions, Commit(s)
  PROVE  StreamInv'
  <1> DEFINE t == txn[s]
  <1>0. t \in Txn /\ FlowOK(t) /\ LookOK(t) /\ StreamInv /\ t.pc = "commit"
    BY DEF TypeOK, FlowInv, LookInv, Commit, At
  <1>1. /\ t.public \in {"keep", "yes", "no"} /\ t.request \in Requests
        /\ t.new \in BOOLEAN /\ t.hide \in BOOLEAN /\ t.done \subseteq Imports
        /\ stream.exists \in BOOLEAN /\ stream.public \in BOOLEAN /\ stream.active \in BOOLEAN
        /\ struck \in BOOLEAN /\ published \subseteq Imports /\ Imports \subseteq Items
    BY <1>0 DEF Txn, TypeOK, Stream, Items
  <1>2. /\ stream'.exists = (stream.exists \/ t.new)
        /\ stream'.public = IF t.public = "keep" THEN stream.public ELSE t.public = "yes"
        /\ stream'.active = ((stream.active \/ t.new) /\ ~t.hide)
        /\ t.new => ~stream.exists
        /\ published' = published \cup t.done
        /\ struck' = (struck \/ (t.request = "strike" /\ "stream" \in t.read))
        /\ Unraced' => Unraced
        /\ \A i \in Imports : i \in t.stale /\ t.write[i] # "keep" => ~Unraced'
        /\ \A i \in Imports : t.write[i] = "deleted" /\ status[i] \in Approved => ~Unraced'
    BY CommitStreamFields
  <1>3. \A i \in Items :
          /\ t.write[i] = "keep" => status'[i] = status[i]
          /\ t.write[i] # "keep" => status'[i] = t.write[i]
          /\ t.write[i] # "keep" /\ t.request = "submit" => status[i] = "absent"
          /\ t.write[i] # "keep" /\ t.request \in {"approve", "reject"} =>
               status[i] = "pending" \/ i \in t.stale
    BY <1>0, CommitWrites
  <1> HIDE DEF t
  <1>4. published' # {} => stream'.exists
    BY <1>0, <1>1, <1>2 DEF LookOK, StreamInv
  <1>5. stream'.public \/ struck' => stream'.exists
    BY <1>0, <1>1, <1>2 DEF LookOK, StreamInv
  <1>6. stream'.active <=> stream'.exists /\ ~struck'
    <2>1. stream.active <=> stream.exists /\ ~struck
      BY <1>0 DEF StreamInv
    <2>2. struck => stream.exists
      BY <1>0 DEF StreamInv
    <2>3. t.hide => t.request = "strike" /\ "stream" \in t.read
      BY <1>0 DEF LookOK
    <2>4. t.request = "strike" => ~t.new /\ ("stream" \in t.read => t.hide \/ struck)
      BY <1>0 DEF LookOK
    <2> QED
      BY <1>1, <1>2, <2>1, <2>2, <2>3, <2>4
  <1>7. ASSUME Unraced', ~struck'
        PROVE  stream'.public <=> published' # {}
    <2>1. stream.public <=> published # {}
      BY <1>0, <1>2, <1>7 DEF StreamInv
    <2>2. published # {} => stream.exists
      BY <1>0 DEF StreamInv
    <2>3. CASE t.public = "yes"
      BY <1>0, <1>2, <2>3 DEF LookOK
    <2>4. CASE t.public = "no"
      <3>1. t.new /\ t.done = {}
        BY <1>0, <1>2, <1>7, <2>4 DEF LookOK
      <3> QED
        BY <1>2, <2>2, <2>4, <3>1
    <2>5. CASE t.public = "keep"
      <3>1. t.done # {} => stream.public
        BY <1>0, <1>2, <1>7, <2>5 DEF LookOK
      <3> QED
        BY <1>1, <1>2, <2>1, <2>5, <3>1
    <2> QED
      BY <1>1, <2>3, <2>4, <2>5
  <1>8. ASSUME Unraced', ~struck', NEW i \in published'
        PROVE  status'[i] \in Approved
    <2>0. i \in Imports /\ i \in Items
      BY <1>1, <1>2
    <2>1. CASE i \in t.done
      <3>1. t.write[i] \in Approved
        BY <1>0, <2>1 DEF LookOK
      <3> QED
        BY <1>3, <2>0, <3>1 DEF Approved
    <2>2. CASE i \notin t.done
      <3>1. i \in published /\ status[i] \in Approved
        BY <1>0, <1>2, <1>8, <2>2 DEF StreamInv
      <3>2. ASSUME t.write[i] # "keep" PROVE FALSE
        <4>1. t.request \in {"strike", "delete"}
          BY <1>1, <1>2, <1>3, <1>8, <2>0, <3>1, <3>2 DEF Requests, Approved
        <4>2. t.request = "delete" => t.write[i] = "deleted"
          BY <1>0, <2>0, <3>2 DEF FlowOK, VerdictOK
        <4>3. t.request = "strike" => i = t.item /\ "stream" \notin t.read
          BY <1>0, <1>2, <1>8, <2>0, <3>2 DEF FlowOK, VerdictOK
        <4>4. t.request = "strike" => i \notin published
          BY <1>0, <1>2, <1>8, <4>3 DEF LookOK
        <4> QED
          BY <1>2, <1>8, <2>0, <3>1, <4>1, <4>2, <4>4
      <3> QED
        BY <1>3, <2>0, <3>1, <3>2
    <2> QED
      BY <2>1, <2>2
  <1> QED
    BY <1>4, <1>5, <1>6, <1>7, <1>8 DEF StreamInv

LEMMA LookOvertaken ==
  ASSUME TypeOK, FlowInv, LookInv, NEW s \in Sessions, Commit(s),
         NEW r \in Sessions \ {s}, NEW n \in Txn, Overtaken(txn[r], n, Changed(txn[s]))
  PROVE  LookOK(n)'
  <1> DEFINE t == txn[s]
             x == txn[r]
  <1>0. /\ t \in Txn /\ FlowOK(t) /\ LookOK(t) /\ StreamInv
        /\ x \in Txn /\ FlowOK(x) /\ LookOK(x)
    BY DEF TypeOK, FlowInv, LookInv
  <1>1. /\ t.public \in {"keep", "yes", "no"} /\ t.request \in Requests
        /\ t.done \subseteq Imports /\ Imports \subseteq Items
        /\ stream.exists \in BOOLEAN /\ stream.public \in BOOLEAN
    BY <1>0 DEF Txn, TypeOK, Stream, Items
  <1>2. /\ stream'.exists = (stream.exists \/ t.new)
        /\ stream'.public = IF t.public = "keep" THEN stream.public ELSE t.public = "yes"
        /\ t.new => ~stream.exists
        /\ published' = published \cup t.done
        /\ struck' = (struck \/ (t.request = "strike" /\ "stream" \in t.read))
        /\ Unraced' => Unraced
        /\ \A i \in Imports : i \in t.stale /\ t.write[i] # "keep" => ~Unraced'
    BY CommitStreamFields
  <1>3. \A i \in Items :
          /\ t.write[i] # "keep" /\ t.request = "submit" => status[i] = "absent"
          /\ t.write[i] # "keep" /\ t.request \in {"approve", "reject"} =>
               status[i] = "pending" \/ i \in t.stale
    BY <1>0, CommitWrites
  <1>4. /\ n.pc = x.pc /\ n.write = x.write /\ n.read = x.read
        /\ SameFlow(x, n) /\ SameStream(x, n)
    BY DEF Overtaken
  <1> HIDE DEF t, x
  <1>5. stream.public => stream'.public \/ struck'
    <2>1. stream.public => stream.exists
      BY <1>0 DEF StreamInv
    <2>2. t.public = "no" => t.new \/ struck'
      BY <1>0, <1>2 DEF LookOK
    <2> QED
      BY <1>1, <1>2, <2>1, <2>2
  <1>6. ASSUME x.request = "strike", x.pc = "commit", "stream" \notin x.read, Unraced'
        PROVE  x.item \notin published'
    <2>1. x.item \notin published
      BY <1>0, <1>2, <1>6 DEF LookOK
    <2>2. x.item \in Items /\ InHand(x, x.item)
      BY <1>0, <1>6 DEF FlowOK, VerdictOK, InHand
    <2>3. status[x.item] \notin {"absent", "pending"}
      BY <1>0, <1>6, <2>2 DEF FlowOK, ReviewOK
    <2>4. x.item \notin t.done
      <3> SUFFICES ASSUME x.item \in t.done PROVE FALSE
        OBVIOUS
      <3>1. t.write[x.item] \in Approved /\ t.request \in {"submit", "approve"}
        BY <1>0, <1>1 DEF LookOK
      <3>2. t.write[x.item] # "keep" /\ x.item \in Imports
        BY <1>1, <3>1 DEF Approved
      <3> QED
        BY <1>2, <1>3, <1>6, <2>2, <2>3, <3>1, <3>2
    <2> QED
      BY <1>2, <2>1, <2>4
  <1> QED
    BY <1>0, <1>2, <1>4, <1>5, <1>6 DEF LookOK, SameFlow, SameStream

LEMMA CommitLook ==
  ASSUME TypeOK, FlowInv, LookInv, NEW s \in Sessions, Commit(s)
  PROVE  LookInv'
  <1>1. /\ txn' \in [Sessions -> Txn] /\ txn'[s] = Idle
        /\ \A r \in Sessions \ {s} : Overtaken(txn[r], txn'[r], Changed(txn[s]))
    BY CommitOthers
  <1>2. ASSUME NEW r \in Sessions PROVE LookOK(txn[r])'
    <2> PICK n : n = txn'[r]
      OBVIOUS
    <2>1. LookOK(n)'
      <3>1. CASE r = s
        <4>1. n = Idle
          BY <1>1, <3>1
        <4> QED
          BY <4>1 DEF LookOK, Idle
      <3>2. CASE r # s
        <4>1. n \in Txn /\ Overtaken(txn[r], n, Changed(txn[s])) /\ r \in Sessions \ {s}
          BY <1>1, <3>2
        <4> QED
          BY <4>1, LookOvertaken
      <3> QED
        BY <3>1, <3>2
    <2> QED
      BY <2>1 DEF LookOK, Unraced
  <1>3. StreamInv'
    BY CommitStreamInv
  <1> QED
    BY <1>2, <1>3 DEF LookInv

LEMMA InitLook == Init => LookInv
  <1> SUFFICES ASSUME Init PROVE LookInv
    OBVIOUS
  <1>1. \A s \in Sessions : LookOK(txn[s])
    BY IdleLook DEF Init
  <1>2. published = {} /\ ~struck /\ ~stream.public /\ (stream.active <=> stream.exists)
    BY DEF Init, NoStream
  <1> QED
    BY <1>1, <1>2 DEF LookInv, StreamInv

(* What every transaction knows of the stream it is going to write is kept *)
(* by every step of the routers.                                           *)
THEOREM LookInvariant == Spec => []LookInv
  <1>1. Init => LookInv
    BY InitLook
  <1>2. TypeOK /\ FlowInv /\ LookInv /\ [Next]_vars /\ FlowInv' => LookInv'
    <2> SUFFICES ASSUME TypeOK, FlowInv, LookInv, [Next]_vars, FlowInv' PROVE LookInv'
      OBVIOUS
    <2>1. CASE Next
      <3> PICK s \in Sessions : Step(s) \/ Commit(s)
        BY <2>1, FlowLookup, NextSteps
      <3> QED
        BY StepLook, CommitLook
    <2>2. CASE UNCHANGED vars
      BY <2>2 DEF LookInv, LookOK, StreamInv, Unraced, vars
    <2> QED
      BY <2>1, <2>2
  <1> QED
    BY <1>1, <1>2, FlowInvariant, PTL DEF Spec

(* The stream can be seen exactly when an import whose processing reached  *)
(* it is approved and reject_approved never came, with the exceptions that *)
(* the property names.                                                     *)
THEOREM VisibilityFollowsApproval == Spec => []VisibleIffApproved
  <1>1. TypeOK /\ LookInv => VisibleIffApproved
    BY DEF LookInv, StreamInv, Unraced, VisibleIffApproved, TypeOK, Stream
  <1> QED
    BY <1>1, FlowInvariant, LookInvariant, PTL

-----------------------------------------------------------------------------
(***************************************************************************)
(* Blocking by reports                                                     *)
(***************************************************************************)

(* More approved reports have no fewer reporters.                          *)
LEMMA ReportersGrow ==
  ASSUME NEW a, NEW b, \A r \in Reports : a[r] \in Approved => b[r] \in Approved
  PROVE  /\ Cardinality(Reporters(a)) \in Nat /\ Cardinality(Reporters(b)) \in Nat
         /\ Cardinality(Reporters(a)) <= Cardinality(Reporters(b))
  <1>1. IsFiniteSet(Reports)
    BY ModerationAssumption, FS_Subset DEF Items
  <1>2. IsFiniteSet({Author[r] : r \in Reports})
    BY <1>1, ValueCount
  <1>3. Reporters(b) \subseteq {Author[r] : r \in Reports}
    BY DEF Reporters
  <1>4. IsFiniteSet(Reporters(b))
    BY <1>2, <1>3, SubsetCount
  <1>5. Reporters(a) \subseteq Reporters(b)
    BY DEF Reporters
  <1> QED
    BY <1>4, <1>5, SubsetCount

(* One more approved report has at most one more reporter.                 *)
LEMMA ReportersAdd ==
  ASSUME NEW a, NEW b, NEW i \in Reports,
         \A r \in Reports : r # i /\ b[r] \in Approved => a[r] \in Approved
  PROVE  Cardinality(Reporters(b)) <= Cardinality(Reporters(a)) + 1
  <1>0. IsFiniteSet(Reports)
    BY ModerationAssumption, FS_Subset DEF Items
  <1>1. IsFiniteSet({Author[r] : r \in Reports})
    BY <1>0, ValueCount
  <1>2. Reporters(a) \subseteq {Author[r] : r \in Reports}
    BY DEF Reporters
  <1>3. IsFiniteSet(Reporters(a))
    BY <1>1, <1>2, SubsetCount
  <1>4. Reporters(b) \subseteq Reporters(a) \cup {Author[i]}
    BY DEF Reporters
  <1> QED
    BY <1>3, <1>4, AddCount

LEMMA BlockMoved ==
  ASSUME TypeOK, NEW t \in Txn, NEW n \in Txn, FlowOK(t), FlowOK(n), BlockOK(t), Moved(t, n)
  PROVE  BlockOK(n)
  <1>0. /\ t.write \in [Items -> Statuses \cup {"keep"}] /\ Reports \subseteq Items
        /\ t.block \in BOOLEAN /\ n.block \in BOOLEAN /\ stream.blocked \in BOOLEAN
        /\ Threshold \in Nat /\ AutoBlock \in BOOLEAN /\ "keep" \notin Approved
    BY ModerationAssumption DEF Txn, Items, TypeOK, Stream, Approved
  <1>1. ASSUME ~n.block, ~ApprovesReport(n) PROVE BlockOK(n)
    BY <1>1 DEF BlockOK
  <1>2. ASSUME NEW x \in Txn, x.request \in {"reject", "strike", "delete"}, FlowOK(x)
        PROVE  ~ApprovesReport(x)
    BY <1>0, <1>2 DEF FlowOK, VerdictOK, ApprovesReport, Approved
  <1>3. CASE n = Idle
    BY <1>0, <1>1, <1>3 DEF Idle, ApprovesReport
  <1>4. ASSUME NEW i \in Items, SubmitOpened(t, n, i)
        PROVE  BlockOK(n)
    BY <1>0, <1>1, <1>4 DEF SubmitOpened, Blank, ApprovesReport
  <1>5. CASE ReviewOpened(t, n)
    BY <1>0, <1>1, <1>5 DEF ReviewOpened, Blank, ApprovesReport
  <1>6. ASSUME NEW i \in Items, NEW v \in Statuses, WriteOpened(t, n, i, v)
        PROVE  BlockOK(n)
    BY <1>1, <1>2, <1>6 DEF WriteOpened
  <1>7. CASE Advanced(t, n)
    BY <1>7 DEF Advanced, SameStream, BlockOK, ApprovesReport, Overlay
  <1>8. CASE Hidden(t, n)
    <2>1. ~ApprovesReport(t) /\ ~ApprovesReport(n) /\ n.block = t.block
      BY <1>2, <1>8 DEF Hidden, SameFlow
    <2> QED
      BY <1>1, <2>1 DEF BlockOK
  <1>9. ASSUME NEW i \in Items, NEW v \in Statuses, Settled(t, n, i, v)
        PROVE  BlockOK(n)
    <2>0. t.request = "submit" => Blank(t) /\ ~t.block /\ ~ApprovesReport(t)
      BY <1>0, <1>9 DEF Settled, FlowOK, SubmitOK, Submits, Blank, ApprovesReport
    <2>1. /\ n.request = t.request /\ n.write[i] = v
          /\ \A j \in Items : j # i => n.write[j] = t.write[j]
          /\ t.request \in {"submit", "approve", "reject"}
          /\ t.request = "approve" => v \in Approved
          /\ t.request # "submit" => t.read \subseteq n.read /\ n.stale = t.stale
      BY <1>0, <1>9 DEF Settled, SameFlow, Approved
    <2>2. CASE n.block = t.block /\ ~(i \in Reports /\ v \in Approved)
      <3>1. CASE t.request = "submit"
        <4>1. ~ApprovesReport(n)
          BY <1>0, <2>0, <2>1, <2>2, <3>1 DEF ApprovesReport, Blank
        <4> QED
          BY <1>1, <2>0, <2>2, <3>1, <4>1
      <3>2. CASE t.request = "reject"
        <4>1. ~ApprovesReport(n) /\ ~ApprovesReport(t)
          BY <1>2, <2>1, <3>2
        <4> QED
          BY <1>1, <2>2, <4>1 DEF BlockOK
      <3>3. CASE t.request = "approve"
        <4>1. i \notin Reports
          BY <2>1, <2>2, <3>3
        <4>2. \A r \in Reports : n.write[r] = t.write[r]
          BY <1>0, <2>1, <4>1
        <4>3. ApprovesReport(n) <=> ApprovesReport(t)
          BY <4>2 DEF ApprovesReport
        <4>4. Reporters(Overlay(n)) = Reporters(Overlay(t))
          BY <1>0, <4>2 DEF Reporters, Overlay
        <4> QED
          BY <2>1, <2>2, <3>3, <4>3, <4>4 DEF BlockOK
      <3> QED
        BY <2>1, <3>1, <3>2, <3>3
    <2>3. CASE /\ i \in Reports /\ v \in Approved /\ "stream" \in n.read
               /\ n.block = (t.block \/ Enough(IF t.request = "submit" THEN status ELSE Overlay(n)))
      <3> DEFINE o == Overlay(n)
                 c == IF t.request = "submit" THEN status ELSE o
      <3>1. ApprovesReport(n)
        BY <2>1, <2>3 DEF ApprovesReport
      <3>2. \A r \in Reports : Overlay(t)[r] \in Approved => o[r] \in Approved
        BY <1>0, <2>1, <2>3 DEF Overlay
      <3>3. /\ \A r \in Reports : c[r] \in Approved => o[r] \in Approved
            /\ \A r \in Reports : r # i /\ o[r] \in Approved => c[r] \in Approved
        BY <1>0, <2>0, <2>1, <2>3 DEF Overlay, Blank
      <3>4. n.block = (t.block \/ Enough(c))
        BY <2>3
      <3> HIDE DEF o, c
      <3>5. /\ Cardinality(Reporters(Overlay(t))) <= Cardinality(Reporters(o))
            /\ Cardinality(Reporters(Overlay(t))) \in Nat
            /\ Cardinality(Reporters(o)) \in Nat
        BY <3>2, ReportersGrow
      <3>6. /\ Cardinality(Reporters(c)) <= Cardinality(Reporters(o))
            /\ Cardinality(Reporters(c)) \in Nat
        BY <3>3, ReportersGrow
      <3>7. Cardinality(Reporters(o)) <= Cardinality(Reporters(c)) + 1
        BY <2>3, <3>3, ReportersAdd
      <3>8. CountedAlone /\ n.block => Cardinality(Reporters(o)) >= Threshold - 1
        <4>1. CountedAlone /\ t.block => Cardinality(Reporters(Overlay(t))) >= Threshold - 1
          BY DEF BlockOK
        <4>2. Enough(c) => Cardinality(Reporters(c)) >= Threshold - 1
          BY <1>0, <3>6 DEF Enough
        <4> QED
          BY <1>0, <3>4, <3>5, <3>6, <4>1, <4>2
      <3>9. AutoBlock /\ Cardinality(Reporters(o)) >= Threshold => n.block \/ stream.blocked
        <4>1. AutoBlock /\ Cardinality(Reporters(o)) >= Threshold => Enough(c) \/ stream.blocked
          BY <1>0, <3>5, <3>6, <3>7 DEF Enough
        <4> QED
          BY <3>4, <4>1
      <3>10. n.block => AutoBlock
        BY <3>4 DEF Enough, BlockOK
      <3> QED
        BY <2>3, <3>1, <3>8, <3>9, <3>10 DEF BlockOK, o
    <2> QED
      BY <1>9, <2>2, <2>3 DEF Settled
  <1> QED
    BY <1>3, <1>4, <1>5, <1>6, <1>7, <1>8, <1>9 DEF Moved

LEMMA StepBlock ==
  ASSUME TypeOK, FlowInv, BlockInv, NEW s \in Sessions, Step(s)
  PROVE  BlockInv'
  <1> PICK n : n = txn'[s]
    OBVIOUS
  <1>1. /\ n \in Txn /\ Moved(txn[s], n) /\ txn[s] \in Txn
        /\ FlowOK(txn[s]) /\ BlockOK(txn[s])
        /\ \A r \in Sessions : txn'[r] = IF r = s THEN n ELSE txn[r]
        /\ status' = status /\ stream' = stream /\ raced' = raced
    BY DEF Step, TypeOK, FlowInv, BlockInv, history
  <1>2. BlockOK(n)
    BY <1>1, FlowMoved, BlockMoved
  <1>3. \A r \in Sessions : BlockOK(txn'[r])
    BY <1>1, <1>2 DEF BlockInv
  <1>4. (\A r \in Sessions : BlockOK(txn[r]))'
    BY <1>1, <1>3 DEF BlockOK, ApprovesReport, Overlay, CountedAlone
  <1>5. BlockedByReports'
    BY <1>1 DEF BlockInv, BlockedByReports, CountedAlone
  <1> QED
    BY <1>4, <1>5 DEF BlockInv

(* What a commit does to the approved reports: unless it is mixed with     *)
(* another one, none is lost, and none is gained that it does not approve. *)
LEMMA CommitReports ==
  ASSUME TypeOK, FlowInv, BlockInv, NEW s \in Sessions, Commit(s), CountedAlone'
  PROVE  LET t == txn[s]
         IN  /\ CountedAlone
             /\ ApprovesReport(t) => "stream" \in Changed(t) /\ "stream" \notin t.stale
             /\ \A r \in Reports :
                  /\ status'[r] = Overlay(t)[r]
                  /\ status[r] \in Approved => status'[r] \in Approved
                  /\ ~ApprovesReport(t) /\ status'[r] \in Approved => status[r] \in Approved
  <1> DEFINE t == txn[s]
  <1>0. t \in Txn /\ FlowOK(t) /\ Reports \subseteq Items
    BY DEF TypeOK, FlowInv, Items
  <1>1. raced' = raced \cup (t.stale \cap Changed(t))
    BY DEF Commit
  <1>2. CountedAlone
    BY <1>1 DEF CountedAlone
  <1>3. ApprovesReport(t) => "stream" \in Changed(t)
    BY DEF ApprovesReport, Changed
  <1>4. "stream" \in Changed(t) => "stream" \notin t.stale
    BY <1>1 DEF CountedAlone
  <1>5. \A r \in Reports : status'[r] = Overlay(t)[r]
    BY <1>0 DEF Commit, Overlay
  <1>6. \A r \in Items : t.write[r] # "keep" => r \in Changed(t)
    BY DEF Changed
  <1> HIDE DEF t
  <1>7. ASSUME NEW r \in Reports, status[r] \in Approved
        PROVE  status'[r] \in Approved
    <2> SUFFICES ASSUME t.write[r] # "keep" PROVE FALSE
      BY <1>0, <1>5, <1>7 DEF Overlay
    <2>1. r \in Items /\ InHand(t, r) /\ r \notin t.stale /\ status[r] \notin {"absent", "pending"}
      BY <1>0, <1>1, <1>6, <1>7 DEF InHand, CountedAlone, Approved
    <2>2. t.request \in Requests /\ t.pc # "idle"
      <3>1. t.pc = "commit"
        BY DEF Commit, At, t
      <3> QED
        BY <1>0, <3>1 DEF Txn
    <2>3. t.request # "submit"
      BY <1>0, <2>1, <2>2 DEF FlowOK, SubmitOK, Submits
    <2>4. r \in Suggestions /\ r \notin Imports
      BY ModerationAssumption DEF Suggestions
    <2>5. t.request = "strike"
      BY <1>0, <2>1, <2>2, <2>3, <2>4 DEF FlowOK, ReviewOK, Requests
    <2> QED
      BY <1>0, <2>1, <2>4, <2>5 DEF FlowOK, VerdictOK
  <1>8. ASSUME NEW r \in Reports, ~ApprovesReport(t), status'[r] \in Approved
        PROVE  status[r] \in Approved
    BY <1>0, <1>5, <1>8 DEF Overlay, ApprovesReport
  <1> QED
    BY <1>2, <1>3, <1>4, <1>5, <1>7, <1>8 DEF t

LEMMA CommitBlocks ==
  ASSUME TypeOK, FlowInv, BlockInv, NEW s \in Sessions, Commit(s)
  PROVE  BlockedByReports'
  <1> DEFINE t == txn[s]
             o == Overlay(t)
             p == status'
  <1> SUFFICES ASSUME CountedAlone'
               PROVE  /\ stream'.blocked => AutoBlock
                      /\ stream'.blocked => Cardinality(Reporters(p)) >= Threshold - 1
                      /\ AutoBlock /\ Cardinality(Reporters(p)) >= Threshold
                           => stream'.blocked
    BY DEF BlockedByReports, CountedAlone
  <1>0. BlockOK(t) /\ BlockedByReports /\ Threshold \in Nat
    BY ModerationAssumption DEF BlockInv
  <1>1. stream'.blocked = (stream.blocked \/ t.block)
    BY CommitStreamFields
  <1>2. /\ CountedAlone
        /\ ApprovesReport(t) => "stream" \in Changed(t) /\ "stream" \notin t.stale
        /\ \A r \in Reports :
             /\ p[r] = o[r]
             /\ status[r] \in Approved => p[r] \in Approved
             /\ ~ApprovesReport(t) /\ p[r] \in Approved => status[r] \in Approved
    BY CommitReports
  <1>3. /\ t.block => AutoBlock /\ ApprovesReport(t)
        /\ t.block => Cardinality(Reporters(o)) >= Threshold - 1
        /\ ApprovesReport(t) /\ AutoBlock /\ Cardinality(Reporters(o)) >= Threshold
             => t.block \/ stream.blocked
    BY <1>0, <1>2 DEF BlockOK
  <1>4. /\ stream.blocked => AutoBlock
        /\ stream.blocked => Cardinality(Reporters(status)) >= Threshold - 1
        /\ AutoBlock /\ Cardinality(Reporters(status)) >= Threshold => stream.blocked
    BY <1>0, <1>2 DEF BlockedByReports, CountedAlone
  <1> HIDE DEF t, o, p
  <1>5. Reporters(p) = Reporters(o)
    BY <1>2 DEF Reporters
  <1>6. /\ Cardinality(Reporters(status)) <= Cardinality(Reporters(p))
        /\ Cardinality(Reporters(status)) \in Nat /\ Cardinality(Reporters(p)) \in Nat
    BY <1>2, ReportersGrow
  <1>7. ~ApprovesReport(t) => Cardinality(Reporters(p)) <= Cardinality(Reporters(status))
    BY <1>2, ReportersGrow
  <1>8. stream'.blocked => Cardinality(Reporters(p)) >= Threshold - 1
    <2>1. Cardinality(Reporters(status)) >= Threshold - 1
            => Cardinality(Reporters(p)) >= Threshold - 1
      BY <1>0, <1>6
    <2>2. t.block => Cardinality(Reporters(p)) >= Threshold - 1
      BY <1>3, <1>5
    <2> QED
      BY <1>1, <1>4, <2>1, <2>2, Zenon
  <1>9. AutoBlock /\ Cardinality(Reporters(p)) >= Threshold => stream'.blocked
    <2>1. ~ApprovesReport(t) /\ Cardinality(Reporters(p)) >= Threshold
            => Cardinality(Reporters(status)) >= Threshold
      BY <1>0, <1>6, <1>7
    <2>2. ApprovesReport(t) /\ AutoBlock /\ Cardinality(Reporters(p)) >= Threshold
            => t.block \/ stream.blocked
      BY <1>3, <1>5
    <2> QED
      BY <1>1, <1>4, <2>1, <2>2, Zenon
  <1>10. stream'.blocked => AutoBlock
    BY <1>1, <1>3, <1>4, Zenon
  <1> QED
    BY <1>8, <1>9, <1>10

LEMMA BlockOvertaken ==
  ASSUME TypeOK, FlowInv, BlockInv, NEW s \in Sessions, Commit(s),
         NEW r \in Sessions \ {s}, NEW n \in Txn, Overtaken(txn[r], n, Changed(txn[s]))
  PROVE  BlockOK(n)'
  <1> DEFINE t == txn[s]
             x == txn[r]
             a == Overlay(x)
             b == [q \in Items |-> IF n.write[q] = "keep" THEN status'[q] ELSE n.write[q]]
  <1>0. /\ BlockOK(x) /\ x \in Txn /\ Threshold \in Nat /\ Reports \subseteq Items
        /\ "keep" \notin Approved
    BY ModerationAssumption DEF BlockInv, TypeOK, Items, Approved
  <1>1. /\ n.write = x.write /\ n.read = x.read /\ n.block = x.block
        /\ n.stale = x.stale \cup (Changed(t) \cap x.read)
    BY DEF Overtaken, SameStream
  <1>2. stream'.blocked = (stream.blocked \/ t.block)
    BY CommitStreamFields
  <1>3. CountedAlone' =>
        /\ CountedAlone
        /\ ApprovesReport(t) => "stream" \in Changed(t)
        /\ \A q \in Reports :
             /\ status[q] \in Approved => status'[q] \in Approved
             /\ ~ApprovesReport(t) /\ status'[q] \in Approved => status[q] \in Approved
    BY CommitReports
  <1>4. Overlay(n)' = b
    BY DEF Overlay
  <1>5. ApprovesReport(n) <=> ApprovesReport(x)
    BY <1>1 DEF ApprovesReport
  <1>6. CountedAlone' => \A q \in Reports : a[q] \in Approved => b[q] \in Approved
    BY <1>0, <1>1, <1>3 DEF Overlay
  <1>7. CountedAlone' /\ ~ApprovesReport(t) =>
          \A q \in Reports : b[q] \in Approved => a[q] \in Approved
    BY <1>0, <1>1, <1>3 DEF Overlay
  <1> HIDE DEF t, x, a, b
  <1>8. CountedAlone' =>
          /\ Cardinality(Reporters(a)) <= Cardinality(Reporters(b))
          /\ Cardinality(Reporters(a)) \in Nat /\ Cardinality(Reporters(b)) \in Nat
    BY <1>6, ReportersGrow
  <1>9. CountedAlone' /\ ~ApprovesReport(t) =>
          Cardinality(Reporters(b)) <= Cardinality(Reporters(a))
    BY <1>7, ReportersGrow
  <1>10. /\ x.block \/ ApprovesReport(x) => "stream" \in x.read
         /\ x.block => AutoBlock /\ ApprovesReport(x)
         /\ CountedAlone /\ x.block => Cardinality(Reporters(a)) >= Threshold - 1
         /\ (/\ CountedAlone /\ ApprovesReport(x) /\ "stream" \notin x.stale
             /\ AutoBlock /\ Cardinality(Reporters(a)) >= Threshold)
              => x.block \/ stream.blocked
    BY <1>0 DEF BlockOK, a
  <1>11. CountedAlone' /\ n.block => Cardinality(Reporters(b)) >= Threshold - 1
    BY <1>0, <1>1, <1>3, <1>8, <1>10
  <1>12. ASSUME CountedAlone', ApprovesReport(n), "stream" \notin n.stale,
                AutoBlock, Cardinality(Reporters(b)) >= Threshold
         PROVE  n.block \/ stream'.blocked
    <2>1. ~ApprovesReport(t) /\ "stream" \notin x.stale
      BY <1>1, <1>3, <1>5, <1>10, <1>12
    <2>2. Cardinality(Reporters(a)) >= Threshold
      BY <1>0, <1>8, <1>9, <1>12, <2>1
    <2>3. CountedAlone /\ ApprovesReport(x)
      BY <1>3, <1>5, <1>12
    <2>4. x.block \/ stream.blocked
      BY <1>10, <1>12, <2>1, <2>2, <2>3
    <2> QED
      BY <1>1, <1>2, <2>4, Zenon
  <1>13. /\ n.block \/ ApprovesReport(n) => "stream" \in n.read
         /\ n.block => AutoBlock /\ ApprovesReport(n)
    BY <1>1, <1>5, <1>10
  <1> QED
    BY <1>4, <1>11, <1>12, <1>13 DEF BlockOK, ApprovesReport

LEMMA CommitBlock ==
  ASSUME TypeOK, FlowInv, BlockInv, NEW s \in Sessions, Commit(s)
  PROVE  BlockInv'
  <1>1. /\ txn' \in [Sessions -> Txn] /\ txn'[s] = Idle
        /\ \A r \in Sessions \ {s} : Overtaken(txn[r], txn'[r], Changed(txn[s]))
    BY CommitOthers
  <1>2. ASSUME NEW r \in Sessions PROVE BlockOK(txn[r])'
    <2> PICK n : n = txn'[r]
      OBVIOUS
    <2>1. BlockOK(n)'
      <3>1. CASE r = s
        <4>1. n = Idle
          BY <1>1, <3>1
        <4>2. ~n.block /\ ~ApprovesReport(n)
          BY <4>1 DEF Idle, ApprovesReport, Approved, Items
        <4> QED
          BY <4>2 DEF BlockOK, ApprovesReport
      <3>2. CASE r # s
        <4>1. n \in Txn /\ Overtaken(txn[r], n, Changed(txn[s])) /\ r \in Sessions \ {s}
          BY <1>1, <3>2
        <4> QED
          BY <4>1, BlockOvertaken
      <3> QED
        BY <3>1, <3>2
    <2> QED
      BY <2>1 DEF BlockOK, ApprovesReport, Overlay, CountedAlone
  <1>3. BlockedByReports'
    BY CommitBlocks
  <1> QED
    BY <1>2, <1>3 DEF BlockInv

LEMMA InitBlock == Init => BlockInv
  <1> SUFFICES ASSUME Init PROVE BlockInv
    OBVIOUS
  <1>1. \A s \in Sessions : ~txn[s].block /\ ~ApprovesReport(txn[s])
    BY DEF Init, Idle, ApprovesReport, Approved, Items
  <1>2. \A s \in Sessions : BlockOK(txn[s])
    BY <1>1 DEF BlockOK
  <1>3. ~stream.blocked
    BY DEF Init, NoStream
  <1>4. Reporters(status) = {}
    BY DEF Init, Reporters, Approved, Items
  <1>5. Cardinality(Reporters(status)) = 0
    BY <1>4, FS_EmptySet
  <1>6. Threshold \in Nat \ {0}
    BY ModerationAssumption
  <1>7. BlockedByReports
    BY <1>3, <1>5, <1>6 DEF BlockedByReports
  <1> QED
    BY <1>2, <1>7 DEF BlockInv

(* What every transaction knows of the reports it counted is kept by every *)
(* step of the routers.                                                    *)
THEOREM BlockInvariant == Spec => []BlockInv
  <1>1. Init => BlockInv
    BY InitBlock
  <1>2. TypeOK /\ FlowInv /\ BlockInv /\ [Next]_vars => BlockInv'
    <2> SUFFICES ASSUME TypeOK, FlowInv, BlockInv, [Next]_vars PROVE BlockInv'
      OBVIOUS
    <2>1. CASE Next
      <3> PICK s \in Sessions : Step(s) \/ Commit(s)
        BY <2>1, FlowLookup, NextSteps
      <3> QED
        BY StepBlock, CommitBlock
    <2>2. CASE UNCHANGED vars
      BY <2>2 DEF BlockInv, BlockOK, BlockedByReports, ApprovesReport, Overlay, CountedAlone, vars
    <2> QED
      BY <2>1, <2>2
  <1> QED
    BY <1>1, <1>2, FlowInvariant, PTL DEF Spec

(* Where reports block streams, the stream is blocked once Threshold users *)
(* have approved reports and never with fewer than Threshold - 1, unless   *)
(* two reports were counted or one was handled by two requests at the same *)
(* time; where they do not, it never is.                                   *)
THEOREM ReportsBlock == Spec => []BlockedByReports
  <1>1. BlockInv => BlockedByReports
    BY DEF BlockInv
  <1> QED
    BY <1>1, BlockInvariant, PTL

-----------------------------------------------------------------------------
(***************************************************************************)
(* Points                                                                  *)
(***************************************************************************)

Own(S, u) == {i \in S : Author[i] = u}

(* What a transaction is going to add to the points of u agrees with the   *)
(* items it credits; it has loaded every user it credits, and the points   *)
(* it starts from are those of the table unless another commit changed     *)
(* them since.                                                             *)
Balanced(t, u) ==
  /\ t.gain[u] = Award * Cardinality(Own(t.awarded, u)) - Penalty * Cardinality(Own(t.fined, u))
  /\ u \notin t.read => Own(t.awarded, u) = {} /\ Own(t.fined, u) = {}
  /\ u \in t.read \ t.stale => t.base[u] = points[u]
Accounts(t) == \A u \in Users : Balanced(t, u)

(* What is still to be looked at has not been credited.                    *)
Uncredited(t) == t.todo \cap (t.awarded \cup t.fined) = {}

(* Item i is in hand, its author loaded.                                   *)
Ready(t, i) ==
  /\ Accounts(t) /\ Uncredited(t)
  /\ i \notin t.todo \cup t.awarded \cup t.fined
  /\ Author[i] \in t.read \cup {NoUser}

PayOK(t) ==
  /\ Accounts(t) /\ Uncredited(t)
  /\ t.pc \in {"author", "apply"} => t.item \notin t.todo \cup t.awarded \cup t.fined
  /\ t.pc = "apply" /\ t.request \in {"submit", "approve", "reject"} => Ready(t, t.item)

PayInv == (\A s \in Sessions : PayOK(txn[s])) /\ PointsAccounted


(* The counted points of a user grow by one for every item counted.        *)
LEMMA TimesGrow ==
  ASSUME NEW c \in [Items -> Nat], NEW which \in SUBSET Items, NEW u,
         NEW d, d = [i \in Items |-> c[i] + IF i \in which THEN 1 ELSE 0]
  PROVE  /\ Times(c, u) \in Nat /\ Cardinality(Own(which, u)) \in Nat
         /\ Times(d, u) = Times(c, u) + Cardinality(Own(which, u))
  <1> DEFINE O == Own(which, u)
             I == ItemsOf(u)
             g == [i \in I |-> {i} \X (1..c[i])]
             G == {g[i] : i \in I}
             C == UNION G
             D == UNION {{i} \X (1..d[i]) : i \in I}
             f == [i \in O |-> <<i, c[i] + 1>>]
             N == {f[i] : i \in O}
  <1>1. /\ I \subseteq Items /\ O \subseteq I /\ IsFiniteSet(I) /\ IsFiniteSet(O)
        /\ \A i \in I : c[i] \in Nat /\ d[i] = c[i] + IF i \in O THEN 1 ELSE 0
    BY ModerationAssumption, FS_Subset DEF ItemsOf, Own
  <1> HIDE DEF I, O
  <1>2. \A i \in I : IsFiniteSet(g[i])
    <2> SUFFICES ASSUME NEW i \in I PROVE IsFiniteSet({i} \X (1..c[i]))
      OBVIOUS
    <2>1. c[i] \in Int /\ 1 \in Int
      BY <1>1
    <2>2. IsFiniteSet(1..c[i])
      BY <2>1, FS_Interval
    <2>3. IsFiniteSet({i})
      BY FS_Singleton
    <2> QED
      BY <2>2, <2>3, FS_Product
  <1>3. IsFiniteSet(G)
    <2>1. g \in [I -> G] /\ \A x \in G : \E i \in I : g[i] = x
      OBVIOUS
    <2> HIDE DEF g, G
    <2>2. g \in Surjection(I, G)
      BY <2>1 DEF Surjection
    <2> QED
      BY <1>1, <2>2, FS_Surjection
  <1>4. IsFiniteSet(C)
    BY <1>2, <1>3, FS_UNION
  <1>5. /\ C = {p \in I \X Nat : p[2] \in 1..c[p[1]]}
        /\ D = {p \in I \X Nat : p[2] \in 1..d[p[1]]}
    BY <1>1
  <1>6. f \in Surjection(O, N) /\ f \in Injection(O, N)
    <2>1. f \in [O -> N]
      OBVIOUS
    <2>2. \A i, j \in O : f[i] = f[j] => i = j
      OBVIOUS
    <2>3. \A x \in N : \E i \in O : f[i] = x
      OBVIOUS
    <2> HIDE DEF f, N
    <2> QED
      BY <2>1, <2>2, <2>3 DEF Surjection, Injection, IsInjective
  <1>7. IsFiniteSet(N) /\ Cardinality(N) = Cardinality(O)
    BY <1>1, <1>6, FS_Surjection
  <1>8. \A p \in N : p \in I \X Nat /\ p[1] \in O /\ p[2] = c[p[1]] + 1
    BY <1>1
  <1>9. \A p \in I \X Nat : p[1] \in O /\ p[2] = c[p[1]] + 1 => p \in N
    <2> SUFFICES ASSUME NEW p \in I \X Nat, p[1] \in O, p[2] = c[p[1]] + 1
                 PROVE  p \in N
      OBVIOUS
    <2>1. p = f[p[1]]
      OBVIOUS
    <2> QED
      BY <2>1
  <1> HIDE DEF N, f
  <1>10. D = C \cup N /\ C \cap N = {}
    <2>1. \A p \in I \X Nat : p[2] \in 1..d[p[1]]
                               <=> p[2] \in 1..c[p[1]] \/ (p[1] \in O /\ p[2] = c[p[1]] + 1)
      BY <1>1
    <2>2. \A p : p \in D <=> p \in C \cup N
      BY <1>5, <1>8, <1>9, <2>1
    <2>3. \A p \in N : p \notin C
      BY <1>1, <1>5, <1>8
    <2> QED
      BY <2>2, <2>3
  <1>11. Times(c, u) = Cardinality(C)
    <2>1. G = {{i} \X (1..c[i]) : i \in I}
      OBVIOUS
    <2> QED
      BY <2>1 DEF Times, I
  <1>12. Times(d, u) = Cardinality(D)
    BY DEF Times, I
  <1> HIDE DEF C, D
  <1>13. Cardinality(C \cup N) = Cardinality(C) + Cardinality(N) - Cardinality({})
    BY <1>4, <1>7, <1>10, FS_Union
  <1> QED
    BY <1>1, <1>4, <1>7, <1>10, <1>11, <1>12, <1>13, FS_EmptySet, FS_CardinalityType DEF O

(* Nothing is counted before anything is settled.                          *)
LEMMA TimesZero ==
  ASSUME NEW u
  PROVE  Times([i \in Items |-> 0], u) = 0
  <1>1. UNION {{i} \X (1..[j \in Items |-> 0][i]) : i \in ItemsOf(u)} = {}
    BY DEF ItemsOf
  <1> QED
    BY <1>1, FS_EmptySet DEF Times

(* contribution_points as the session sees them.                           *)
LEMMA PointsInValue ==
  ASSUME NEW t \in Txn, NEW u \in Users
  PROVE  /\ t.base[u] \in Nat /\ t.gain[u] \in Int
         /\ PointsIn(t, u) = IF t.base[u] + t.gain[u] > 0 THEN t.base[u] + t.gain[u] ELSE 0
  <1> DEFINE x == t.base[u] + t.gain[u]
             S == {0, x}
             m == IF x > 0 THEN x ELSE 0
  <1>0. x \in Int /\ t.base[u] \in Nat /\ t.gain[u] \in Int
    BY DEF Txn
  <1> HIDE DEF x
  <1>1. m \in S /\ \A y \in S : m >= y
    BY <1>0
  <1>2. \A n \in S : (\A y \in S : n >= y) => n = m
    BY <1>0
  <1>3. Max(S) = m
    BY <1>1, <1>2 DEF Max
  <1> QED
    BY <1>0, <1>3 DEF PointsIn, x

(***************************************************************************)
(* What the operators do to the accounts                                   *)
(***************************************************************************)

SameAccounts(t, n) ==
  /\ n.base = t.base /\ n.gain = t.gain /\ SameCredit(t, n) /\ n.todo = t.todo
  /\ n.stale = t.stale /\ t.read \subseteq n.read /\ n.read \cap Users = t.read \cap Users

LEMMA AccountsKept ==
  ASSUME NEW t, NEW n, SameAccounts(t, n)
  PROVE  /\ Accounts(t) => Accounts(n)
         /\ Uncredited(t) => Uncredited(n)
         /\ \A i : Ready(t, i) => Ready(n, i)
  <1>1. Accounts(t) => Accounts(n)
    BY DEF SameAccounts, Accounts, Balanced, SameCredit
  <1>2. Uncredited(t) => Uncredited(n)
    BY DEF SameAccounts, Uncredited, SameCredit
  <1>3. \A i : Ready(t, i) => Ready(n, i)
    BY <1>1, <1>2 DEF SameAccounts, Ready, SameCredit
  <1> QED
    BY <1>1, <1>2, <1>3

LEMMA WriteAccounts ==
  ASSUME NEW t \in Txn, NEW i, NEW v
  PROVE  SameAccounts(t, [t EXCEPT !.write[i] = v])
  BY DEF Txn, SameAccounts, SameCredit

LEMMA CountAccounts ==
  ASSUME NEW t \in Txn, NEW counted
  PROVE  SameAccounts(t, CountReports(t, counted))
  BY ModerationAssumption DEF Txn, SameAccounts, SameCredit, CountReports

LEMMA ProcessAccounts ==
  ASSUME NEW t \in Txn, NEW i, NEW public
  PROVE  SameAccounts(t, ProcessImport(t, i, public))
  <1> DEFINE found == stream.exists \/ t.new
             isPublic == t.public = "yes" \/ (t.public = "keep" /\ stream.public)
             p == CASE found /\ public /\ ~isPublic -> "yes"
                    [] ~found -> IF public THEN "yes" ELSE "no"
                    [] OTHER -> t.public
             d == IF public THEN t.done \cup {i} ELSE t.done
             w == t.new \/ ~found
  <1>1. ProcessImport(t, i, public)
          = [t EXCEPT !.read = @ \cup {"stream"}, !.new = w, !.public = p, !.done = d]
    BY DEF ProcessImport, Txn
  <1> HIDE DEF found, isPublic, p, d, w
  <1> QED
    BY <1>1, ModerationAssumption DEF Txn, SameAccounts, SameCredit

LEMMA FinishedAccounts ==
  ASSUME NEW t \in Txn
  PROVE  SameAccounts(t, Finished(t))
  BY DEF Finished, Txn, SameAccounts, SameCredit

(* The author is loaded: what is credited stays what it was.               *)
LEMMA LoadAccounts ==
  ASSUME NEW t \in Txn, NEW i \in Items, Accounts(t), points \in [Users -> Nat]
  PROVE  LET n == LoadAuthor(t, i)
         IN  /\ Accounts(n) /\ n.todo = t.todo /\ SameCredit(t, n)
             /\ Author[i] \in n.read \cup {NoUser}
  <1> DEFINE u == Author[i]
             n == LoadAuthor(t, i)
  <1>1. u \in Users \cup {NoUser}
    BY ModerationAssumption
  <1>2. CASE u = NoUser \/ u \in t.read
    BY <1>2 DEF LoadAuthor, SameCredit
  <1>3. CASE u # NoUser /\ u \notin t.read
    <2>1. u \in Users
      BY <1>1, <1>3
    <2> HIDE DEF u
    <2>2. n = [t EXCEPT !.read = @ \cup {u}, !.base[u] = points[u]]
      BY <1>3 DEF LoadAuthor, u
    <2> HIDE DEF n
    <2>3. /\ n.read = t.read \cup {u} /\ n.stale = t.stale /\ n.gain = t.gain
          /\ n.todo = t.todo /\ SameCredit(t, n)
          /\ \A v \in Users : n.base[v] = IF v = u THEN points[u] ELSE t.base[v]
      BY <2>1, <2>2 DEF Txn, SameCredit
    <2>4. ASSUME NEW v \in Users PROVE Balanced(n, v)
      BY <2>3 DEF Accounts, Balanced, SameCredit
    <2> QED
      BY <2>3, <2>4 DEF Accounts, u, n
  <1> QED
    BY <1>2, <1>3

(* Points are given or taken for the item in hand.                         *)
LEMMA OwnGrows ==
  ASSUME NEW S \in SUBSET Items, NEW i \in Items, i \notin S, NEW v
  PROVE  /\ Cardinality(Own(S, v)) \in Nat
         /\ Author[i] # v => Own(S \cup {i}, v) = Own(S, v)
         /\ Author[i] = v =>
              Cardinality(Own(S \cup {i}, v)) = Cardinality(Own(S, v)) + 1
  <1>1. IsFiniteSet(Own(S, v)) /\ i \notin Own(S, v)
    BY ModerationAssumption, FS_Subset DEF Own
  <1>2. Author[i] # v => Own(S \cup {i}, v) = Own(S, v)
    BY DEF Own
  <1>3. Author[i] = v => Own(S \cup {i}, v) = Own(S, v) \cup {i}
    BY DEF Own
  <1> QED
    BY <1>1, <1>2, <1>3, FS_AddElement, FS_CardinalityType

LEMMA AwardAccounts ==
  ASSUME NEW t \in Txn, NEW i \in Items, Ready(t, i)
  PROVE  Accounts(CreditAward(t, i)) /\ Uncredited(CreditAward(t, i))
  <1> DEFINE u == Author[i]
             n == CreditAward(t, i)
  <1>1. CASE u = NoUser
    BY <1>1 DEF CreditAward, Ready
  <1>2. CASE u # NoUser
    <2>1. u \in Users /\ u \in t.read /\ Award \in Nat /\ Penalty \in Nat
      BY <1>2, ModerationAssumption DEF Ready
    <2>2. n = [t EXCEPT !.gain[u] = @ + Award, !.awarded = @ \cup {i}]
      BY <1>2 DEF CreditAward
    <2> HIDE DEF n, u
    <2>3. /\ n.read = t.read /\ n.stale = t.stale /\ n.base = t.base /\ n.todo = t.todo
          /\ n.fined = t.fined /\ n.awarded = t.awarded \cup {i}
          /\ \A v \in Users : n.gain[v] = IF v = u THEN t.gain[u] + Award ELSE t.gain[v]
      BY <2>1, <2>2 DEF Txn
    <2>4. t.awarded \in SUBSET Items /\ t.fined \in SUBSET Items /\ i \notin t.awarded
      BY DEF Txn, Ready
    <2>5. ASSUME NEW v \in Users PROVE Balanced(n, v)
      <3> DEFINE a == Cardinality(Own(t.awarded, v))
                 f == Cardinality(Own(t.fined, v))
      <3>1. Balanced(t, v)
        BY DEF Ready, Accounts
      <3>2. CASE v # u
        BY <2>3, <2>4, <3>1, <3>2, OwnGrows DEF Balanced, u
      <3>3. CASE v = u
        <4>1. a \in Nat /\ Cardinality(Own(t.awarded \cup {i}, v)) = a + 1
          BY <2>4, <3>3, OwnGrows DEF u
        <4>2. t.gain[v] = Award * a - Penalty * f /\ n.gain[v] = t.gain[v] + Award
          BY <2>3, <3>1, <3>3 DEF Balanced
        <4>3. f \in Nat
          BY <2>4, ModerationAssumption, FS_Subset, FS_CardinalityType DEF Own
        <4> HIDE DEF a, f
        <4>4. n.gain[v] = Award * (a + 1) - Penalty * f
          BY <2>1, <4>1, <4>2, <4>3
        <4> QED
          BY <2>1, <2>3, <3>1, <3>3, <4>1, <4>4 DEF Balanced, f
      <3> QED
        BY <3>2, <3>3
    <2>6. Uncredited(n)
      BY <2>3 DEF Ready, Uncredited
    <2> QED
      BY <2>5, <2>6 DEF Accounts, n
  <1> QED
    BY <1>1, <1>2

LEMMA PenaltyAccounts ==
  ASSUME NEW t \in Txn, NEW i \in Suggestions, Ready(t, i)
  PROVE  Accounts(CreditPenalty(t, i)) /\ Uncredited(CreditPenalty(t, i))
  <1> DEFINE u == Author[i]
             n == CreditPenalty(t, i)
  <1>1. u \in Users /\ u \in t.read /\ Award \in Nat /\ Penalty \in Nat /\ i \in Items
    BY ModerationAssumption DEF Ready, Items, Suggestions
  <1>2. n = [t EXCEPT !.gain[u] = @ - Penalty, !.fined = @ \cup {i}]
    BY DEF CreditPenalty
  <1> HIDE DEF n, u
  <1>3. /\ n.read = t.read /\ n.stale = t.stale /\ n.base = t.base /\ n.todo = t.todo
        /\ n.awarded = t.awarded /\ n.fined = t.fined \cup {i}
        /\ \A v \in Users : n.gain[v] = IF v = u THEN t.gain[u] - Penalty ELSE t.gain[v]
    BY <1>1, <1>2 DEF Txn
  <1>4. t.awarded \in SUBSET Items /\ t.fined \in SUBSET Items /\ i \notin t.fined
    BY DEF Txn, Ready
  <1>5. ASSUME NEW v \in Users PROVE Balanced(n, v)
    <2> DEFINE a == Cardinality(Own(t.awarded, v))
               f == Cardinality(Own(t.fined, v))
    <2>1. Balanced(t, v)
      BY DEF Ready, Accounts
    <2>2. CASE v # u
      BY <1>1, <1>3, <1>4, <2>1, <2>2, OwnGrows DEF Balanced, u
    <2>3. CASE v = u
      <3>1. f \in Nat /\ Cardinality(Own(t.fined \cup {i}, v)) = f + 1
        BY <1>1, <1>4, <2>3, OwnGrows DEF u
      <3>2. t.gain[v] = Award * a - Penalty * f /\ n.gain[v] = t.gain[v] - Penalty
        BY <1>3, <2>1, <2>3 DEF Balanced
      <3>3. a \in Nat
        BY <1>4, ModerationAssumption, FS_Subset, FS_CardinalityType DEF Own
      <3> HIDE DEF a, f
      <3>4. n.gain[v] = Award * a - Penalty * (f + 1)
        BY <1>1, <3>1, <3>2, <3>3
      <3> QED
        BY <1>1, <1>3, <2>1, <2>3, <3>1, <3>4 DEF Balanced, a
    <2> QED
      BY <2>2, <2>3
  <1>6. Uncredited(n)
    BY <1>3 DEF Ready, Uncredited
  <1> QED
    BY <1>5, <1>6 DEF Accounts, n

(* A transaction without credits that has loaded nobody.                   *)
LEMMA BlankAccounts ==
  ASSUME NEW t \in Txn, t.read \cap Users = {}, t.gain = [u \in Users |-> 0],
         t.awarded = {}, t.fined = {}
  PROVE  Accounts(t) /\ Uncredited(t)
  <1>1. \A u : Own({}, u) = {}
    BY DEF Own
  <1>2. 0 = Award * 0 - Penalty * 0
    BY ModerationAssumption
  <1>3. ASSUME NEW u \in Users PROVE Balanced(t, u)
    <2>1. t.gain[u] = 0 /\ u \notin t.read
      OBVIOUS
    <2>2. Own(t.awarded, u) = {} /\ Own(t.fined, u) = {}
      BY <1>1
    <2> QED
      BY <1>2, <2>1, <2>2, FS_EmptySet DEF Balanced
  <1> QED
    BY <1>3 DEF Accounts, Uncredited

LEMMA IdlePay == PayOK(Idle)
  <1>1. Accounts(Idle) /\ Uncredited(Idle)
    BY IdleType, BlankAccounts DEF Idle
  <1> QED
    BY <1>1 DEF PayOK, Idle

(***************************************************************************)
(* The steps of a transaction before its commit                            *)
(***************************************************************************)

LEMMA PayFrame ==
  ASSUME TypeOK, PayInv, NEW s \in Sessions, NEW n \in Txn, PayOK(n),
         txn' = [txn EXCEPT ![s] = n], UNCHANGED <<points, awards, fines, raced>>
  PROVE  PayInv'
  <1>1. \A r \in Sessions : txn'[r] = IF r = s THEN n ELSE txn[r]
    BY DEF TypeOK
  <1>2. ASSUME NEW r \in Sessions PROVE PayOK(txn[r])'
    <2>1. PayOK(txn'[r])
      BY <1>1 DEF PayInv
    <2> QED
      BY <2>1 DEF PayOK, Ready, Accounts, Balanced, Uncredited
  <1>3. PointsAccounted'
    BY DEF PayInv, PointsAccounted, Times
  <1> QED
    BY <1>2, <1>3 DEF PayInv

LEMMA PayBegin ==
  ASSUME TypeOK, PayInv, NEW s \in Sessions, NEW n \in Txn, PayOK(n),
         Begin(s, n) \/ Become(s, n)
  PROVE  PayInv'
  BY PayFrame DEF Begin, Become, history

LEMMA PayDone ==
  ASSUME TypeOK, PayInv, NEW s \in Sessions, NEW t \in Txn,
         Accounts(t), Uncredited(t), ItemDone(s, t)
  PROVE  PayInv'
  <1>1. /\ Finished(t) \in Txn /\ Finished(t).pc \in {"commit", "next"}
        /\ Accounts(Finished(t)) /\ Uncredited(Finished(t))
    BY FinishedFields, FinishedAccounts, AccountsKept
  <1>2. PayOK(Finished(t))
    BY <1>1 DEF PayOK
  <1>3. Become(s, Finished(t))
    BY DEF ItemDone, Finished
  <1> QED
    BY <1>1, <1>2, <1>3, PayBegin

LEMMA PayRefused ==
  ASSUME TypeOK, PayInv, NEW s \in Sessions, Become(s, Idle)
  PROVE  PayInv'
  BY IdleType, IdlePay, PayBegin

LEMMA PaySubmit ==
  ASSUME TypeOK, PayInv, NEW s \in Sessions, NEW i \in Items, Submit(s, i)
  PROVE  PayInv'
  <1> DEFINE t == [Idle EXCEPT !.item = i, !.pc = "apply"]
             n == LoadAuthor(t, i)
  <1>0. points \in [Users -> Nat]
    BY DEF TypeOK
  <1>1. /\ t \in Txn /\ t.read \cap Users = {} /\ t.gain = [u \in Users |-> 0]
        /\ t.awarded = {} /\ t.fined = {} /\ t.todo = {} /\ t.item = i
    BY IdleType DEF Idle, Txn
  <1>2. Begin(s, n)
    BY DEF Submit
  <1> HIDE DEF t
  <1>3. Accounts(t) /\ Uncredited(t)
    BY <1>1, BlankAccounts
  <1>4. /\ n \in Txn /\ n.item = i
        /\ Accounts(n) /\ n.todo = {} /\ n.awarded = {} /\ n.fined = {}
        /\ Author[i] \in n.read \cup {NoUser}
    BY <1>0, <1>1, <1>3, LoadAuthorFields, LoadAccounts DEF SameFlow, SameCredit
  <1> HIDE DEF n
  <1>5. PayOK(n)
    BY <1>4 DEF PayOK, Ready, Uncredited
  <1> QED
    BY <1>2, <1>4, <1>5, PayBegin

(* A session of its own starts with nobody loaded.                         *)
LEMMA NewSessionReady ==
  ASSUME NEW t \in Txn, NEW i \in Items, points \in [Users -> Nat],
         Accounts(t), t.awarded = {}, t.fined = {}, t.todo = {}
  PROVE  NewSession(t, i) \in Txn /\ Ready(NewSession(t, i), i)
  <1> DEFINE m == [t EXCEPT !.read = {}, !.stale = {}]
             n == LoadAuthor(m, i)
  <1>1. /\ m \in Txn /\ m.read = {} /\ m.gain = t.gain /\ m.awarded = {} /\ m.fined = {}
        /\ m.todo = {}
    BY DEF Txn
  <1>2. NewSession(t, i) = n
    BY DEF NewSession
  <1> HIDE DEF m
  <1>3. Accounts(m)
    <2>1. \A u : Own({}, u) = {}
      BY DEF Own
    <2>2. ASSUME NEW u \in Users PROVE Balanced(m, u)
      <3>1. Balanced(t, u)
        BY DEF Accounts
      <3>2. m.gain[u] = t.gain[u] /\ m.awarded = t.awarded /\ m.fined = t.fined
        BY <1>1
      <3> QED
        BY <1>1, <2>1, <3>1, <3>2 DEF Balanced
    <2> QED
      BY <2>2 DEF Accounts
  <1>4. /\ n \in Txn /\ Accounts(n) /\ n.todo = {} /\ n.awarded = {} /\ n.fined = {}
        /\ Author[i] \in n.read \cup {NoUser}
    BY <1>1, <1>3, LoadAuthorFields, LoadAccounts DEF SameCredit
  <1> HIDE DEF n
  <1> QED
    BY <1>2, <1>4 DEF Ready, Uncredited

(* A status is written for the item in hand, with or without an award.     *)
LEMMA ReadyWrite ==
  ASSUME NEW t \in Txn, NEW i \in Items, NEW v \in Statuses, Ready(t, i)
  PROVE  LET w == [t EXCEPT !.write[i] = v]
         IN  /\ w \in Txn /\ Ready(w, i) /\ Accounts(w) /\ Uncredited(w)
             /\ CreditAward(w, i) \in Txn
             /\ Accounts(CreditAward(w, i)) /\ Uncredited(CreditAward(w, i))
  <1> DEFINE w == [t EXCEPT !.write[i] = v]
  <1>1. w \in Txn /\ Ready(w, i)
    BY WriteFields, WriteAccounts, AccountsKept
  <1> HIDE DEF w
  <1>2. Accounts(w) /\ Uncredited(w)
    BY <1>1 DEF Ready
  <1>3. CreditAward(w, i) \in Txn
    BY <1>1, CreditAwardFields
  <1>4. Accounts(CreditAward(w, i)) /\ Uncredited(CreditAward(w, i))
    BY <1>1, AwardAccounts
  <1> QED
    BY <1>1, <1>2, <1>3, <1>4 DEF w

LEMMA PayProcess ==
  ASSUME NEW t \in Txn, Accounts(t), Uncredited(t), NEW i \in Imports,
         NEW public \in BOOLEAN, stream \in Stream
  PROVE  LET n == ProcessImport(t, i, public)
         IN  n \in Txn /\ Accounts(n) /\ Uncredited(n)
  BY ProcessFields, ProcessAccounts, AccountsKept

LEMMA PayContribution ==
  ASSUME TypeOK, PayInv, NEW s \in Sessions, NEW i \in Imports, NEW t \in Txn,
         Ready(t, i), NEW approve \in BOOLEAN,
         \/ ItemDone(s, Contribution(t, i, approve))
         \/ ItemDone(s, ProcessImport(Contribution(t, i, approve), i, approve))
  PROVE  PayInv'
  <1> DEFINE c == Contribution(t, i, approve)
  <1>0. i \in Items /\ {"approved", "pending"} \subseteq Statuses /\ stream \in Stream
    BY DEF Items, Statuses, Approved, TypeOK
  <1>1. c \in Txn /\ Accounts(c) /\ Uncredited(c)
    BY <1>0, ReadyWrite DEF Contribution
  <1> HIDE DEF c
  <1>2. /\ ProcessImport(c, i, approve) \in Txn
        /\ Accounts(ProcessImport(c, i, approve)) /\ Uncredited(ProcessImport(c, i, approve))
    BY <1>0, <1>1, PayProcess
  <1> QED
    BY <1>1, <1>2, PayDone DEF c

(* A submission in hand is ready, also in a session of its own.            *)
LEMMA SubmitReady ==
  ASSUME TypeOK, FlowInv, PayInv, NEW s \in Sessions, NEW i \in Items, AtSubmit(s, i)
  PROVE  /\ txn[s] \in Txn /\ Ready(txn[s], i)
         /\ NewSession(txn[s], i) \in Txn /\ Ready(NewSession(txn[s], i), i)
  <1>1. txn[s] \in Txn /\ points \in [Users -> Nat]
    BY DEF TypeOK
  <1>2. txn[s].pc = "apply" /\ txn[s].request = "submit" /\ txn[s].item = i
    BY DEF AtSubmit, At
  <1>3. Blank(txn[s]) /\ txn[s].todo = {}
    BY <1>2 DEF FlowInv, FlowOK, SubmitOK, Submits
  <1>4. Ready(txn[s], i)
    BY <1>2 DEF PayInv, PayOK
  <1> QED
    BY <1>1, <1>3, <1>4, NewSessionReady DEF Blank, Ready

LEMMA PayImports ==
  ASSUME TypeOK, FlowInv, PayInv, NEW s \in Sessions, NEW i \in Items,
         \/ ImportMagnet(s, i) \/ ImportTorrentFile(s, i) \/ ImportNzbFile(s, i)
         \/ ImportNzbUrl(s, i) \/ ImportYoutubeVideo(s, i) \/ CreateContribution(s, i)
  PROVE  PayInv'
  <1>0. i \in Imports /\ AtSubmit(s, i)
    BY DEF ImportMagnet, ImportTorrentFile, ImportNzbFile, ImportNzbUrl,
           ImportYoutubeVideo, CreateContribution, ImportWith
  <1> DEFINE a == txn[s]
             b == NewSession(txn[s], i)
             From(t) == \E approve \in BOOLEAN :
                          \/ ItemDone(s, Contribution(t, i, approve))
                          \/ ItemDone(s, ProcessImport(Contribution(t, i, approve), i, approve))
  <1>1. \/ Become(s, Idle) \/ From(a) \/ From(b)
    BY DEF ImportMagnet, ImportTorrentFile, ImportNzbFile, ImportNzbUrl,
           ImportYoutubeVideo, CreateContribution, ImportWith,
           ProcessTorrent, ProcessNzb, ProcessYoutube
  <1>2. a \in Txn /\ Ready(a, i) /\ b \in Txn /\ Ready(b, i)
    BY <1>0, SubmitReady
  <1> HIDE DEF a, b
  <1>3. CASE Become(s, Idle)
    BY <1>3, PayRefused
  <1>4. CASE From(a)
    BY <1>0, <1>2, <1>4, PayContribution
  <1>5. CASE From(b)
    BY <1>0, <1>2, <1>5, PayContribution
  <1> QED
    BY <1>1, <1>3, <1>4, <1>5

LEMMA PaySuggest ==
  ASSUME TypeOK, FlowInv, PayInv, NEW s \in Sessions, NEW i \in Items,
         \/ CreateStreamSuggestion(s, i) \/ CreateSuggestion(s, i)
         \/ CreateEpisodeSuggestion(s, i)
  PROVE  PayInv'
  <1> DEFINE t == txn[s]
             c == CountReports(t, status)
             Instant(x) == CreditAward([x EXCEPT !.write[i] = "auto"], i)
             w == [t EXCEPT !.write[i] = "pending"]
  <1>0. AtSubmit(s, i) /\ {"auto", "pending"} \subseteq Statuses
    BY DEF CreateStreamSuggestion, CreateSuggestion, CreateEpisodeSuggestion,
           Statuses, Approved
  <1>1. \/ Become(s, Idle) \/ ItemDone(s, Instant(c)) \/ ItemDone(s, Instant(t))
        \/ ItemDone(s, w)
    BY DEF CreateStreamSuggestion, CreateSuggestion, CreateEpisodeSuggestion,
           SuggestEdit, FailedApply, AutoApprove, LeavePending
  <1>2. t \in Txn /\ Ready(t, i)
    BY <1>0, SubmitReady
  <1>3. c \in Txn /\ Ready(c, i)
    BY <1>2, CountReportsFields, CountAccounts, AccountsKept
  <1> HIDE DEF t, c
  <1>4. CASE Become(s, Idle)
    BY <1>4, PayRefused
  <1>5. CASE ItemDone(s, Instant(c))
    BY <1>0, <1>3, <1>5, ReadyWrite, PayDone
  <1>6. CASE ItemDone(s, Instant(t))
    BY <1>0, <1>2, <1>6, ReadyWrite, PayDone
  <1>7. CASE ItemDone(s, w)
    BY <1>0, <1>2, <1>7, ReadyWrite, PayDone
  <1> QED
    BY <1>1, <1>4, <1>5, <1>6, <1>7

(* A review that is opened has credited nothing and loaded no author.      *)
LEMMA ReviewPay ==
  ASSUME NEW verdict \in Requests, NEW bulk \in BOOLEAN,
         NEW pc \in {"next", "author", "apply", "commit"},
         NEW todo \in SUBSET Items, NEW i \in Items \cup {NoItem}, NEW read \in SUBSET Items,
         pc = "apply" => verdict \in {"strike", "delete"},
         pc \in {"author", "apply"} => todo = {}
  PROVE  LET n == Review(verdict, bulk, pc, todo, i, read)
         IN  n \in Txn /\ n.pc = pc /\ n.request = verdict /\ PayOK(n)
  <1> DEFINE n == Review(verdict, bulk, pc, todo, i, read)
  <1>1. n \in Txn
    BY IdleType DEF Review, Idle, Txn, Row
  <1>2. /\ n.request = verdict /\ n.pc = pc /\ n.todo = todo /\ n.item = i /\ n.read = read
        /\ n.gain = [u \in Users |-> 0] /\ n.awarded = {} /\ n.fined = {}
    BY DEF Review, Idle
  <1>3. read \cap Users = {}
    BY ModerationAssumption
  <1> HIDE DEF n
  <1>4. Accounts(n) /\ Uncredited(n)
    BY <1>1, <1>2, <1>3, BlankAccounts
  <1>5. PayOK(n)
    BY <1>2, <1>4 DEF PayOK
  <1> QED
    BY <1>1, <1>2, <1>5 DEF n

LEMMA PayOpen ==
  ASSUME TypeOK, PayInv, NEW s \in Sessions,
         \/ \E i \in Items : BeginReview(s, i)
         \/ \E todo \in SUBSET Imports : BulkReviewContributions(s, todo)
         \/ \E kind \in {Reports, Edits, Episodes} :
              \E todo \in SUBSET kind : BulkReviewSuggestions(s, todo)
  PROVE  PayInv'
  <1>2. ASSUME NEW i \in Items, BeginReview(s, i) PROVE PayInv'
    <2> PICK verdict \in {"approve", "reject"} :
               Begin(s, Review(verdict, FALSE, "author", {}, i, {i}))
      BY <1>2 DEF BeginReview
    <2> DEFINE n == Review(verdict, FALSE, "author", {}, i, {i})
    <2>0. verdict \in Requests /\ {} \in SUBSET Items /\ {i} \in SUBSET Items
      BY DEF Requests
    <2>1. n \in Txn /\ PayOK(n)
      BY <2>0, ReviewPay
    <2> QED
      BY <2>1, PayBegin
  <1>3. ASSUME NEW todo \in SUBSET Imports, BulkReviewContributions(s, todo) PROVE PayInv'
    <2> PICK verdict \in {"approve", "reject"} :
               Begin(s, Review(verdict, TRUE, "next", todo, NoItem, todo))
      BY <1>3 DEF BulkReviewContributions
    <2> DEFINE n == Review(verdict, TRUE, "next", todo, NoItem, todo)
    <2>0. verdict \in Requests /\ todo \in SUBSET Items
      BY DEF Requests, Items
    <2>1. n \in Txn /\ PayOK(n)
      BY <2>0, ReviewPay
    <2> QED
      BY <2>1, PayBegin
  <1>4. ASSUME NEW kind \in {Reports, Edits, Episodes}, NEW todo \in SUBSET kind,
               BulkReviewSuggestions(s, todo)
        PROVE  PayInv'
    <2> PICK verdict \in {"approve", "reject"} :
               Begin(s, Review(verdict, TRUE, "next", todo, NoItem, {}))
      BY <1>4 DEF BulkReviewSuggestions
    <2> DEFINE n == Review(verdict, TRUE, "next", todo, NoItem, {})
    <2>0. verdict \in Requests /\ todo \in SUBSET Items /\ {} \in SUBSET Items
      BY DEF Requests, Items
    <2>1. n \in Txn /\ PayOK(n)
      BY <2>0, ReviewPay
    <2> QED
      BY <2>1, PayBegin
  <1> QED
    BY <1>2, <1>3, <1>4

LEMMA PayOpenWrite ==
  ASSUME TypeOK, PayInv, NEW s \in Sessions, NEW i \in Items,
         RejectApproved(s, i) \/ DeleteContribution(s, i) \/ DeleteSuggestion(s, i)
  PROVE  PayInv'
  <1> DEFINE a == Review("strike", FALSE, "apply", {}, i, {i})
             b == Review("delete", FALSE, "commit", {}, i, {i})
  <1>1. /\ {"strike", "delete"} \subseteq Requests /\ {"rejected", "deleted"} \subseteq Statuses
        /\ {} \in SUBSET Items /\ {i} \in SUBSET Items
    BY DEF Requests, Statuses
  <1>2. a \in Txn /\ a.pc = "apply" /\ a.request = "strike" /\ PayOK(a)
    BY <1>1, ReviewPay
  <1>3. b \in Txn /\ b.pc = "commit" /\ b.request = "delete" /\ PayOK(b)
    BY <1>1, ReviewPay
  <1>4. Begin(s, [a EXCEPT !.write[i] = "rejected"]) \/ Begin(s, [b EXCEPT !.write[i] = "deleted"])
    BY DEF RejectApproved, DeleteContribution, DeleteSuggestion
  <1> HIDE DEF a, b
  <1>5. ASSUME NEW m \in Txn, NEW v \in Statuses, PayOK(m), m.request \in {"strike", "delete"},
               Begin(s, [m EXCEPT !.write[i] = v])
        PROVE  PayInv'
    <2> DEFINE n == [m EXCEPT !.write[i] = v]
    <2>1. n \in Txn /\ n.pc = m.pc /\ SameFlow(m, n) /\ SameCredit(m, n)
      BY WriteFields
    <2>2. SameAccounts(m, n)
      BY WriteAccounts
    <2>3. Begin(s, n)
      BY <1>5
    <2> HIDE DEF n
    <2>4. Accounts(n) /\ Uncredited(n)
      BY <1>5, <2>2, AccountsKept DEF PayOK
    <2>5. PayOK(n)
      BY <1>5, <2>1, <2>4 DEF PayOK, SameFlow, SameCredit
    <2> QED
      BY <2>1, <2>3, <2>5, PayBegin
  <1> QED
    BY <1>1, <1>2, <1>3, <1>4, <1>5

LEMMA PayNextItem ==
  ASSUME TypeOK, PayInv, NEW s \in Sessions, NEW i \in Items, NextItem(s, i)
  PROVE  PayInv'
  <1> DEFINE t == txn[s]
             m == [t EXCEPT !.todo = @ \ {i}, !.item = i, !.read = @ \cup {i}]
             a == [m EXCEPT !.pc = "author"]
  <1>0. t \in Txn /\ t.pc = "next" /\ i \in t.todo /\ i \notin Users /\ PayOK(t)
    BY ModerationAssumption DEF TypeOK, NextItem, At, PayInv
  <1>1. /\ m \in Txn /\ m.todo = t.todo \ {i} /\ m.item = i /\ m.read = t.read \cup {i}
        /\ SameCredit(t, m) /\ m.stale = t.stale /\ m.base = t.base /\ m.gain = t.gain
    BY <1>0 DEF Txn, Row, SameCredit
  <1>2. Become(s, a) \/ ItemDone(s, m)
    BY DEF NextItem
  <1> HIDE DEF m
  <1>3. /\ a \in Txn /\ a.pc = "author" /\ a.item = m.item /\ SameAccounts(m, a)
    BY <1>1 DEF Txn, SameAccounts, SameCredit
  <1> HIDE DEF a
  <1>4. Accounts(m)
    <2>1. ASSUME NEW u \in Users PROVE Balanced(m, u)
      <3>1. Balanced(t, u) /\ (u \in m.read <=> u \in t.read)
        BY <1>0, <1>1 DEF PayOK, Accounts
      <3> QED
        BY <1>1, <3>1 DEF Balanced, SameCredit
    <2> QED
      BY <2>1 DEF Accounts
  <1>5. Uncredited(m) /\ i \notin m.todo \cup m.awarded \cup m.fined
    BY <1>0, <1>1 DEF PayOK, Uncredited, SameCredit
  <1>6. Accounts(a) /\ Uncredited(a)
    BY <1>3, <1>4, <1>5, AccountsKept
  <1>7. PayOK(a)
    BY <1>1, <1>3, <1>5, <1>6 DEF PayOK, SameAccounts, SameCredit
  <1> QED
    BY <1>1, <1>2, <1>3, <1>4, <1>5, <1>7, PayDone, PayBegin

LEMMA PayReadAuthor ==
  ASSUME TypeOK, LookupOK, PayInv, NEW s \in Sessions, ReadAuthor(s)
  PROVE  PayInv'
  <1> DEFINE t == txn[s]
             i == t.item
             m == LoadAuthor(t, i)
             n == [m EXCEPT !.pc = "apply"]
  <1>0. /\ t \in Txn /\ t.pc = "author" /\ i \in Items /\ points \in [Users -> Nat]
        /\ PayOK(t)
    BY DEF TypeOK, LookupOK, ReadAuthor, At, PayInv
  <1>1. m \in Txn /\ m.item = i
    BY <1>0, LoadAuthorFields DEF SameFlow
  <1>2. /\ Accounts(m) /\ m.todo = t.todo /\ SameCredit(t, m)
        /\ Author[i] \in m.read \cup {NoUser}
    BY <1>0, LoadAccounts DEF PayOK
  <1>3. Become(s, n)
    BY DEF ReadAuthor
  <1> HIDE DEF m
  <1>4. n \in Txn /\ n.pc = "apply" /\ n.item = m.item /\ SameAccounts(m, n)
    BY <1>1 DEF Txn, SameAccounts, SameCredit
  <1> HIDE DEF n
  <1>5. Ready(m, i)
    BY <1>0, <1>2 DEF PayOK, Ready, Uncredited, SameCredit
  <1>6. Ready(n, i)
    BY <1>4, <1>5, AccountsKept
  <1>7. PayOK(n)
    BY <1>1, <1>4, <1>6 DEF PayOK, Ready
  <1> QED
    BY <1>3, <1>4, <1>7, PayBegin

LEMMA PayApprove ==
  ASSUME TypeOK, PayInv, NEW s \in Sessions, NEW i \in Items,
         \/ ApproveContribution(s, i) \/ ApproveSuggestion(s, i)
         \/ ApproveEpisodeSuggestion(s, i) \/ ApproveStreamSuggestion(s, i)
  PROVE  PayInv'
  <1> DEFINE t == txn[s]
             w == [t EXCEPT !.write[i] = "approved"]
             a == CreditAward(w, i)
             c == CountReports(w, Overlay(w))
  <1>0. t.pc = "apply" /\ t.item = i /\ t.request = "approve"
    BY DEF ApproveContribution, ApproveSuggestion, ApproveEpisodeSuggestion,
           ApproveStreamSuggestion, Reviewing, At
  <1>1. /\ t \in Txn /\ stream \in Stream /\ "approved" \in Statuses /\ PayOK(t)
    BY DEF TypeOK, PayInv, Statuses, Approved
  <1>2. \/ ItemDone(s, t) \/ ItemDone(s, w) \/ ItemDone(s, a) \/ ItemDone(s, CreditAward(c, i))
        \/ i \in Imports /\ ItemDone(s, ProcessImport(a, i, TRUE))
    BY DEF ApproveContribution, ApproveSuggestion, ApproveEpisodeSuggestion,
           ApproveStreamSuggestion, Overlay
  <1>3. Ready(t, i)
    BY <1>0, <1>1 DEF PayOK
  <1>4. /\ w \in Txn /\ Ready(w, i) /\ Accounts(w) /\ Uncredited(w)
        /\ a \in Txn /\ Accounts(a) /\ Uncredited(a)
    BY <1>1, <1>3, ReadyWrite
  <1> HIDE DEF w
  <1>5. c \in Txn /\ Ready(c, i)
    BY <1>4, CountReportsFields, CountAccounts, AccountsKept
  <1> HIDE DEF a, c
  <1>6. CASE ItemDone(s, t)
    BY <1>1, <1>3, <1>6, PayDone DEF Ready
  <1>7. CASE ItemDone(s, w) \/ ItemDone(s, a)
    BY <1>4, <1>7, PayDone
  <1>8. CASE ItemDone(s, CreditAward(c, i))
    BY <1>5, <1>8, CreditAwardFields, AwardAccounts, PayDone
  <1>9. CASE i \in Imports /\ ItemDone(s, ProcessImport(a, i, TRUE))
    BY <1>1, <1>4, <1>9, PayProcess, PayDone
  <1> QED
    BY <1>2, <1>6, <1>7, <1>8, <1>9

LEMMA PayReject ==
  ASSUME TypeOK, PayInv, NEW s \in Sessions, NEW i \in Items,
         RejectContribution(s, i) \/ RejectSuggestion(s, i)
  PROVE  PayInv'
  <1> DEFINE t == txn[s]
             w == [t EXCEPT !.write[i] = "rejected"]
  <1>0. t.pc = "apply" /\ t.item = i /\ t.request = "reject"
    BY DEF RejectContribution, RejectSuggestion, Reviewing, At
  <1>1. t \in Txn /\ "rejected" \in Statuses /\ PayOK(t)
    BY DEF TypeOK, PayInv, Statuses
  <1>2. ItemDone(s, w) \/ (i \in Suggestions /\ ItemDone(s, CreditPenalty(w, i)))
    BY DEF RejectContribution, RejectSuggestion
  <1>3. w \in Txn /\ Ready(w, i) /\ Accounts(w) /\ Uncredited(w)
    BY <1>0, <1>1, ReadyWrite DEF PayOK
  <1> HIDE DEF w
  <1>4. CASE ItemDone(s, w)
    BY <1>3, <1>4, PayDone
  <1>5. CASE i \in Suggestions /\ ItemDone(s, CreditPenalty(w, i))
    BY <1>3, <1>5, CreditPenaltyFields, PenaltyAccounts, PayDone
  <1> QED
    BY <1>2, <1>4, <1>5

LEMMA PayHide ==
  ASSUME TypeOK, PayInv, NEW s \in Sessions, NEW i \in Items, HideStream(s, i)
  PROVE  PayInv'
  <1> DEFINE t == txn[s]
             rd == IF stream.exists THEN t.read \cup {"stream"} ELSE t.read
             pb == IF stream.public THEN "no" ELSE t.public
             m == [t EXCEPT !.read = rd, !.public = pb, !.hide = stream.active]
  <1>0. t \in Txn /\ PayOK(t) /\ stream.active \in BOOLEAN
    BY DEF TypeOK, PayInv, Stream
  <1>1. /\ rd \in SUBSET Row /\ pb \in {"keep", "yes", "no"}
        /\ t.read \subseteq rd /\ rd \cap Users = t.read \cap Users
    BY <1>0, ModerationAssumption DEF Row, Txn
  <1>2. ItemDone(s, m)
    BY DEF HideStream
  <1> HIDE DEF rd, pb
  <1>3. m \in Txn /\ SameAccounts(t, m)
    BY <1>0, <1>1 DEF Txn, SameAccounts, SameCredit
  <1> HIDE DEF m
  <1>4. Accounts(m) /\ Uncredited(m)
    BY <1>0, <1>3, AccountsKept DEF PayOK
  <1> QED
    BY <1>2, <1>3, <1>4, PayDone

(***************************************************************************)
(* A commit                                                                *)
(***************************************************************************)

(* The row goes from p to q by a transaction that loaded b and adds g - h, *)
(* cut off at zero; it is written if that changes what was loaded.         *)
LEMMA FloorBounds ==
  ASSUME NEW p \in Nat, NEW b \in Nat, NEW x \in Nat, NEW y \in Nat,
         NEW g \in Nat, NEW h \in Nat, NEW m, NEW q,
         m = IF b + (g - h) > 0 THEN b + (g - h) ELSE 0,
         q = IF m # b THEN m ELSE p,
         m # b => b = p, p <= x, p >= x - y
  PROVE  q <= x + g /\ q >= (x + g) - (y + h)
  OBVIOUS

LEMMA CommitPoints ==
  ASSUME TypeOK, PayInv, NEW s \in Sessions, Commit(s)
  PROVE  PointsAccounted'
  <1> DEFINE t == txn[s]
  <1>0. t \in Txn /\ Accounts(t) /\ awards \in [Items -> Nat] /\ fines \in [Items -> Nat]
    BY DEF TypeOK, PayInv, PayOK
  <1>1. /\ t.awarded \in SUBSET Items /\ t.fined \in SUBSET Items
    BY <1>0 DEF Txn
  <1>2. /\ awards' = [i \in Items |-> awards[i] + IF i \in t.awarded THEN 1 ELSE 0]
        /\ fines' = [i \in Items |-> fines[i] + IF i \in t.fined THEN 1 ELSE 0]
        /\ raced' = raced \cup (t.stale \cap Changed(t))
        /\ \A u \in Users :
             points'[u] = IF PointsIn(t, u) # t.base[u] THEN PointsIn(t, u) ELSE points[u]
    BY DEF Commit
  <1> HIDE DEF t
  <1>3. ASSUME NEW u \in Users, u \notin raced'
        PROVE  /\ points'[u] <= Award * Times(awards', u)
               /\ points'[u] >= Award * Times(awards', u) - Penalty * Times(fines', u)
    <2> DEFINE A == Times(awards, u)
               F == Times(fines, u)
               a == Cardinality(Own(t.awarded, u))
               f == Cardinality(Own(t.fined, u))
               p == points[u]
               b == t.base[u]
               m == PointsIn(t, u)
               q == points'[u]
    <2>1. /\ A \in Nat /\ F \in Nat /\ a \in Nat /\ f \in Nat
          /\ Times(awards', u) = A + a /\ Times(fines', u) = F + f
      BY <1>0, <1>1, <1>2, TimesGrow
    <2>2. p \in Nat /\ Award \in Nat /\ Penalty \in Nat
      BY ModerationAssumption DEF TypeOK
    <2>3. p <= Award * A /\ p >= Award * A - Penalty * F
      BY <1>2, <1>3 DEF PayInv, PointsAccounted
    <2>4. /\ b \in Nat /\ t.gain[u] = Award * a - Penalty * f
          /\ m = IF b + t.gain[u] > 0 THEN b + t.gain[u] ELSE 0
      BY <1>0, PointsInValue DEF Accounts, Balanced
    <2>5. q = IF m # b THEN m ELSE p
      BY <1>2
    <2>6. m # b => b = p
      <3> SUFFICES ASSUME m # b PROVE b = p
        OBVIOUS
      <3>1. u \in Changed(t)
        BY DEF Changed
      <3>2. u \notin t.stale
        BY <1>2, <1>3, <3>1
      <3>3. u \in t.read
        <4> SUFFICES ASSUME u \notin t.read PROVE FALSE
          OBVIOUS
        <4>1. Own(t.awarded, u) = {} /\ Own(t.fined, u) = {}
          BY <1>0 DEF Accounts, Balanced
        <4>2. a = 0 /\ f = 0
          BY <4>1, FS_EmptySet
        <4> HIDE DEF a, f, b, m
        <4>3. t.gain[u] = 0
          BY <2>2, <2>4, <4>2
        <4> QED
          BY <2>4, <4>3
      <3> QED
        BY <1>0, <3>2, <3>3 DEF Accounts, Balanced
    <2> HIDE DEF A, F, a, f, p, b, m, q
    <2> DEFINE x == Award * A
               y == Penalty * F
               g == Award * a
               h == Penalty * f
    <2>7. x \in Nat /\ y \in Nat /\ g \in Nat /\ h \in Nat
      BY <2>1, <2>2
    <2>8. Award * (A + a) = x + g /\ Penalty * (F + f) = y + h
      BY <2>1, <2>2
    <2>9. /\ m = IF b + (g - h) > 0 THEN b + (g - h) ELSE 0
          /\ p <= x /\ p >= x - y
      BY <2>3, <2>4
    <2> HIDE DEF x, y, g, h
    <2>10. q <= x + g /\ q >= (x + g) - (y + h)
      BY <2>2, <2>4, <2>5, <2>6, <2>7, <2>9, FloorBounds
    <2> QED
      BY <2>1, <2>8, <2>10 DEF q
  <1>4. \A u \in Users \ raced' :
          /\ points'[u] <= Award * Times(awards', u)
          /\ points'[u] >= Award * Times(awards', u) - Penalty * Times(fines', u)
    BY <1>3
  <1> QED
    BY <1>4 DEF PointsAccounted, Times

LEMMA PayOvertaken ==
  ASSUME TypeOK, PayInv, NEW s \in Sessions, Commit(s), NEW r \in Sessions \ {s},
         NEW n \in Txn, Overtaken(txn[r], n, Changed(txn[s]))
  PROVE  PayOK(n)'
  <1> DEFINE t == txn[r]
  <1>1. PayOK(t)
    BY DEF PayInv
  <1>2. /\ n.pc = t.pc /\ n.read = t.read /\ n.base = t.base /\ n.gain = t.gain
        /\ n.todo = t.todo /\ n.item = t.item /\ n.request = t.request
        /\ n.awarded = t.awarded /\ n.fined = t.fined
        /\ n.stale = t.stale \cup (Changed(txn[s]) \cap t.read)
    BY DEF Overtaken, SameFlow, SameCredit
  <1>3. \A u \in Users : u \notin Changed(txn[s]) => points'[u] = points[u]
    BY DEF Commit, Changed
  <1> HIDE DEF t
  <1>4. ASSUME NEW u \in Users PROVE Balanced(n, u)'
    <2>1. Balanced(t, u)
      BY <1>1 DEF PayOK, Accounts
    <2>2. u \in n.read \ n.stale => n.base[u] = points'[u]
      BY <1>2, <1>3, <2>1 DEF Balanced
    <2>3. /\ n.gain[u] = Award * Cardinality(Own(n.awarded, u))
                           - Penalty * Cardinality(Own(n.fined, u))
          /\ u \notin n.read => Own(n.awarded, u) = {} /\ Own(n.fined, u) = {}
      BY <1>2, <2>1 DEF Balanced
    <2> QED
      BY <2>2, <2>3 DEF Balanced
  <1>5. Accounts(n)'
    BY <1>4 DEF Accounts
  <1>6. /\ Uncredited(n)
        /\ n.pc \in {"author", "apply"} => n.item \notin n.todo \cup n.awarded \cup n.fined
    BY <1>1, <1>2 DEF PayOK, Uncredited
  <1>7. n.pc = "apply" /\ n.request \in {"submit", "approve", "reject"} =>
          /\ n.item \notin n.todo \cup n.awarded \cup n.fined
          /\ Author[n.item] \in n.read \cup {NoUser}
    BY <1>1, <1>2 DEF PayOK, Ready
  <1> QED
    BY <1>5, <1>6, <1>7 DEF PayOK, Ready, Uncredited

LEMMA CommitPay ==
  ASSUME TypeOK, PayInv, NEW s \in Sessions, Commit(s)
  PROVE  PayInv'
  <1>1. /\ txn' \in [Sessions -> Txn] /\ txn'[s] = Idle
        /\ \A r \in Sessions \ {s} : Overtaken(txn[r], txn'[r], Changed(txn[s]))
    BY CommitOthers
  <1>2. ASSUME NEW r \in Sessions PROVE PayOK(txn[r])'
    <2> PICK n : n = txn'[r]
      OBVIOUS
    <2>1. PayOK(n)'
      <3>1. CASE r = s
        <4>1. n = Idle
          BY <1>1, <3>1
        <4>2. n.read = {} /\ PayOK(n)
          BY <4>1, IdlePay DEF Idle
        <4> QED
          BY <4>2 DEF PayOK, Ready, Accounts, Balanced, Uncredited
      <3>2. CASE r # s
        <4>1. n \in Txn /\ Overtaken(txn[r], n, Changed(txn[s])) /\ r \in Sessions \ {s}
          BY <1>1, <3>2
        <4> QED
          BY <4>1, PayOvertaken
      <3> QED
        BY <3>1, <3>2
    <2> QED
      BY <2>1 DEF PayOK, Ready, Accounts, Balanced, Uncredited
  <1> QED
    BY <1>2, CommitPoints DEF PayInv

LEMMA InitPay == Init => PayInv
  <1> SUFFICES ASSUME Init PROVE PayInv
    OBVIOUS
  <1>1. \A s \in Sessions : PayOK(txn[s])
    BY IdlePay DEF Init
  <1>2. awards = [i \in Items |-> 0] /\ fines = [i \in Items |-> 0]
    BY DEF Init
  <1>3. Award * 0 = 0 /\ Penalty * 0 = 0
    BY ModerationAssumption
  <1>4. \A u \in Users : points[u] = 0 /\ Times(awards, u) = 0 /\ Times(fines, u) = 0
    BY <1>2, TimesZero DEF Init
  <1>5. PointsAccounted
    BY <1>3, <1>4 DEF PointsAccounted
  <1> QED
    BY <1>1, <1>5 DEF PayInv

LEMMA NextPay ==
  ASSUME TypeOK, FlowInv, PayInv, Next
  PROVE  PayInv'
  <1> PICK s \in Sessions :
      \/ ReadAuthor(s) \/ Commit(s) \/ Rollback(s)
      \/ \E todo \in SUBSET Imports : BulkReviewContributions(s, todo)
      \/ \E kind \in {Reports, Edits, Episodes} :
           \E todo \in SUBSET kind : BulkReviewSuggestions(s, todo)
      \/ \E i \in Items :
           \/ Submit(s, i)
           \/ ImportMagnet(s, i) \/ ImportTorrentFile(s, i) \/ ImportNzbFile(s, i)
           \/ ImportNzbUrl(s, i) \/ ImportYoutubeVideo(s, i) \/ CreateContribution(s, i)
           \/ CreateStreamSuggestion(s, i) \/ CreateSuggestion(s, i)
           \/ CreateEpisodeSuggestion(s, i)
           \/ BeginReview(s, i) \/ NextItem(s, i)
           \/ ApproveContribution(s, i) \/ RejectContribution(s, i)
           \/ ApproveStreamSuggestion(s, i) \/ ApproveSuggestion(s, i)
           \/ ApproveEpisodeSuggestion(s, i) \/ RejectSuggestion(s, i)
           \/ RejectApproved(s, i) \/ HideStream(s, i)
           \/ DeleteContribution(s, i) \/ DeleteSuggestion(s, i)
    BY DEF Next
  <1>1. CASE ReadAuthor(s)
    BY <1>1, FlowLookup, PayReadAuthor
  <1>2. CASE Commit(s)
    BY <1>2, CommitPay
  <1>3. CASE Rollback(s)
    BY <1>3, PayRefused DEF Rollback
  <1>4. CASE \/ \E todo \in SUBSET Imports : BulkReviewContributions(s, todo)
             \/ \E kind \in {Reports, Edits, Episodes} :
                  \E todo \in SUBSET kind : BulkReviewSuggestions(s, todo)
             \/ \E i \in Items : BeginReview(s, i)
    BY <1>4, PayOpen
  <1>5. ASSUME NEW i \in Items,
               \/ Submit(s, i)
               \/ ImportMagnet(s, i) \/ ImportTorrentFile(s, i) \/ ImportNzbFile(s, i)
               \/ ImportNzbUrl(s, i) \/ ImportYoutubeVideo(s, i)
               \/ CreateContribution(s, i)
               \/ CreateStreamSuggestion(s, i) \/ CreateSuggestion(s, i)
               \/ CreateEpisodeSuggestion(s, i) \/ NextItem(s, i)
        PROVE  PayInv'
    BY <1>5, PaySubmit, PayImports, PaySuggest, PayNextItem
  <1>6. ASSUME NEW i \in Items,
               \/ ApproveContribution(s, i) \/ RejectContribution(s, i)
               \/ ApproveStreamSuggestion(s, i) \/ ApproveSuggestion(s, i)
               \/ ApproveEpisodeSuggestion(s, i) \/ RejectSuggestion(s, i)
               \/ RejectApproved(s, i) \/ HideStream(s, i)
               \/ DeleteContribution(s, i) \/ DeleteSuggestion(s, i)
        PROVE  PayInv'
    BY <1>6, PayApprove, PayReject, PayHide, PayOpenWrite
  <1> QED
    BY <1>1, <1>2, <1>3, <1>4, <1>5, <1>6

(* What a transaction will add to the points agrees with the items it      *)
(* credits, and the points of a user nobody raced for with what all        *)
(* committed transactions have credited.                                   *)
THEOREM PayInvariant == Spec => []PayInv
  <1>1. Init => PayInv
    BY InitPay
  <1>2. TypeOK /\ FlowInv /\ PayInv /\ [Next]_vars => PayInv'
    <2> SUFFICES ASSUME TypeOK, FlowInv, PayInv, [Next]_vars PROVE PayInv'
      OBVIOUS
    <2>1. CASE Next
      BY <2>1, NextPay
    <2>2. CASE UNCHANGED vars
      <3>1. \A s \in Sessions : PayOK(txn[s])'
        BY <2>2 DEF PayInv, PayOK, Ready, Accounts, Balanced, Uncredited, vars
      <3>2. PointsAccounted'
        BY <2>2 DEF PayInv, PointsAccounted, Times, vars
      <3> QED
        BY <3>1, <3>2 DEF PayInv
    <2> QED
      BY <2>1, <2>2
  <1> QED
    BY <1>1, <1>2, FlowInvariant, PTL DEF Spec

(* A user whose row was never written from a stale copy has the points of  *)
(* all awards and has lost at most the penalties: bulk reviews, automatic  *)
(* approvals and reviews of other users' items, in whatever order they     *)
(* commit, lose nothing.                                                   *)
THEOREM PointsAreAccounted == Spec => []PointsAccounted
  <1>1. PayInv => PointsAccounted
    BY DEF PayInv
  <1> QED
    BY <1>1, PayInvariant, PTL
=============================================================================
