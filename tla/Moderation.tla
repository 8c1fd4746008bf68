----------------------------- MODULE Moderation -----------------------------
(***************************************************************************)
(* Moderation of user content in the former Python implementation          *)
(* (python-deprecated/api/routers/content): imports of one piece of        *)
(* content as contributions (contributions.py and the torrent, NZB and     *)
(* YouTube import routers), reports that its stream is broken              *)
(* (stream_suggestions.py), metadata and episode corrections               *)
(* (suggestions.py, episode_suggestions.py), and the points their authors  *)
(* get, which decide about automatic approval.                             *)
(*                                                                         *)
(* Every request is one transaction at READ COMMITTED that locks nothing   *)
(* it reads: it reads the item, reads the author, looks at the stream, and *)
(* commits.  SQLAlchemy writes the columns whose value differs from the    *)
(* loaded one, as absolute values, so what a transaction writes depends    *)
(* only on what it read.  A commit that updates a row that is gone         *)
(* (StaleDataError) or inserts a second stream of the content (the unique  *)
(* info_hash, nzb_guid or video_id) saves nothing.                         *)
(***************************************************************************)
EXTENDS Integers, FiniteSets, FiniteSetsExt

CONSTANTS
    Imports,        \* contributions of the content
    Reports,        \* report_broken suggestions about its stream
    Edits,          \* metadata suggestions
    Episodes,       \* episode suggestions
    Author,         \* item -> user who submits it, NoUser if anonymous
    Users,
    Moderators,     \* users with the role of a moderator
    NoUser,
    NoItem,
    Sessions,       \* requests handled at a time
    Award,          \* points_per_stream_edit, points_per_metadata_edit
    Penalty,        \* - points_for_rejection_penalty
    AutoThreshold,  \* auto_approval_threshold
    AutoBlock,      \* auto_block_on_broken_reports
    Threshold,      \* broken_report_threshold
    Submitted,      \* sets of items that may be waiting at the start
    MaxRequests     \* bound: requests explored from there

Items == Imports \cup Reports \cup Edits \cup Episodes
Suggestions == Reports \cup Edits \cup Episodes
Anonymous == {i \in Imports : Author[i] = NoUser}

ASSUME ModerationAssumption ==
    /\ Author \in [Items -> Users \cup {NoUser}]
    /\ NoUser \notin Users /\ NoItem \notin Items
    /\ Moderators \subseteq Users
    /\ \A i \in Suggestions : Author[i] # NoUser
    /\ Imports \cap Suggestions = {} /\ Reports \cap (Edits \cup Episodes) = {}
    /\ Items \cap Users = {} /\ "stream" \notin Items \cup Users
    /\ IsFiniteSet(Items)
    /\ {Award, Penalty, AutoThreshold, Threshold} \subseteq Nat \ {0}
    /\ AutoBlock \in BOOLEAN
    /\ Submitted \subseteq SUBSET Items
    /\ \A w \in Submitted : w \cap Reports # {} => w \cap Anonymous # {}
    /\ MaxRequests \in Nat

VARIABLES
    status,    \* of each contribution or suggestion
    stream,    \* the stream of the content
    points,    \* contribution_points of each user
    txn,       \* the transactions
    requests,  \* requests so far
    published, \* history: imports whose approval's processing reached the stream
    struck,    \* history: reject_approved has hidden the stream
    erased,    \* history: an approved contribution was deleted
    awards,    \* history: how often an item has brought points
    fines,     \* history: how often an item has cost points
    raced      \* history: rows and users written by a commit although another
               \* commit had changed them since they were read

vars == <<status, stream, points, txn, requests, published, struck, erased, awards,
          fines, raced>>

-----------------------------------------------------------------------------

Approved == {"approved", "auto"}
Statuses == {"absent", "pending", "rejected", "deleted"} \cup Approved
Stored == Statuses \ {"absent", "deleted"}
Stream == [exists : BOOLEAN, public : BOOLEAN, active : BOOLEAN, blocked : BOOLEAN]
NoStream == [exists |-> FALSE, public |-> FALSE, active |-> FALSE, blocked |-> FALSE]

Requests == {"submit", "approve", "reject", "strike", "delete"}
Row == Items \cup Users \cup {"stream"}

(* What a transaction has read and is going to write.                      *)
Txn == [pc : {"idle", "next", "author", "apply", "commit"},
        request : Requests,
        bulk : BOOLEAN,                               \* a bulk review
        todo : SUBSET Items,                          \* still to be looked at
        item : Items \cup {NoItem},                   \* being looked at
        read : SUBSET Row,                            \* loaded so far
        base : [Users -> Nat],                        \* points when loaded
        gain : [Users -> Int],                        \* what is added to them
        write : [Items -> Statuses \cup {"keep"}],    \* new statuses
        new : BOOLEAN,                                \* the stream is inserted
        public : {"keep", "yes", "no"},               \* is_public column
        hide : BOOLEAN,                               \* is_active set to False
        block : BOOLEAN,                              \* is_blocked set to True
        done : SUBSET Imports,                        \* history: to be public
        awarded : SUBSET Items,                       \* history
        fined : SUBSET Items,                         \* history
        stale : SUBSET Row]                           \* history: read, then changed

Idle == [pc |-> "idle", request |-> "submit", bulk |-> FALSE, todo |-> {},
         item |-> NoItem, read |-> {}, base |-> [u \in Users |-> 0],
         gain |-> [u \in Users |-> 0], write |-> [i \in Items |-> "keep"],
         new |-> FALSE, public |-> "keep", hide |-> FALSE, block |-> FALSE,
         done |-> {}, awarded |-> {}, fined |-> {}, stale |-> {}]

(* Some items have been submitted and wait for review: anonymous imports,  *)
(* whose stream is private, and contributions stored by create_contribution*)
Init ==
    /\ \E pending \in Submitted :
         /\ status = [i \in Items |-> IF i \in pending THEN "pending" ELSE "absent"]
         /\ stream = IF pending \cap Anonymous = {} THEN NoStream
                     ELSE [NoStream EXCEPT !.exists = TRUE, !.active = TRUE]
    /\ points = [u \in Users |-> 0]
    /\ txn = [s \in Sessions |-> Idle]
    /\ requests = 0
    /\ published = {}
    /\ struck = FALSE /\ erased = FALSE
    /\ awards = [i \in Items |-> 0] /\ fines = awards
    /\ raced = {}

history == <<published, struck, erased, awards, fines, raced>>
At(s, label) == txn[s].pc = label

(* A request arrives.                                                      *)
Begin(s, t) ==
    /\ At(s, "idle")
    /\ requests < MaxRequests
    /\ requests' = requests + 1
    /\ txn' = [txn EXCEPT ![s] = t]
    /\ UNCHANGED <<status, stream, points, history>>

(* A transaction goes on; nothing of it is visible to the others.          *)
Become(s, t) ==
    /\ txn' = [txn EXCEPT ![s] = t]
    /\ UNCHANGED <<status, stream, points, requests, history>>

(* The item in hand is finished.                                           *)
ItemDone(s, t) ==
    Become(s, [t EXCEPT !.pc = IF t.todo = {} THEN "commit" ELSE "next"])

(* The transaction loads the author of item i; the identity map keeps what *)
(* it has loaded before.                                                   *)
LoadAuthor(t, i) ==
    LET u == Author[i]
    IN  IF u = NoUser \/ u \in t.read THEN t
        ELSE [t EXCEPT !.read = @ \cup {u}, !.base[u] = points[u]]

-----------------------------------------------------------------------------
(***************************************************************************)
(* Points                                                                  *)
(***************************************************************************)

(* Variant: the result is not kept from falling below zero.                *)
PointsInUnfloored(t, u) == t.base[u] + t.gain[u]

(* contribution_points as the session sees them: max(0, points + n).       *)
PointsIn(t, u) == Max({0, t.base[u] + t.gain[u]})

(* Variant: every item starts from the points first loaded.                *)
CreditAwardAnew(t, i) ==
    IF Author[i] = NoUser THEN t
    ELSE [t EXCEPT !.gain[Author[i]] = Award, !.awarded = @ \cup {i}]

(* award_import_approval_points and award_points.                          *)
CreditAward(t, i) ==
    IF Author[i] = NoUser THEN t
    ELSE [t EXCEPT !.gain[Author[i]] = @ + Award, !.awarded = @ \cup {i}]

(* The rejection penalty.                                                  *)
CreditPenalty(t, i) ==
    [t EXCEPT !.gain[Author[i]] = @ - Penalty, !.fined = @ \cup {i}]

(* should_auto_approve.                                                    *)
AutoApproved(t, u) == u \in Moderators \/ PointsIn(t, u) >= AutoThreshold

(***************************************************************************)
(* Import processing                                                       *)
(***************************************************************************)

(* Variant: an import is published whatever its status.                    *)
ProcessImportPublic(t, i, public) ==
    [t EXCEPT !.read = @ \cup {"stream"}, !.new = t.new \/ ~stream.exists,
              !.public = "yes", !.done = IF public THEN @ \cup {i} ELSE @]

(* process_*_import: an existing stream is published if that is asked for  *)
(* and it is not public yet, otherwise a stream is made.                   *)
ProcessImport(t, i, public) ==
    LET found == stream.exists \/ t.new
        isPublic == t.public = "yes" \/ (t.public = "keep" /\ stream.public)
    IN  [t EXCEPT
           !.read = @ \cup {"stream"},
           !.new = t.new \/ ~found,
           !.public = CASE found /\ public /\ ~isPublic -> "yes"
                        [] ~found -> IF public THEN "yes" ELSE "no"
                        [] OTHER -> @,
           !.done = IF public THEN @ \cup {i} ELSE @]

ProcessTorrent(t, i, public) == ProcessImport(t, i, public)
ProcessNzb(t, i, public) == ProcessImport(t, i, public)
ProcessYoutube(t, i, public) == ProcessImport(t, i, public)

(***************************************************************************)
(* Submitting a contribution.  The user is loaded when the request is      *)
(* authenticated.                                                          *)
(***************************************************************************)

Submitting(i) == \E s \in Sessions : ~At(s, "idle") /\ txn[s].request = "submit" /\ txn[s].item = i

(* A request that creates item i, past its first checks.  (With            *)
(* force_import there is no check for an existing stream.)                 *)
Submit(s, i) ==
    /\ status[i] = "absent" /\ ~Submitting(i)
    /\ i \in Reports => stream.exists
    /\ Begin(s, LoadAuthor([Idle EXCEPT !.item = i, !.pc = "apply"], i))

AtSubmit(s, i) == At(s, "apply") /\ txn[s].request = "submit" /\ txn[s].item = i

(* The new contribution.                                                   *)
Contribution(t, i, approve) ==
    IF approve THEN CreditAward([t EXCEPT !.write[i] = "approved"], i)
    ELSE [t EXCEPT !.write[i] = "pending"]

(* The torrent routers and the NZB URL import open a session of their own, *)
(* in which the user is loaded again.                                      *)
NewSession(t, i) == LoadAuthor([t EXCEPT !.read = {}, !.stale = {}], i)

(* An import under the user's name is approved, because who is             *)
(* authenticated is active; an anonymous one is if a moderator sends it.  A*)
(* processing that raises before it touches the stream is noted and        *)
(* committed like one that succeeds.                                       *)
ImportWith(s, i, loaded, Process(_, _, _)) ==
    /\ i \in Imports /\ AtSubmit(s, i)
    /\ \E approve \in IF i \in Anonymous THEN BOOLEAN ELSE {TRUE} :
         LET t == Contribution(loaded, i, approve)
         IN  ItemDone(s, t) \/ ItemDone(s, Process(t, i, approve))

ImportMagnet(s, i) == ImportWith(s, i, NewSession(txn[s], i), ProcessTorrent)
ImportTorrentFile(s, i) == ImportWith(s, i, NewSession(txn[s], i), ProcessTorrent)
ImportNzbFile(s, i) == ImportWith(s, i, txn[s], ProcessNzb)
ImportYoutubeVideo(s, i) == ImportWith(s, i, txn[s], ProcessYoutube)

(* The one import without force_import.                                    *)
ImportNzbUrl(s, i) ==
    IF stream.exists THEN i \in Imports /\ AtSubmit(s, i) /\ Become(s, Idle)
    ELSE ImportWith(s, i, NewSession(txn[s], i), ProcessNzb)

(* create_contribution stores the contribution and processes nothing; what *)
(* it approves depends also on the type.                                   *)
CreateContribution(s, i) ==
    /\ i \in Imports /\ AtSubmit(s, i)
    /\ \E approve \in BOOLEAN : ItemDone(s, Contribution(txn[s], i, approve))

(***************************************************************************)
(* Submitting a suggestion                                                 *)
(***************************************************************************)

Reporters(statuses) == {Author[r] : r \in {q \in Reports : statuses[q] \in Approved}}

(* Variant: the reporter being counted is forgotten.                       *)
CountReportsOff(t, counted) ==
    [t EXCEPT !.read = @ \cup {"stream"},
              !.block = @ \/ (AutoBlock /\ ~stream.blocked
                              /\ Cardinality(Reporters(counted)) >= Threshold)]

(* apply_stream_changes for report_broken, where reports block streams at  *)
(* all: the users with approved reports and one more.                      *)
CountReports(t, counted) ==
    [t EXCEPT !.read = @ \cup {"stream"},
              !.block = @ \/ (AutoBlock /\ ~stream.blocked
                              /\ Cardinality(Reporters(counted)) + 1 >= Threshold)]

AutoApprove(t, i) == CreditAward([t EXCEPT !.write[i] = "auto"], i)
LeavePending(t, i) == [t EXCEPT !.write[i] = "pending"]

(* create_stream_suggestion: one report by a user, none of a blocked       *)
(* stream; a refused request changes nothing.                              *)
CreateStreamSuggestion(s, i) ==
    /\ i \in Reports /\ AtSubmit(s, i)
    /\ LET t == txn[s]
           refused == \/ stream.blocked
                      \/ \E r \in Reports : Author[r] = Author[i] /\ status[r] \in Stored
       IN  \/ refused /\ Become(s, Idle)
           \/ /\ ~refused
              /\ ItemDone(s, IF AutoApproved(t, Author[i])
                             THEN AutoApprove(CountReports(t, status), i)
                             ELSE LeavePending(t, i))

(* Variant: the points are kept when the change cannot be applied.         *)
FailedApplyKeepsAward(t, i) == CreditAward(LeavePending(t, i), i)

(* A change that cannot be applied waits for a moderator.                  *)
FailedApply(t, i) == LeavePending(t, i)

SuggestEdit(s, i) ==
    LET t == txn[s]
    IN  IF AutoApproved(t, Author[i])
        THEN ItemDone(s, AutoApprove(t, i)) \/ ItemDone(s, FailedApply(t, i))
        ELSE ItemDone(s, LeavePending(t, i))

CreateSuggestion(s, i) == i \in Edits /\ AtSubmit(s, i) /\ SuggestEdit(s, i)
CreateEpisodeSuggestion(s, i) == i \in Episodes /\ AtSubmit(s, i) /\ SuggestEdit(s, i)

-----------------------------------------------------------------------------
(***************************************************************************)
(* Reviews                                                                 *)
(***************************************************************************)

Review(verdict, bulk, pc, todo, item, read) ==
    [Idle EXCEPT !.request = verdict, !.bulk = bulk, !.pc = pc, !.todo = todo,
                 !.item = item, !.read = read]

(* The review endpoints read one item, which must be pending.              *)
BeginReview(s, i) ==
    /\ status[i] = "pending"
    /\ \E verdict \in {"approve", "reject"} :
         Begin(s, Review(verdict, FALSE, "author", {}, i, {i}))

(* bulk_review_contributions reads all pending ones it is asked for.       *)
BulkReviewContributions(s, todo) ==
    /\ todo # {} /\ todo \subseteq {i \in Imports : status[i] = "pending"}
    /\ \E verdict \in {"approve", "reject"} :
         Begin(s, Review(verdict, TRUE, "next", todo, NoItem, todo))

(* The bulk reviews of suggestions get a list of ids.                      *)
BulkReviewSuggestions(s, todo) ==
    /\ \E i \in todo : status[i] = "pending"
    /\ \E verdict \in {"approve", "reject"} :
         Begin(s, Review(verdict, TRUE, "next", todo, NoItem, {}))

(* The next item of a bulk review; a suggestion is read now and skipped if *)
(* it is not pending.                                                      *)
NextItem(s, i) ==
    /\ At(s, "next") /\ i \in txn[s].todo
    /\ LET t == [txn[s] EXCEPT !.todo = @ \ {i}, !.item = i, !.read = @ \cup {i}]
       IN  IF i \in Imports \/ status[i] = "pending"
           THEN Become(s, [t EXCEPT !.pc = "author"])
           ELSE ItemDone(s, t)

ReadAuthor(s) ==
    /\ At(s, "author")
    /\ Become(s, [LoadAuthor(txn[s], txn[s].item) EXCEPT !.pc = "apply"])

Reviewing(s, i, verdict) ==
    At(s, "apply") /\ txn[s].item = i /\ txn[s].request = verdict

(* _apply_contribution_review, approved: adult content stays pending, any  *)
(* other failure of the processing is noted and approved.                  *)
ApproveContribution(s, i) ==
    /\ i \in Imports /\ Reviewing(s, i, "approve")
    /\ LET t == CreditAward([txn[s] EXCEPT !.write[i] = "approved"], i)
       IN  \/ ItemDone(s, txn[s])
           \/ ItemDone(s, t)
           \/ ItemDone(s, ProcessImport(t, i, TRUE))

RejectContribution(s, i) ==
    /\ i \in Imports /\ Reviewing(s, i, "reject")
    /\ ItemDone(s, [txn[s] EXCEPT !.write[i] = "rejected"])

(* review_stream_suggestion and its bulk form: the new status is flushed   *)
(* before the reports are counted.                                         *)
ApproveStreamSuggestion(s, i) ==
    /\ i \in Reports /\ Reviewing(s, i, "approve")
    /\ LET t == [txn[s] EXCEPT !.write[i] = "approved"]
           flushed == [r \in Items |-> IF t.write[r] = "keep" THEN status[r] ELSE t.write[r]]
       IN  ItemDone(s, CreditAward(CountReports(t, flushed), i))

(* review_suggestion and its bulk form: a change that cannot be applied    *)
(* leaves the suggestion as it is.                                         *)
ApproveSuggestion(s, i) ==
    /\ i \in Edits /\ Reviewing(s, i, "approve")
    /\ \/ ItemDone(s, txn[s])
       \/ ItemDone(s, CreditAward([txn[s] EXCEPT !.write[i] = "approved"], i))

(* review_episode_suggestion approves a change that cannot be applied and  *)
(* gives no points for it; its bulk form gives them.                       *)
ApproveEpisodeSuggestion(s, i) ==
    /\ i \in Episodes /\ Reviewing(s, i, "approve")
    /\ LET t == [txn[s] EXCEPT !.write[i] = "approved"]
       IN  \/ ItemDone(s, CreditAward(t, i))
           \/ ~t.bulk /\ ItemDone(s, t)

RejectSuggestion(s, i) ==
    /\ i \in Suggestions /\ Reviewing(s, i, "reject")
    /\ ItemDone(s, CreditPenalty([txn[s] EXCEPT !.write[i] = "rejected"], i))

(* reject_approved_contribution hides the stream and deducts nothing.      *)
RejectApproved(s, i) ==
    /\ i \in Imports /\ status[i] = "approved"
    /\ Begin(s, [Review("strike", FALSE, "apply", {}, i, {i}) EXCEPT !.write[i] = "rejected"])

HideStream(s, i) ==
    /\ Reviewing(s, i, "strike")
    /\ ItemDone(s, [txn[s] EXCEPT
         !.read = IF stream.exists THEN @ \cup {"stream"} ELSE @,
         !.public = IF stream.public THEN "no" ELSE @,
         !.hide = stream.active])

(* delete_contribution: the owner while it is pending, an admin at any     *)
(* time.                                                                   *)
DeleteContribution(s, i) ==
    /\ i \in Imports /\ status[i] \in Stored
    /\ Begin(s, [Review("delete", FALSE, "commit", {}, i, {i}) EXCEPT !.write[i] = "deleted"])

(* delete_stream_suggestion, delete_suggestion, delete_episode_suggestion. *)
DeleteSuggestion(s, i) ==
    /\ i \in Suggestions /\ status[i] = "pending"
    /\ Begin(s, [Review("delete", FALSE, "commit", {}, i, {i}) EXCEPT !.write[i] = "deleted"])

-----------------------------------------------------------------------------
(***************************************************************************)
(* Commit                                                                  *)
(***************************************************************************)

WritesStream(t) == t.new \/ t.public # "keep" \/ t.hide \/ t.block

(* Rows and users that a commit changes; the approval of a report changes  *)
(* what other transactions count for the stream.                           *)
Changed(t) ==
    {i \in Items : t.write[i] # "keep"}
    \cup {u \in Users : PointsIn(t, u) # t.base[u]}
    \cup {x \in {"stream"} : WritesStream(t) \/ \E r \in Reports : t.write[r] \in Approved}

Rejected(t) ==
    \/ t.new /\ stream.exists
    \/ /\ t.request \in {"approve", "reject", "strike"}
       /\ \E i \in Items : t.write[i] # "keep" /\ status[i] = "deleted"

Rollback(s) ==
    /\ At(s, "commit") /\ Rejected(txn[s])
    /\ Become(s, Idle)

CommitStream(t) ==
    [exists |-> stream.exists \/ t.new,
     public |-> IF t.public = "keep" THEN stream.public ELSE t.public = "yes",
     active |-> (stream.active \/ t.new) /\ ~t.hide,
     blocked |-> stream.blocked \/ t.block]

Commit(s) ==
    LET t == txn[s]
        Count(old, which) == [i \in Items |-> old[i] + IF i \in which THEN 1 ELSE 0]
    IN  /\ At(s, "commit") /\ ~Rejected(t)
        /\ status' = [i \in Items |-> IF t.write[i] = "keep" THEN status[i] ELSE t.write[i]]
        /\ points' = [u \in Users |->
                        IF PointsIn(t, u) # t.base[u] THEN PointsIn(t, u) ELSE points[u]]
        /\ stream' = CommitStream(t)
        /\ txn' = [r \in Sessions |->
                     IF r = s THEN Idle
                     ELSE [txn[r] EXCEPT !.stale = @ \cup (Changed(t) \cap txn[r].read)]]
        /\ published' = published \cup t.done
        /\ struck' = (struck \/ (t.request = "strike" /\ "stream" \in t.read))
        /\ erased' = (erased \/ \E i \in Imports :
                                  t.write[i] = "deleted" /\ status[i] \in Approved)
        /\ awards' = Count(awards, t.awarded)
        /\ fines' = Count(fines, t.fined)
        /\ raced' = raced \cup (t.stale \cap Changed(t))
        /\ UNCHANGED requests

Next ==
    \E s \in Sessions :
      \/ ReadAuthor(s) \/ Commit(s) \/ Rollback(s)
      \/ \E todo \in SUBSET Imports : BulkReviewContributions(s, todo)
      \/ \E kind \in {Reports, Edits, Episodes} :
           \E todo \in SUBSET kind : BulkReviewSuggestions(s, todo)
      \/ \E i \in Items :
           \/ Submit(s, i)
           \/ ImportMagnet(s, i) \/ ImportTorrentFile(s, i) \/ ImportNzbFile(s, i)
           \/ ImportNzbUrl(s, i) \/ ImportYoutubeVideo(s, i) \/ CreateContribution(s, i)
           \/ CreateStreamSuggestion(s, i) \/ CreateSuggestion(s, i)
           \/ CreateEpisodeSuggestion(s, i)
           \/ BeginReview(s, i) \/ NextItem(s, i)
           \/ ApproveContribution(s, i) \/ RejectContribution(s, i)
           \/ ApproveStreamSuggestion(s, i) \/ ApproveSuggestion(s, i)
           \/ ApproveEpisodeSuggestion(s, i) \/ RejectSuggestion(s, i)
           \/ RejectApproved(s, i) \/ HideStream(s, i)
           \/ DeleteContribution(s, i) \/ DeleteSuggestion(s, i)

Spec == Init /\ [][Next]_vars

-----------------------------------------------------------------------------
(***************************************************************************)
(* Properties                                                              *)
(***************************************************************************)

(* Every variable holds a value of its type; in particular no user's       *)
(* contribution_points falls below zero.                                   *)
TypeOK ==
    /\ status \in [Items -> Statuses]
    /\ stream \in Stream
    /\ points \in [Users -> Nat]
    /\ txn \in [Sessions -> Txn]
    /\ requests \in 0..MaxRequests
    /\ published \subseteq Imports
    /\ struck \in BOOLEAN /\ erased \in BOOLEAN
    /\ awards \in [Items -> Nat] /\ fines \in [Items -> Nat]
    /\ raced \subseteq Row

(* The times the items of user u are counted, all together.                *)
ItemsOf(u) == {i \in Items : Author[i] = u}
Times(counter, u) == Cardinality(UNION {{i} \X (1..counter[i]) : i \in ItemsOf(u)})

(* A user whose row was never written from a stale copy has the points of  *)
(* all awards, and has lost at most the penalties (less where the zero     *)
(* floor was hit): bulk reviews, automatic approvals and reviews of other  *)
(* users' items, in whatever order they commit, lose nothing.              *)
PointsAccounted ==
    \A u \in Users \ raced :
      /\ points[u] <= Award * Times(awards, u)
      /\ points[u] >= Award * Times(awards, u) - Penalty * Times(fines, u)

(* Points are given or taken once per item and never for one that waits    *)
(* for review, and they agree with what becomes of a suggestion: one that  *)
(* cost points is rejected, one that brought some is approved, and one that*)
(* was withdrawn did neither.  (An import keeps what its approval brought  *)
(* when reject_approved or delete takes it away.)  An item reviewed or     *)
(* withdrawn by two requests at once is the exception.                     *)
SettledOnce ==
    \A i \in Items \ raced :
      /\ awards[i] + fines[i] <= 1
      /\ status[i] \in {"absent", "pending"} => awards[i] + fines[i] = 0
      /\ i \in Suggestions =>
           /\ fines[i] > 0 => status[i] = "rejected"
           /\ awards[i] > 0 => status[i] \in Approved

(* The stream can be seen exactly when an import has been approved whose   *)
(* processing reached it, and reject_approved never came: then it stays    *)
(* hidden, an approval makes it public and not active.  The exceptions are *)
(* an approved contribution that was deleted, which leaves the stream, and *)
(* a commit that wrote the stream or an import from a stale copy.          *)
VisibleIffApproved ==
    (~erased /\ raced \cap (Imports \cup {"stream"}) = {}) =>
      (stream.public /\ stream.active
         <=> ~struck /\ \E i \in published : status[i] \in Approved)

(* Reports counted at the same time as another, or reviewed or withdrawn   *)
(* by two requests at once, are the exception of what follows.             *)
CountedAlone == raced \cap (Reports \cup {"stream"}) = {}

(* Where reports block streams, the stream is blocked once Threshold users *)
(* have approved reports, and never with fewer than Threshold - 1 (a report*)
(* under review counts itself twice); elsewhere it never is.               *)
BlockedByReports ==
    CountedAlone =>
      /\ stream.blocked => AutoBlock /\ Cardinality(Reporters(status)) >= Threshold - 1
      /\ AutoBlock /\ Cardinality(Reporters(status)) >= Threshold => stream.blocked

(* What the description of broken_report_threshold says: the stream is not *)
(* blocked before that many users have approved reports.                   *)
BlockedAtThreshold ==
    CountedAlone /\ stream.blocked => Cardinality(Reporters(status)) >= Threshold

=============================================================================
