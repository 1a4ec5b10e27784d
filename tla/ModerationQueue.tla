--------------------------- MODULE ModerationQueue ---------------------------
(***************************************************************************)
(* The moderation centre: ModerationPostViewController and                 *)
(* ModerationCommentViewController, the same code over the "posts" and the *)
(* "comments" collection, running on several moderators' phones over one   *)
(* Firestore database.                                                     *)
(*                                                                         *)
(* A phone has one Firestore client, hence one persistent, first-in        *)
(* first-out queue of writes (outbox) shared by both screens.  Everything  *)
(* the client reports back - the answer to a query, the completion of a    *)
(* delete - is a block run on the main queue, in the order in which the    *)
(* client produced it.  Main-queue blocks and button presses never overlap *)
(* but interleave freely, so a block can find rows other than those shown  *)
(* when the button was pressed.                                            *)
(*                                                                         *)
(* Items are numbers: the number is the "time" field the queries sort by.  *)
(***************************************************************************)
EXTENDS WriteQueue, FiniteSets, SequencesExt

CONSTANTS
    Device,             \* the phones moderators use
    Post, Comment,      \* documents of either collection, by their time stamp
    PostLimit,          \* .limit(to: 15) of loadPendingPosts
    CommentLimit,       \* .limit(to: 20) of loadPendingComments
    Refusable,          \* the <<op, item>> the server's rules may refuse
    MaxInFlight         \* bound: a phone's unfinished requests, writes, blocks

ASSUME ItemAssumption ==
    /\ Post \subseteq Nat /\ Comment \subseteq Nat
    /\ Post \cap Comment = {}

ASSUME LimitAssumption ==
    PostLimit \in Nat \ {0} /\ CommentLimit \in Nat \ {0}

Item == Post \union Comment
Collection == {"posts", "comments"}
Members(c) == IF c = "posts" THEN Post ELSE Comment
Limit(c) == IF c = "posts" THEN PostLimit ELSE CommentLimit

VARIABLES
    docs,       \* the server: docs[i] is the state of document i
    phase,      \* phase[d]: is the app running, closed, or stopped by a trap?
    toShow,     \* toShow[d][c]: postsToShow / commentsToShow, the rows
    asked,      \* asked[d][c]: queries sent and not yet answered
    outbox,     \* outbox[d]: writes the client has not seen acknowledged
    mainQueue,  \* mainQueue[d]: blocks waiting to run on the main queue
    approvals,  \* history: items some moderator pressed Approve on
    denials     \* history: items some moderator pressed Deny on

screenVars == <<phase, toShow, asked>>
clientVars == <<outbox, mainQueue>>
history == <<approvals, denials>>
vars == <<docs, screenVars, clientVars, history>>

\* A write waiting in the client.  row is the index path captured by the
\* completion block, 0 when there is none: updateData is called without a
\* completion, and a restart forgets the blocks but not the writes.
Write == [op : {"approve", "delete"}, item : Item, on : Collection, row : Nat,
          status : Status]

\* A block on the main queue.
Answer(c, s) == [kind |-> "answer", on |-> c, rows |-> s]
Removed(c, r, ok) == [kind |-> "removed", on |-> c, row |-> r, success |-> ok]

Block == [kind : {"answer"}, on : Collection, rows : Seq(Item)]
         \union
         [kind : {"removed"}, on : Collection, row : Nat \ {0},
          success : BOOLEAN]

NoRows == [c \in Collection |-> <<>>]
NoneAsked == [c \in Collection |-> 0]

Init ==
    /\ docs = [i \in Item |-> "absent"]
    /\ phase = [d \in Device |-> "running"]
    /\ toShow = [d \in Device |-> NoRows]
    /\ asked = [d \in Device |-> NoneAsked]
    /\ outbox = [d \in Device |-> <<>>]
    /\ mainQueue = [d \in Device |-> <<>>]
    /\ approvals = {}
    /\ denials = {}

InFlight(d) == asked[d]["posts"] + asked[d]["comments"]
               + Len(outbox[d]) + Len(mainQueue[d])

Running(d) == phase[d] = "running"
HasRoom(d) == InFlight(d) < MaxInFlight
------------------------------------------------------------------------------
(* Authors: a post or a comment reaches the server with approved = false.  *)

Submit(i) ==
    /\ docs[i] = "absent"
    /\ docs' = [docs EXCEPT ![i] = "pending"]
    /\ UNCHANGED <<screenVars, clientVars, history>>
------------------------------------------------------------------------------
(* The two screens.                                                        *)

\* viewDidLoad, or a pull on the refresh control, which is released at once:
\* a second request may be sent before the first is answered.
LoadPending(d, c) ==
    /\ Running(d) /\ HasRoom(d)
    /\ asked' = [asked EXCEPT ![d][c] = @ + 1]
    /\ UNCHANGED <<docs, phase, toShow, clientVars, history>>

\* The approve closure reads the id off the row, sends the update, and
\* removes the row without waiting for the server.
PressApprove(d, c, r) ==
    /\ Running(d) /\ HasRoom(d)
    /\ r \in DOMAIN toShow[d][c]
    /\ outbox' = [outbox EXCEPT ![d] =
            Append(@, [op |-> "approve", item |-> toShow[d][c][r], on |-> c,
                       row |-> 0, status |-> "queued"])]
    /\ approvals' = approvals \union {toShow[d][c][r]}
    /\ toShow' = [toShow EXCEPT ![d][c] = RemoveAt(@, r)]
    /\ UNCHANGED <<docs, phase, asked, mainQueue, denials>>

\* The deny closure reads the id off the row and sends the delete; the row
\* stays, and stays pressable, until the completion block runs.
PressDeny(d, c, r) ==
    /\ Running(d) /\ HasRoom(d)
    /\ r \in DOMAIN toShow[d][c]
    /\ outbox' = [outbox EXCEPT ![d] =
            Append(@, [op |-> "delete", item |-> toShow[d][c][r], on |-> c,
                       row |-> r, status |-> "queued"])]
    /\ denials' = denials \union {toShow[d][c][r]}
    /\ UNCHANGED <<docs, screenVars, mainQueue, approvals>>

\* Slip: the rows are not cleared before the answer's are appended.
ShowAnswerBelow(d, c) ==
    /\ Running(d)
    /\ mainQueue[d] # <<>>
    /\ Head(mainQueue[d]).kind = "answer"
    /\ Head(mainQueue[d]).on = c
    /\ toShow' = [toShow EXCEPT ![d][c] = @ \o Head(mainQueue[d]).rows]
    /\ mainQueue' = [mainQueue EXCEPT ![d] = Tail(@)]
    /\ UNCHANGED <<docs, phase, asked, outbox, history>>

\* The query's completion block replaces the rows, or does nothing but alert.
ShowAnswer(d, c) ==
    /\ Running(d)
    /\ mainQueue[d] # <<>>
    /\ Head(mainQueue[d]).kind = "answer"
    /\ Head(mainQueue[d]).on = c
    /\ toShow' = [toShow EXCEPT ![d][c] = Head(mainQueue[d]).rows]
    /\ mainQueue' = [mainQueue EXCEPT ![d] = Tail(@)]
    /\ UNCHANGED <<docs, phase, asked, outbox, history>>

\* The delete's completion block removes the row at the index path captured
\* when the button was pressed.
RemovedIs(d, c) ==
    /\ Running(d)
    /\ mainQueue[d] # <<>>
    /\ Head(mainQueue[d]).kind = "removed"
    /\ Head(mainQueue[d]).on = c

RemoveRow(d, c) ==
    /\ RemovedIs(d, c)
    /\ Head(mainQueue[d]).success
    /\ Head(mainQueue[d]).row \in DOMAIN toShow[d][c]
    /\ toShow' = [toShow EXCEPT ![d][c] =
                      RemoveAt(@, Head(mainQueue[d]).row)]
    /\ mainQueue' = [mainQueue EXCEPT ![d] = Tail(@)]
    /\ UNCHANGED <<docs, phase, asked, outbox, history>>

\* "Error removing post": an alert, and nothing else.
ReportFailedRemoval(d, c) ==
    /\ RemovedIs(d, c)
    /\ ~ Head(mainQueue[d]).success
    /\ mainQueue' = [mainQueue EXCEPT ![d] = Tail(@)]
    /\ UNCHANGED <<docs, screenVars, outbox, history>>

\* Slip: the client's queue of writes is kept in memory only.
StopForgetting(d, how) ==
    /\ phase' = [phase EXCEPT ![d] = how]
    /\ toShow' = [toShow EXCEPT ![d] = NoRows]
    /\ asked' = [asked EXCEPT ![d] = NoneAsked]
    /\ mainQueue' = [mainQueue EXCEPT ![d] = <<>>]
    /\ outbox' = [outbox EXCEPT ![d] = <<>>]
    /\ UNCHANGED <<docs, history>>

\* What a stopped process loses, and what the persistent queue keeps: the
\* writes, to be sent again, without their completion blocks.
Stop(d, how) ==
    /\ phase' = [phase EXCEPT ![d] = how]
    /\ toShow' = [toShow EXCEPT ![d] = NoRows]
    /\ asked' = [asked EXCEPT ![d] = NoneAsked]
    /\ mainQueue' = [mainQueue EXCEPT ![d] = <<>>]
    /\ outbox' = [outbox EXCEPT ![d] =
            Resent([k \in DOMAIN @ |-> [@[k] EXCEPT !.row = 0]])]
    /\ UNCHANGED <<docs, history>>

\* Array.remove(at:) traps on an index that is out of range.
RemoveMissingRow(d, c) ==
    /\ RemovedIs(d, c)
    /\ Head(mainQueue[d]).success
    /\ Head(mainQueue[d]).row \notin DOMAIN toShow[d][c]
    /\ Stop(d, "trapped")

Kill(d) == Running(d) /\ Stop(d, "closed")

\* Slip: the client starts with an empty queue of writes.
LaunchAfresh(d) ==
    /\ ~ Running(d)
    /\ phase' = [phase EXCEPT ![d] = "running"]
    /\ outbox' = [outbox EXCEPT ![d] = <<>>]
    /\ UNCHANGED <<docs, toShow, asked, mainQueue, history>>

Launch(d) ==
    /\ ~ Running(d)
    /\ phase' = [phase EXCEPT ![d] = "running"]
    /\ UNCHANGED <<docs, toShow, asked, clientVars, history>>

Screen(d, c) ==
    \/ LoadPending(d, c)
    \/ \E r \in DOMAIN toShow[d][c] : PressApprove(d, c, r)
    \/ \E r \in DOMAIN toShow[d][c] : PressDeny(d, c, r)
    \/ ShowAnswer(d, c)
    \/ RemoveRow(d, c)
    \/ ReportFailedRemoval(d, c)
    \/ RemoveMissingRow(d, c)

PostScreen(d) == Screen(d, "posts")
CommentScreen(d) == Screen(d, "comments")
------------------------------------------------------------------------------
(* The Firestore client and the server.                                    *)

PendingOnServer(c) == {i \in Members(c) : docs[i] = "pending"}

\* Documents with a write of this phone still in the outbox: the client lays
\* the write over what the server says, so none of them is pending here.
DecidedHere(d) == {outbox[d][k].item : k \in DOMAIN outbox[d]}

\* The first n of S in time order.
Oldest(S, n) == {i \in S : Cardinality({j \in S : j < i}) < n}

\* The lists s the query for pending documents can return in time order.
IsListOf(d, c, s) ==
    /\ \A j, k \in DOMAIN s : j < k => s[j] < s[k]
    /\ \A i \in ToSet(s) : docs[i] # "absent" /\ i \notin DecidedHere(d)

\* Online: the server's oldest pending documents, less those decided here;
\* when that leaves room, the client may refill from its cache.
IsPendingList(d, c, s) ==
    /\ IsListOf(d, c, s)
    /\ ToSet(s) \subseteq PendingOnServer(c)
    /\ Oldest(PendingOnServer(c), Limit(c)) \ DecidedHere(d) \subseteq ToSet(s)

Deliver(d, c, s) ==
    /\ Running(d)
    /\ asked[d][c] > 0
    /\ asked' = [asked EXCEPT ![d][c] = @ - 1]
    /\ mainQueue' = [mainQueue EXCEPT ![d] = Append(@, Answer(c, s))]
    /\ UNCHANGED <<docs, phase, toShow, outbox, history>>

AnswerLoad(d, c) ==
    \E s \in BoundedSeq(Members(c), Limit(c)) :
        IsPendingList(d, c, s) /\ Deliver(d, c, s)

\* Offline: what the client's cache holds as pending, which may be nothing, and
\* may have been approved or removed by another phone since.  What a cache
\* holds is not modelled: any submitted document not decided here may be in it.
AnswerFromCache(d, c) ==
    \E s \in BoundedSeq(Members(c), Limit(c)) :
        IsListOf(d, c, s) /\ Deliver(d, c, s)

\* The query fails: the completion block only shows an alert.
FailLoad(d, c) ==
    /\ Running(d)
    /\ asked[d][c] > 0
    /\ asked' = [asked EXCEPT ![d][c] = @ - 1]
    /\ UNCHANGED <<docs, phase, toShow, clientVars, history>>

\* The server comes to the k-th write of the phone's queue.
Reaches(d, k) == Running(d) /\ IsNext(outbox[d], k)

\* Slip: the approval is a setData, which creates what does not exist.
CommitApproveAnyway(d, k) ==
    /\ Reaches(d, k)
    /\ outbox[d][k].op = "approve"
    /\ docs' = [docs EXCEPT ![outbox[d][k].item] = "approved"]
    /\ outbox' = [outbox EXCEPT ![d] = Ruled(@, k, "committed")]
    /\ UNCHANGED <<screenVars, mainQueue, history>>

\* updateData carries the precondition that the document exists.
CommitApprove(d, k) ==
    /\ Reaches(d, k)
    /\ outbox[d][k].op = "approve"
    /\ docs[outbox[d][k].item] \in {"pending", "approved"}
    /\ docs' = [docs EXCEPT ![outbox[d][k].item] = "approved"]
    /\ outbox' = [outbox EXCEPT ![d] = Ruled(@, k, "committed")]
    /\ UNCHANGED <<screenVars, mainQueue, history>>

RejectApprove(d, k) ==
    /\ Reaches(d, k)
    /\ outbox[d][k].op = "approve"
    /\ docs[outbox[d][k].item] \notin {"pending", "approved"}
    /\ outbox' = [outbox EXCEPT ![d] = Ruled(@, k, "rejected")]
    /\ UNCHANGED <<docs, screenVars, mainQueue, history>>

\* A delete has no precondition and succeeds on a missing document as well.
CommitDelete(d, k) ==
    /\ Reaches(d, k)
    /\ outbox[d][k].op = "delete"
    /\ docs' = [docs EXCEPT ![outbox[d][k].item] = "deleted"]
    /\ outbox' = [outbox EXCEPT ![d] = Ruled(@, k, "committed")]
    /\ UNCHANGED <<screenVars, mainQueue, history>>

\* The server's security rules refuse the write.
Refuse(d, k) ==
    /\ Reaches(d, k)
    /\ <<outbox[d][k].op, outbox[d][k].item>> \in Refusable
    /\ outbox' = [outbox EXCEPT ![d] = Ruled(@, k, "rejected")]
    /\ UNCHANGED <<docs, screenVars, mainQueue, history>>

\* The stream breaks before the result arrives: the writes are sent again.
LoseResult(d) ==
    /\ Running(d)
    /\ HasResult(outbox[d])
    /\ outbox' = [outbox EXCEPT ![d] = Resent(@)]
    /\ UNCHANGED <<docs, screenVars, mainQueue, history>>

\* The result arrives: the write leaves the queue, and its completion block,
\* if it still has one, goes to the main queue.
Settle(d) ==
    /\ Running(d)
    /\ HasResult(outbox[d])
    /\ outbox' = [outbox EXCEPT ![d] = Tail(@)]
    /\ LET w == Head(outbox[d]) IN
       mainQueue' = IF w.row = 0 THEN mainQueue
                    ELSE [mainQueue EXCEPT ![d] =
                            Append(@, Removed(w.on, w.row,
                                              w.status = "committed"))]
    /\ UNCHANGED <<docs, screenVars, history>>

\* The server rules on a write by what it finds.
Rule(d, k) == CommitApprove(d, k) \/ RejectApprove(d, k) \/ CommitDelete(d, k)

Client(d) ==
    \/ \E c \in Collection :
        AnswerLoad(d, c) \/ AnswerFromCache(d, c) \/ FailLoad(d, c)
    \/ \E k \in DOMAIN outbox[d] : Rule(d, k) \/ Refuse(d, k)
    \/ LoseResult(d)
    \/ Settle(d)

Next ==
    \/ \E i \in Item : Submit(i)
    \/ \E d \in Device :
        \/ PostScreen(d)
        \/ CommentScreen(d)
        \/ Kill(d)
        \/ Launch(d)
        \/ Client(d)

Spec == Init /\ [][Next]_vars

\* The write stream is reopened with backoff for as long as a write waits, so
\* a write offered again and again is ruled on, and its result arrives; a
\* stopped app is opened again.
Fairness ==
    \A d \in Device :
        /\ SF_vars(\E k \in DOMAIN outbox[d] : Rule(d, k))
        /\ SF_vars(Settle(d))
        /\ WF_vars(Launch(d))

LiveSpec == Spec /\ Fairness
------------------------------------------------------------------------------
(* Properties.                                                             *)

TypeOK ==
    /\ docs \in [Item -> {"absent", "pending", "approved", "deleted"}]
    /\ phase \in [Device -> {"running", "closed", "trapped"}]
    /\ toShow \in [Device -> [Collection -> Seq(Item)]]
    /\ asked \in [Device -> [Collection -> Nat]]
    /\ outbox \in [Device -> Seq(Write)]
    /\ mainQueue \in [Device -> Seq(Block)]
    /\ approvals \subseteq Item
    /\ denials \subseteq Item

\* The server takes no decision a moderator did not take: a document is
\* approved or removed only after somebody pressed that button on a row that
\* showed this very document, however late the write reaches the server.
DecidedOnlyByModerators ==
    \A i \in Item :
        /\ docs[i] = "approved" => i \in approvals
        /\ docs[i] = "deleted" => i \in denials

\* d still has this decision to send, or the server has not ruled on it.
Owes(d, op, i) ==
    \E k \in DOMAIN outbox[d] :
        /\ outbox[d][k].op = op
        /\ outbox[d][k].item = i
        /\ outbox[d][k].status = "queued"

\* What a moderator decided on i is done, refused by the rules, or still owed.
DecisionHolds(i) ==
    /\ i \in approvals =>
          \/ docs[i] \in {"approved", "deleted"}
          \/ <<"approve", i>> \in Refusable
          \/ \E d \in Device : Owes(d, "approve", i)
    /\ i \in denials =>
          \/ docs[i] = "deleted"
          \/ <<"delete", i>> \in Refusable
          \/ \E d \in Device : Owes(d, "delete", i)

\* No decision is lost: the row of an approved item leaves the screen before
\* the server has heard of it, and neither a lost connection nor a killed app
\* makes the phone forget the write, unless the rules refuse it.
NoDecisionLost == \A i \in Item : DecisionHolds(i)

\* A screen never lists a document twice, whatever refreshes, completions and
\* presses overlap: two rows of one document would be two decisions on it.
RowsAreDistinct ==
    \A d \in Device, c \in Collection :
        /\ IsInjective(toShow[d][c])
        /\ ToSet(toShow[d][c]) \subseteq Members(c)

\* The moderation centre keeps the promise of ItemLifecycle.
Lifecycle == INSTANCE ItemLifecycle
KeepsLifecycle == Lifecycle!Spec

\* A decision taken on a phone takes effect in the end.
DenialsTakeEffect ==
    \A i \in Item : i \in denials ~> docs[i] = "deleted"

ApprovalsTakeEffect ==
    \A i \in Item : i \in approvals ~> docs[i] \in {"approved", "deleted"}

------------------------------------------------------------------------------
(* The inductive invariant behind the theorems of ArtsExplorer_proofs.     *)

\* The documents s lists have all been submitted.
Known(s) == \A r \in DOMAIN s : docs[s[r]] # "absent"

\* A write carries a decision some moderator took.
IsDecision(w) ==
    /\ w.op = "approve" => w.item \in approvals
    /\ w.op = "delete" => w.item \in denials

\* What the server ruled on a write still stands, given the documents ds.
RulingStands(w, ds) ==
    /\ w.status = "committed" =>
          /\ w.op = "approve" => ds[w.item] \in {"approved", "deleted"}
          /\ w.op = "delete" => ds[w.item] = "deleted"
    /\ w.status = "rejected" =>
          \/ <<w.op, w.item>> \in Refusable
          \/ w.op = "approve" /\ ds[w.item] = "deleted"

DecisionsAreKnown == \A i \in approvals \union denials : docs[i] # "absent"

RowsAreKnown == \A d \in Device, c \in Collection : Known(toShow[d][c])

AnswersAreKnown ==
    \A d \in Device : \A k \in DOMAIN mainQueue[d] :
        mainQueue[d][k].kind = "answer" => Known(mainQueue[d][k].rows)

WritesAreDecisions ==
    \A d \in Device : \A k \in DOMAIN outbox[d] : IsDecision(outbox[d][k])

WritesAreSound ==
    \A d \in Device : \A k \in DOMAIN outbox[d] :
        IsDecision(outbox[d][k]) /\ RulingStands(outbox[d][k], docs)

\* The answers that will replace the rows list no document twice either.
AnswersAreDistinct ==
    \A d \in Device : \A k \in DOMAIN mainQueue[d] :
        mainQueue[d][k].kind = "answer" =>
            /\ IsInjective(mainQueue[d][k].rows)
            /\ ToSet(mainQueue[d][k].rows) \subseteq Members(mainQueue[d][k].on)

\* Nothing on a phone refers to a document that was never submitted, and no
\* write waits in a client that a moderator did not decide, or whose ruling
\* another phone's write has undone before its result was delivered.
Inv ==
    /\ TypeOK
    /\ DecisionsAreKnown
    /\ RowsAreKnown
    /\ AnswersAreKnown
    /\ WritesAreSound
    /\ DecidedOnlyByModerators
    /\ NoDecisionLost
------------------------------------------------------------------------------
\* What the comments of the code say, and the code does not do.

\* "This function handles callbacks to approve and deny posts": a row that a
\* callback takes off the screen is a row whose button somebody pressed.
OnlyDecidedRowsLeave ==
    [][\A d \in Device, c \in Collection :
          RemoveRow(d, c) =>
              toShow[d][c][Head(mainQueue[d]).row]
                  \in approvals \union denials]_vars
==============================================================================
