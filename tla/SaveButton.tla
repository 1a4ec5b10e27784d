------------------------------ MODULE SaveButton ------------------------------
(***************************************************************************)
(* The bookmark on a post (PostTableViewCell), for one user on one phone.  *)
(*                                                                         *)
(* A table has few cells and gives each, in turn, to many posts.  A press  *)
(* changes the button at once and queues an update of the "savedPosts"     *)
(* array of the user's document; what the array says is read back after    *)
(* every reuse of the cell, and shown when the answer arrives, whatever    *)
(* post the cell then holds and whatever has been pressed meanwhile.       *)
(***************************************************************************)
EXTENDS WriteQueue, SequencesExt

CONSTANTS
    Post,               \* the posts the cell is given
    Refusable,          \* the posts whose updates the server's rules refuse
    MaxInFlight         \* bound: unfinished reads, answers and writes

ASSUME RefusableAssumption == Refusable \subseteq Post

VARIABLES
    savedPosts, \* the server: the array of the user's document
    outbox,     \* updates the client has not seen acknowledged
    postID,     \* the post the cell holds
    filled,     \* does the button show "bookmark.fill"?
    isSelected, \* the button's own state
    visiting,   \* reads of the authors' documents under way, by post
    reading,    \* reads of the user's document under way
    mainQueue,  \* answers waiting to be shown
    wanted      \* history: the posts saved, by the presses made so far

button == <<filled, isSelected>>
reads == <<visiting, reading, mainQueue>>
vars == <<savedPosts, outbox, postID, button, reads, wanted>>

Update == [op : {"arrayUnion", "arrayRemove"}, post : Post,
           status : Status]

Init ==
    /\ savedPosts = {} /\ wanted = {}
    /\ outbox = <<>>
    /\ postID \in Post
    /\ filled = FALSE /\ isSelected = FALSE
    /\ visiting = [p \in Post |-> IF p = postID THEN 1 ELSE 0]
    /\ reading = 0 /\ mainQueue = <<>>

Visiting == FoldFunction(+, 0, visiting)

HasRoom == Visiting + reading + Len(mainQueue) + Len(outbox) < MaxInFlight
------------------------------------------------------------------------------
(* The cell.                                                               *)

\* The table reuses the cell: prepareForReuse reads the user's document,
\* configure sets the post and reads the author's.
Reuse(p) ==
    /\ HasRoom
    /\ postID' = p
    /\ visiting' = [visiting EXCEPT ![p] = @ + 1]
    /\ reading' = reading + 1
    /\ UNCHANGED <<savedPosts, outbox, button, mainQueue, wanted>>

\* Slip: a listener instead of one read, whose block runs at every change.
ShowAuthorAgain(p) ==
    /\ visiting[p] > 0
    /\ UNCHANGED visiting
    /\ reading' = reading + 1
    /\ UNCHANGED <<savedPosts, outbox, postID, button, mainQueue, wanted>>

\* The author of p has been found: its completion calls fillSaveButtons.
ShowAuthor(p) ==
    /\ visiting[p] > 0
    /\ visiting' = [visiting EXCEPT ![p] = @ - 1]
    /\ reading' = reading + 1
    /\ UNCHANGED <<savedPosts, outbox, postID, button, mainQueue, wanted>>

\* There is no such author: the title says so, and nothing more is read.
FailAuthor(p) ==
    /\ visiting[p] > 0
    /\ visiting' = [visiting EXCEPT ![p] = @ - 1]
    /\ UNCHANGED <<savedPosts, outbox, postID, button, reading, mainQueue,
                   wanted>>

Press(op) ==
    /\ HasRoom
    /\ outbox' = Append(outbox, [op |-> op, post |-> postID,
                                 status |-> "queued"])
    /\ UNCHANGED <<savedPosts, postID, reads>>

PressSave ==
    /\ ~ isSelected
    /\ Press("arrayUnion")
    /\ filled' = TRUE /\ isSelected' = TRUE
    /\ wanted' = wanted \union {postID}

PressUnsave ==
    /\ isSelected
    /\ Press("arrayRemove")
    /\ filled' = FALSE /\ isSelected' = FALSE
    /\ wanted' = wanted \ {postID}

\* fillSaveButtons' completion: the picture of the button, for the post the
\* cell holds now; isSelected is not touched.
ShowSaved ==
    /\ mainQueue # <<>>
    /\ filled' = (postID \in Head(mainQueue))
    /\ mainQueue' = Tail(mainQueue)
    /\ UNCHANGED <<savedPosts, outbox, postID, isSelected, visiting, reading,
                   wanted>>
------------------------------------------------------------------------------
(* The Firestore client and the server.                                    *)

UpdatesOf(p) == {k \in DOMAIN outbox : outbox[k].post = p}

\* The client lays its own updates, in order, over the server's document.
SavedHere ==
    {p \in Post :
        IF UpdatesOf(p) = {} THEN p \in savedPosts
        ELSE \E k \in UpdatesOf(p) :
                /\ outbox[k].op = "arrayUnion"
                /\ \A j \in UpdatesOf(p) : j <= k}

AnswerSaved ==
    /\ reading > 0
    /\ reading' = reading - 1
    /\ mainQueue' = Append(mainQueue, SavedHere)
    /\ UNCHANGED <<savedPosts, outbox, postID, button, visiting, wanted>>

\* No answer: "no need for any action".
FailSaved ==
    /\ reading > 0
    /\ reading' = reading - 1
    /\ UNCHANGED <<savedPosts, outbox, postID, button, visiting, mainQueue,
                   wanted>>

Rule(k, status) ==
    /\ IsNext(outbox, k)
    /\ outbox' = Ruled(outbox, k, status)
    /\ UNCHANGED <<postID, button, reads, wanted>>

CommitUpdate(k) ==
    /\ Rule(k, "committed")
    /\ outbox[k].post \notin Refusable
    /\ savedPosts' = IF outbox[k].op = "arrayUnion"
                     THEN savedPosts \union {outbox[k].post}
                     ELSE savedPosts \ {outbox[k].post}

RefuseUpdate(k) ==
    /\ Rule(k, "rejected")
    /\ outbox[k].post \in Refusable
    /\ UNCHANGED savedPosts

\* Slip: the writes whose results were lost go to the end of the queue.
LoseResultAndRequeue ==
    /\ HasResult(outbox)
    /\ outbox' = Resent(Append(Tail(outbox), Head(outbox)))
    /\ UNCHANGED <<savedPosts, postID, button, reads, wanted>>

\* The stream breaks before the result arrives: all writes are sent again.
LoseResult ==
    /\ HasResult(outbox)
    /\ outbox' = Resent(outbox)
    /\ UNCHANGED <<savedPosts, postID, button, reads, wanted>>

\* The result arrives; there is no completion block to tell.
Settle ==
    /\ HasResult(outbox)
    /\ outbox' = Tail(outbox)
    /\ UNCHANGED <<savedPosts, postID, button, reads, wanted>>

\* Slip: the client's queue of writes is kept in memory only.
ReopenAfresh(p) ==
    /\ outbox' = <<>>
    /\ postID' = p
    /\ filled' = FALSE /\ isSelected' = FALSE
    /\ visiting' = [q \in Post |-> IF q = p THEN 1 ELSE 0]
    /\ reading' = 0 /\ mainQueue' = <<>>
    /\ UNCHANGED <<savedPosts, wanted>>

\* The app is killed and opened again: a new cell, the old queue of writes.
Reopen(p) ==
    /\ outbox' = Resent(outbox)
    /\ postID' = p
    /\ filled' = FALSE /\ isSelected' = FALSE
    /\ visiting' = [q \in Post |-> IF q = p THEN 1 ELSE 0]
    /\ reading' = 0 /\ mainQueue' = <<>>
    /\ UNCHANGED <<savedPosts, wanted>>

Next ==
    \/ \E p \in Post : Reuse(p) \/ Reopen(p) \/ ShowAuthor(p) \/ FailAuthor(p)
    \/ PressSave
    \/ PressUnsave
    \/ ShowSaved
    \/ AnswerSaved
    \/ FailSaved
    \/ \E k \in DOMAIN outbox : CommitUpdate(k) \/ RefuseUpdate(k)
    \/ LoseResult
    \/ Settle

Spec == Init /\ [][Next]_vars

\* The write stream is reopened for as long as a write waits.
Fairness ==
    /\ SF_vars(\E k \in DOMAIN outbox : CommitUpdate(k) \/ RefuseUpdate(k))
    /\ SF_vars(Settle)

LiveSpec == Spec /\ Fairness
------------------------------------------------------------------------------
(* Properties.                                                             *)

TypeOK ==
    /\ savedPosts \subseteq Post /\ wanted \subseteq Post
    /\ outbox \in Seq(Update)
    /\ postID \in Post
    /\ filled \in BOOLEAN /\ isSelected \in BOOLEAN
    /\ visiting \in [Post -> Nat] /\ reading \in Nat
    /\ mainQueue \in Seq(SUBSET Post)

\* What this phone takes for saved, its own waiting updates included, is what
\* the presses on it have asked for: no press is lost, applied out of order or
\* undone by an update sent twice, whatever connections and restarts do.
SavedAsPressed == SavedHere \ Refusable = wanted \ Refusable

\* The presses reach the server in the end, unless they are taken back.
PressesTakeEffect ==
    \A p \in Post \ Refusable :
        /\ p \in wanted ~> (p \in savedPosts \/ p \notin wanted)
        /\ p \notin wanted ~> (p \notin savedPosts \/ p \in wanted)
------------------------------------------------------------------------------
(* The strengthening behind the theorems of PostCell_proofs.               *)

\* Behind an update not committed nothing has been ruled on; a committed
\* update with no later committed one of its post is what the array says.
RulingStands ==
    \A k \in DOMAIN outbox :
        /\ outbox[k].status # "queued" =>
              \A j \in 1 .. k - 1 : outbox[j].status = "committed"
        /\ outbox[k].status = "rejected" => outbox[k].post \in Refusable
        /\ outbox[k].status = "committed" =>
              \/ outbox[k].post \in savedPosts <=> outbox[k].op = "arrayUnion"
              \/ \E j \in UpdatesOf(outbox[k].post) : j > k

Inv == TypeOK /\ RulingStands /\ SavedAsPressed
==============================================================================
