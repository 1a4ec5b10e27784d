----------------------------- MODULE ArtsExplorer -----------------------------
(***************************************************************************)
(* A post's way through the whole system: written on the author's phone    *)
(* (Upload), decided in the moderation centre (ModerationQueue), over one  *)
(* Firestore collection "posts".                                           *)
(*                                                                         *)
(* The author's write is a setData with approved = false.  It is sent      *)
(* again when the author's phone has missed its result, and then replaces  *)
(* whatever has become of the post: an approved post is pending again, a   *)
(* removed one is back.  Comments are left out: they take the same way     *)
(* through the moderation centre, and nothing else writes them.            *)
(***************************************************************************)
EXTENDS ModerationQueue

CONSTANTS Text, Blank, Picture, Placeholder, Encodable, Category, Nothing

VARIABLES running, form, isSelected, chosenCategories, pressed, uploading,
          reading, saving, posts, media, told, disturbed,
          resent        \* history: posts written once and sent again

\* No rule of the server's refuses an author.
Author == INSTANCE Upload WITH Refusable <- {}

ASSUME AuthorAssumption == Author!UploadAssumption

phoneVars == <<running, form, isSelected, chosenCategories, pressed, uploading,
               reading, saving, media, told, disturbed, resent>>
authorVars == <<phoneVars, posts>>
allVars == <<vars, authorVars>>

SystemInit == Init /\ Author!Init /\ resent = {}

\* The posts the server has written without the author's phone knowing.
Unconfirmed == {saving[k].post : k \in {j \in DOMAIN saving :
                                           saving[j].status = "committed"}}

\* Whatever happens on the author's phone but a commit; the writes waiting
\* there may be sent again.
AuthorSteps ==
    /\ Author!OnPhone
    /\ resent' = IF Author!LoseResult \/ Author!Kill THEN resent \union Unconfirmed
                 ELSE resent
    /\ UNCHANGED vars

\* Slip: a post counts as approved as soon as it is there.
AuthorCommitsApproved ==
    \E k \in DOMAIN saving :
        /\ Author!CommitPost(k)
        /\ docs' = [docs EXCEPT ![saving[k].post] = "approved"]
        /\ UNCHANGED <<screenVars, clientVars, history, resent>>

AuthorCommits ==
    \E k \in DOMAIN saving :
        /\ Author!CommitPost(k)
        /\ docs' = [docs EXCEPT ![saving[k].post] = "pending"]
        /\ UNCHANGED <<screenVars, clientVars, history, resent>>

\* A moderator's delete takes the author's document off the server.
ModeratorRemoves(d) ==
    \E k \in DOMAIN outbox[d] :
        /\ CommitDelete(d, k)
        /\ posts' = [p \in Post |->
                        IF p = outbox[d][k].item THEN Nothing ELSE posts[p]]
        /\ UNCHANGED phoneVars

\* updateData changes "approved" and nothing else.
ModeratorSteps(d) ==
    /\ \/ PostScreen(d)
       \/ Kill(d)
       \/ Launch(d)
       \/ AnswerLoad(d, "posts") \/ AnswerFromCache(d, "posts")
       \/ FailLoad(d, "posts")
       \/ \E k \in DOMAIN outbox[d] :
             CommitApprove(d, k) \/ RejectApprove(d, k) \/ Refuse(d, k)
       \/ LoseResult(d)
       \/ Settle(d)
    /\ UNCHANGED authorVars

SystemNext ==
    \/ AuthorSteps
    \/ AuthorCommits
    \/ \E d \in Device : ModeratorRemoves(d) \/ ModeratorSteps(d)

SystemSpec == SystemInit /\ [][SystemNext]_allVars
------------------------------------------------------------------------------
(* Properties.                                                             *)

\* As long as no author's write has been sent twice, the system is the
\* moderation centre: to the moderators, an author's phone with its form, its
\* uploads and its restarts does nothing but submit a post, once.
IsModerationQueue == [][resent' = {} => [Next]_vars]_allVars

\* A decision of a moderator is lost only by the author's phone sending again
\* what the server had already written; the author's other restarts, broken
\* streams and presses lose none.
DecisionsSurviveAuthors == \A p \in Post \ resent : DecisionHolds(p)

\* An author told "Post added successfully." has a post waiting or approved,
\* as it was when pressing Upload, unless a moderator has denied it.
SuccessIsPosted ==
    \A p \in Post :
        /\ posts[p] # Nothing <=> docs[p] \in {"pending", "approved"}
        /\ told[p] = "success" /\ p \notin denials => posts[p] # Nothing
        /\ docs[p] = "approved" => posts[p].text = pressed[p].text
------------------------------------------------------------------------------
(* The inductive invariant behind the theorems of ArtsExplorer_proofs.     *)

\* What holds of the moderation centre although an author's write may undo
\* what the server ruled on a moderator's.
CentreInv ==
    /\ TypeOK
    /\ DecisionsAreKnown
    /\ RowsAreKnown
    /\ AnswersAreKnown
    /\ WritesAreDecisions
    /\ DecidedOnlyByModerators

\* A post the author has not pressed, or whose name is still being read, is
\* neither written nor about to be.
PostsAreWritten ==
    \A p \in Post : pressed[p] = Nothing \/ p \in reading =>
        docs[p] = "absent" /\ ~ Author!Waits(p)

\* A write that waits is the first of its post, unless it is sent again; the
\* server refused none, and what it wrote only a moderator has removed.
WritesAreFirst ==
    \A k \in DOMAIN saving :
        LET w == saving[k] IN
        /\ w.status # "rejected"
        /\ w.status = "queued" => docs[w.post] = "absent" \/ w.post \in resent
        /\ w.status = "committed" => posts[w.post] # Nothing \/ w.post \in denials

\* A post goes to the server once for each press, unless it is sent again.
AuthorInv ==
    /\ Author!TypeOK
    /\ Author!PressInv
    /\ Author!WritesAreDistinct
    /\ resent \subseteq Post
    /\ PostsAreWritten
    /\ WritesAreFirst

SystemInv == CentreInv /\ AuthorInv /\ DecisionsSurviveAuthors /\ SuccessIsPosted
==============================================================================
