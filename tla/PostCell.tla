------------------------------- MODULE PostCell -------------------------------
(***************************************************************************)
(* The whole cell of a post (PostTableViewCell): the bookmark of           *)
(* SaveButton, and the post's picture and its author's avatar, which are   *)
(* downloaded while the table gives the cell to other posts.               *)
(*                                                                         *)
(* An image view downloads one picture at a time: asking for a new one     *)
(* cancels the download under way and clears the view.  Clearing the view  *)
(* by hand, for a post without a picture or an author without an avatar,   *)
(* cancels nothing.  ModerationPostTableViewCell has the same code.        *)
(***************************************************************************)
EXTENDS SaveButton

CONSTANTS
    HasPicture,         \* the posts with a picture
    HasAvatar,          \* the posts whose author has an avatar
    Nothing             \* no picture, or the placeholder

ASSUME CellAssumption ==
    HasPicture \subseteq Post /\ HasAvatar \subseteq Post /\ Nothing \notin Post

VARIABLES
    picture,    \* picture.shown: whose picture is on screen;
                \* picture.loading: whose is being downloaded
    avatar,     \* the same of the authors' avatars
    idle,       \* history: the cell had nothing under way when it was given
                \* its post, and no press was made on it since
    met,        \* history: an idle cell's author has been found
    told        \* history: an idle cell has shown what is saved

history == <<idle, met, told>>
cellVars == <<vars, picture, avatar, history>>

View == [shown : Post \union {Nothing}, loading : Post \union {Nothing}]

Empty == [shown |-> Nothing, loading |-> Nothing]

\* sd_setImage: the view is cleared, a download under way is cancelled.
Download(p) == [shown |-> Nothing, loading |-> p]

\* Slip: the view is left as it is.
Keep(view) == view

\* Setting the view's image leaves a download under way.
Clear(view) == [view EXCEPT !.shown = Nothing]

CellInit ==
    /\ Init
    /\ picture = IF postID \in HasPicture THEN Download(postID) ELSE Empty
    /\ avatar = Empty
    /\ idle = TRUE /\ met = FALSE /\ told = FALSE
------------------------------------------------------------------------------
\* Nothing of the post the cell held before can still arrive.
IsIdle ==
    /\ \A p \in Post : visiting[p] = 0
    /\ reading = 0 /\ mainQueue = <<>>
    /\ picture.loading = Nothing /\ avatar.loading = Nothing

\* Slip: the old picture stays until the new one arrives, or fails to.
ReuseCellShowingOld(p) ==
    /\ Reuse(p)
    /\ picture' = IF p \in HasPicture THEN [picture EXCEPT !.loading = p]
                  ELSE Clear(picture)
    /\ idle' = IsIdle /\ met' = FALSE /\ told' = FALSE
    /\ UNCHANGED avatar

ReuseCell(p) ==
    /\ Reuse(p)
    /\ picture' = IF p \in HasPicture THEN Download(p) ELSE Clear(picture)
    /\ idle' = IsIdle /\ met' = FALSE /\ told' = FALSE
    /\ UNCHANGED avatar

ReopenCell(p) ==
    /\ Reopen(p)
    /\ picture' = IF p \in HasPicture THEN Download(p) ELSE Empty
    /\ avatar' = Empty
    /\ idle' = TRUE /\ met' = FALSE /\ told' = FALSE

ShowAuthorCell(p) ==
    /\ ShowAuthor(p)
    /\ avatar' = IF p \in HasAvatar THEN Download(p) ELSE Clear(avatar)
    /\ met' = idle
    /\ UNCHANGED <<picture, idle, told>>

\* The avatar of the author before stays.
FailAuthorCell(p) ==
    /\ FailAuthor(p)
    /\ UNCHANGED <<picture, avatar, history>>

PressCell ==
    /\ PressSave \/ PressUnsave
    /\ idle' = FALSE /\ met' = FALSE /\ told' = FALSE
    /\ UNCHANGED <<picture, avatar>>

ShowSavedCell ==
    /\ ShowSaved
    /\ told' = idle
    /\ UNCHANGED <<picture, avatar, idle, met>>

\* What a view makes of a finished download, and of a failed one.
Arrived(view) == [shown |-> view.loading, loading |-> Nothing]
Failed(view) == [view EXCEPT !.loading = Nothing]

PictureLoads ==
    /\ picture.loading # Nothing
    /\ picture' \in {Arrived(picture), Failed(picture)}
    /\ UNCHANGED <<vars, avatar, history>>

AvatarLoads ==
    /\ avatar.loading # Nothing
    /\ avatar' \in {Arrived(avatar), Failed(avatar)}
    /\ UNCHANGED <<vars, picture, history>>

\* The client and the server know nothing of the pictures.
Behind ==
    /\ \/ AnswerSaved
       \/ FailSaved
       \/ \E k \in DOMAIN outbox : CommitUpdate(k) \/ RefuseUpdate(k)
       \/ LoseResult
       \/ Settle
    /\ UNCHANGED <<picture, avatar, history>>

CellNext ==
    \/ \E p \in Post :
          ReuseCell(p) \/ ReopenCell(p) \/ ShowAuthorCell(p) \/ FailAuthorCell(p)
    \/ PressCell
    \/ ShowSavedCell
    \/ PictureLoads
    \/ AvatarLoads
    \/ Behind

CellSpec == CellInit /\ [][CellNext]_cellVars

LiveCellSpec == CellSpec /\ Fairness
------------------------------------------------------------------------------
(* Properties.                                                             *)

CellTypeOK ==
    /\ TypeOK
    /\ picture \in View /\ avatar \in View
    /\ idle \in BOOLEAN /\ met \in BOOLEAN /\ told \in BOOLEAN

\* A post with a picture never shows the picture of another post, however
\* fast the table is scrolled and however late the downloads end.
PictureIsOfPost ==
    postID \in HasPicture => picture.shown \in {Nothing, postID}

\* A cell given its post with nothing under way, and not pressed since, shows
\* no picture of another post, the avatar of no other author once its own is
\* found, and the bookmark as the presses made so far left it once it is read.
\* (With something under way, all three can go wrong.)
IdleCellShowsItsPost ==
    /\ idle => picture.shown \in {Nothing, postID}
    /\ met => avatar.shown \in {Nothing, postID}
    /\ told /\ postID \notin Refusable => (filled <=> postID \in wanted)
------------------------------------------------------------------------------
(* The strengthening behind the theorems of PostCell_proofs.               *)

Within(view, p) == view.shown \in {Nothing, p} /\ view.loading \in {Nothing, p}

\* In an idle cell everything under way is its own post's.
OnlyItsOwn ==
    /\ postID \in HasPicture => Within(picture, postID)
    /\ met => idle /\ avatar.shown \in {Nothing, postID}
    /\ told => idle
    /\ idle =>
          /\ Within(picture, postID)
          /\ avatar.loading \in {Nothing, postID}
          /\ \A p \in Post : visiting[p] > 0 => p = postID
          /\ \A k \in DOMAIN mainQueue : postID \notin Refusable =>
                (postID \in mainQueue[k] <=> postID \in wanted)

CellInv == Inv /\ CellTypeOK /\ OnlyItsOwn /\ IdleCellShowsItsPost
==============================================================================
