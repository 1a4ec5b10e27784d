# Arts Explorer: a verification project

Arts Explorer is an iOS app in which students publish paintings, films, music
and drama. It is a set of view controllers over Firebase (Auth, Firestore,
Storage): there is no server code, so everything that makes the system correct
is in how the screens, the Firestore client and the other users' phones
interleave. This directory holds TLA+ models of that code, TLC runs that check
them, and TLAPS proofs of what matters most.

Paths below are relative to `src/Arts_Explorer/Arts_Explorer/` for the app and
to `src/Arts_Explorer/Pods/FirebaseFirestore/Firestore/core/src/` (`core/`) for
the vendored client.

## 1. Inventory

### The parts, their state and their operations

| Part | State it keeps | Operations | Modelled by |
|---|---|---|---|
| Moderation centre: `ModerationPostViewController`, `ModerationCommentViewController` | `postsToShow` / `commentsToShow` | load and refresh (a query for `approved == false`, oldest first, one page), Approve (`updateData`, no completion), Deny (`delete`, completion removes a row) | `ModerationQueue`, promise in `ItemLifecycle` |
| Upload screen: `UploadViewController` | the form, `chosenCategories`, the buttons' `isSelected` | edit, choose or clear a picture, press a category, Upload (picture to Storage and, in parallel, the author's name from Firestore; then `setData`; then an alert and the form is cleared) | `Upload` |
| The two together, over the collection `posts` | | an author's write, resent, meets moderators' decisions | `ArtsExplorer` |
| Home screen: `HomeViewController` | `postsToShow`, `currentCategory` | load everything, load a category, menu choice, refresh | `Feed` |
| Side menu: `MenuListController` | `menuListItems` | list, report a choice, log out | its choices in `Feed`, its Log Out in `Session` |
| Post cell: `PostTableViewCell` (and `ModerationPostTableViewCell`) | `postID`, the bookmark's image and `isSelected`, avatar, picture | `configure`, `prepareForReuse`, `pressedSaveButton`, `fillSaveButtons` | `SaveButton`, `PostCell` |
| Saved posts: `SavedViewController` | `savedPosts`, `postsToShow` | load: one read of the user's document, then one read per id | `SavedFeed` |
| Own profile: `UserProfileViewController` | name, bio, avatar, their originals, `editingMode`, `postsToShow` | `loadInfo`, edit, save, cancel, change avatar; the list of posts | `Profile`, without the list |
| Other profiles: `OtherProfileViewController` | `postsToShow` | load, refresh | not modelled |
| Comments: `CommentsViewController` | `commentsToShow`, the text field | listen to approved comments, send | `Comments` |
| Session: `ViewController`, `SignUpViewController`, `LogInViewController` | `Auth.currentUser`, the root screen | sign up, log in, log out, launch | `Session` |
| Application shell: `AppDelegate`, `SceneDelegate`, `MainTabBarViewController` | none | launch | an action of each module that has a process |
| Firestore client (vendored) | a persistent queue of writes per user, a write pipeline, a stream, a cache, listeners | `getDocuments`, `getDocument`, `setData`, `updateData`, `delete`, `addSnapshotListener` | how it sends: `WriteStream`, promise in `PendingWrites`; what it answers: inside each module |
| Auth, Storage, SDWebImage, SideMenu, gRPC (vendored) | | | their outcomes are choices of the modules |

### How they interact

* Screens never call each other with data that matters here; they share the
  collections `posts`, `comments` and `users` on the server.
* Every completion block runs on the main queue, as do gestures. So two blocks
  never overlap, but anything may happen between the press that starts a
  request and the block that answers it.
* A phone has one Firestore client. Its writes are persistent and are sent one
  after the other. After a broken stream the unacknowledged ones are sent
  again; after a restart they are sent again without their completion blocks;
  those of a user who has signed out wait until that user is back. Until
  acknowledged they are laid over every document the client hands out
  (`core/local/local_documents_view.cc`).
* Reads do not survive a restart, and a read may be answered from the cache
  when the phone is offline (`core/core/query_listener.cc`).
* A resent write is applied again. For a `delete`, an `arrayUnion` or an
  `updateData` of one field that is harmless only if nobody else has written
  meanwhile; for the author's `setData` it is not.

### What is hard, and what makes each part correct

The list with file and line is `hazards` in `PROJECT.json`. In short:

* *Moderation.* A completion uses an index path captured at the press; two
  moderators and two screens race; approvals are sent without a completion.
  Correct when no document is approved or removed without a decision on that
  document, no decision is lost, and each takes effect.
* *Upload.* Three asynchronous steps over a form that stays editable. Correct
  when what is stored is what was on the screen at the press, and alerts tell
  the truth.
* *The whole.* The author's resent write and a moderator's decision race.
  Correct when, at worst, the moderators have to decide again.
* *Home.* Queries are not cancelled, so answers come in any order. Correct when
  the table is one page of the feed chosen last, of approved posts only.
* *Cells.* The bookmark's picture, its `isSelected`, the client's queue and the
  server's array are four copies of one fact; pictures and avatars arrive after
  the cell has been given away. Correct when a cell shows what belongs to its
  post, and the presses add up.
* *Saved posts.* One load is many reads, and loads overlap. Correct when each
  saved post has one row.
* *Profile.* What was edited is found by comparing the screen with what it said,
  whatever has changed it. Correct when screen and server agree between edits.
* *Comments.* A block clears the field long after the press. Correct when no
  text is lost, and the table shows what moderators have approved.
* *Session.* The account, its document, the signed-in user and the screen are
  changed by different blocks. Correct when an account has a document, and Home
  is only ever shown to who is signed in.
* *Firestore client.* Responses do not name the write they answer. Correct when
  nothing is lost, overtaken for good, or reported wrongly.

## 2. The modules

Conventions. An action is one main-queue block, one gesture, or one step of the
client or the server, guarded as the code is. The values a screen's handler
captures are fields of the record that stands for its completion block. Beside
some actions stands a second one whose comment begins with *Slip*: the mistake
that a plausible edit of the same lines would make. No specification uses a
slip; `PROJECT.json` ("mutants") names, for every property, the slip that breaks
it, so that a reader sees what the property guards against. A variable called
*history* in its comment is not in the code: it remembers what a property is
about.

Where the code does not keep a property in general, the property says exactly
when it does, and the history variable that says so (`disturbed`, `quiet`,
`idle`, `known`, `hurried`, `strayed`, `severed`, `resent`) is the
precise statement of the defect. Such a property does not catch the defect it
excepts; it says how far the defect reaches, and the notes in `PROJECT.json`
("hazards") say so hazard by hazard. Section 4 lists them.

### ItemLifecycle, ModerationQueue

`ItemLifecycle` is the promise of the moderation centre: a document is created
pending, once; approved or removed only when a moderator has asked for that;
never back to pending, and never seen again once removed.

`ModerationQueue` has any number of phones (`Device`), each with both screens
and one client.

| Model | Code |
|---|---|
| `toShow[d][c]` | `postsToShow`, `commentsToShow` |
| `asked`, `AnswerLoad`, `AnswerFromCache`, `FailLoad`, `ShowAnswer` | the query of `loadPendingPosts`/`loadPendingComments` and its completion |
| `PressApprove`, `PressDeny` | `callBackOnApproveButton`, `callBackOnDenyButton` in `cellForRowAt` |
| `RemoveRow`, `RemoveMissingRow`, `ReportFailedRemoval` | the completion of `delete()` |
| `outbox`, `CommitApprove` ... `Settle` | the client's queue of writes and the server |
| `Kill`, `Launch`, `Stop` | the process: what it loses, what is persistent |
| `approvals`, `denials` | history: which buttons were pressed on which document |

`Item` is a set of numbers: an item *is* its `time` field, so that `order(by:)`
is `<`. An online answer holds the server's oldest page, less what this phone
has decided; the client may add rows from its cache when that leaves room. What
a cache holds is over-approximated: any submitted document not decided on this
phone. The author's `setData` is one step, `Submit`; `ArtsExplorer` says what
that leaves out.

### Upload

One author's screen, its uploads and reads, the client's queue and the server.
`pressed[p]` is what the screen showed at the press; the post's categories are
read when the author's name arrives, as at `UploadViewController.swift:89`.
`chosenCategories` counts how often each category is in the array and
`isSelected` is a set, because the code keeps both; the order of the array is
abstracted, as nothing reads it. Storage is `media`. Title and description are
one text. `disturbed` holds the posts whose name was being read when the
categories changed.

### ArtsExplorer

`ModerationQueue` extended by an instance of `Upload` over the same documents:
`AuthorCommits` is `CommitPost` together with its effect on the shared
collection (pending, whatever it was before), and a moderator's removal takes
the post away from `posts`. `resent` holds the posts that were written and will
be written again because the phone missed the result. Until such a post is there
every step is one of `ModerationQueue` (`IsModerationQueue`); that is the
refinement that makes `Submit` a fair abstraction of an author's phone.

### Feed

The home screen, surrounded by the steps of `ItemLifecycle` (`World`). `shown`
records the feed a table answers. `ApprovedHere` lets the phone be a moderator's
own. `quiet` says that the last choice or pull, and everything then under way,
was for the feed chosen, and that not all of it has failed since. A failed query
alone does not end it, nor does choosing again what is under way; a pull for the
feed chosen begins it anew.

### WriteQueue, SaveButton, PostCell

`WriteQueue` holds what the screens' modules share of the client's queue: the
status of a write, which may be ruled on next (one of the first
`kMaxPendingWrites` is on its way; in order), what a broken stream does to it.
`SaveButton` is one cell passed from post to post, the reads each reuse starts
(`prepareForReuse`, `configure` and the author's document, whose answer starts
`fillSaveButtons`), the queue of updates and the array on the server. `wanted`
is what the presses add up to. `PostCell` adds the two image views: `sd_setImage`
clears a view and cancels its download (`UIView+WebCache.m`), while assigning
`image` cancels nothing. `idle` says that the cell had nothing under way when it
was given its post and was not pressed since.

### SavedFeed

The list of saved posts: `ShowList` clears the rows and starts one read per id,
`ShowPost` appends, `FailPost` alerts. `overlap` and `missed` are history.

### Profile

The user's document, the avatars in Storage, the client's queue, and the screen:
`ShowInfo` and `AvatarLoads` may run before, during or after an edit;
`SaveText`, `SavePicture` and `SaveNothing` are the three ways through
`editTapped`; what was `Changed` is found by comparing with `original`.
`SavePicture` sends the avatarID and starts the upload, and neither waits for the
other: `StoreAvatar`, `FailAvatar` and `Reopen` decide what the avatarID names.
`made` remembers for which picture it was drawn, `stored` is what Storage has,
and `PictureOf` is a picture only where both agree; a profile may name an avatar
that does not exist, from the beginning (`Init`) or by a failed upload. `known`
holds the parts of the screen that showed the profile as it was when they were
filled in, outside an edit, or that an edit has saved, less those that a refusal,
a failed upload, a picture that cannot be encoded, or an answer or avatar older
than the last edit has parted from it since.

### Comments

The listener (`Receive`, `Raise`, `ShowSnapshot`, `FailListen`) on the documents
as the listen stream has delivered them, with the phone's own writes laid over
them; sending (`SendCommentPressed`, `AnswerName`, `FailName`) and the queue.
Other phones and the moderators take the steps of `ItemLifecycle`. `typed` is
the text entered last, `hurried` whether that was while a name was being read.

### Session

Authentication's `accounts`, Firestore's `documents`, and the phone: who is
signed in, whose documents wait in the client, the screen, and the sign-ups and
log-ins under way, each with whether its screen is still there (`live`):
`goToHome` uses `view.window` and does nothing for a screen that is gone, while
Auth has changed the user all the same. `trapped` is set where a forced unwrap
of `currentUser` finds none. `severed` holds the users whose sign-up succeeded
without its block being told; `strayed` says that the present Home was reached,
or the last one left, otherwise than by a successful answer to its own screen.

### PendingWrites, WriteStream

`PendingWrites` states what every screen's module assumes of the client: each
user's writes reach the server in order, each at least once unless refused, and
are reported once, truthfully, while the process lives. `WriteStream` is how the
client does it: the persistent `mutationQueue` per user, `write_pipeline` of at
most `kMaxPendingWrites`, the states of the stream (starting, backing off, open,
ready, failed), the idle timer, requests and responses under way, a change of
user, a token's refresh, a restart. A response does not name its write:
`OnWriteStreamMutationResult` and `HandleWriteError` take the pipeline's front.
`KeepsPromise` is the refinement: the responses under way decide what has
become of the writes at the front (`StatusOf`).

Its server is an assumption, in four parts: it rules on the requests of a
stream in order and reads nothing after an error; it has finished with one
stream before it accepts the handshake of the next; it does not end a stream
with status OK while writes wait, so that OK means a stop or the idle timer, as
the comment at `stream.cc:294` has it and `remote_store.cc:453` asserts; and its
rules refuse a write each time it is sent or never (`Refused`), so that a
permanent error is about the write at the front. A write that is applied once
and refused when it is sent again (an update of a document that somebody has
deleted meanwhile) is outside `WriteStream`. It is inside the modules whose
screens can meet it: `RejectApprove`, and `Profile`'s `RefuseUpdate`, may follow
a commit whose result was lost.

## 3. The runs

| Run | Instance | What it shows |
|---|---|---|
| `moderation_one_phone` | one phone, two posts, one comment, three refusable writes, `MaxInFlight` 2 | `NoDecisionLost`, `RowsAreDistinct` over overlapping refreshes, presses, late completions, traps and restarts |
| `moderation_two_phones` | two phones, one post, fair | `Inv` is an invariant, every step is one of `ItemLifecycle` (`KeepsLifecycle`), every decision takes effect |
| `moderation_double_deny` | violation | `OnlyDecidedRowsLeave` fails |
| `upload_screen` | two posts, a text, a picture, one category, the second post refusable, fair | buttons and array agree; a post is what was pressed; its categories too unless touched meanwhile; alerts are true; a stored post never changes; every press is answered |
| `arts_explorer` | one author, one moderator, one post | until a write is resent the system is the moderation centre; no decision is ever invented (`DecidedOnlyByModerators`), decisions are lost to resent posts only, and an author told of success has a post |
| `feed_home` | two posts, one category, two requests in flight | only approved posts are shown; the table is one page of one feed; a choice, or a pull, made in quiet is what is shown unless all its queries fail |
| `post_cell` | two posts with pictures, one author with an avatar, one refusable, three in flight, fair | the presses add up and reach the server; no post with a picture shows another's; an idle cell shows what belongs to its post |
| `saved_list` | two posts, three reads in flight | nothing is skipped; duplicates come from overlapping loads only |
| `profile` | two names, two pictures of which one cannot be encoded, one avatar, two updates in flight, fair | between edits, what the screen has shown of the profile or saved to it is what the client's document and the pictures in Storage or on their way there say; in the end, what the server's document and Storage say; failed uploads, refusals, pictures that cannot be encoded and late answers excepted, from then on |
| `comments` | two comments, one of this phone's and refusable, two texts, a page of one, fair | the table is one moderated list; no text is lost; comments arrive; the table catches up |
| `session` | two users, one whose document may be refused, two requests, fair | accounts have documents; Home is its user's; only strays trap; documents arrive |
| `write_stream` | two users, four writes of which the second is refused, a pipeline of two, fair | the client's assertions hold; it implements `PendingWrites`; nothing is lost, overtaken for good or reported wrongly; every write is settled |

A type invariant is no run's property of its own. `ModerationQueue.Inv` has one
as its first conjunct, and so have `AssertionsHold`, `ProfileIsShown` and
`TableIsModerated`; elsewhere the theorem `...TypeCorrect` says more than a run
could. With a page of one the run `comments` cannot show that the rows are in
order; the theorem `TableIsModeratedAlways` does, for a page of any length.

Deadlock is not checked: a phone whose user does nothing, or a bound that is
reached with everything answered, is a state in which the app may rest.

### Bounds, and why they are enough

* `MaxInFlight` bounds a phone's unanswered requests, waiting writes and waiting
  blocks (which of them, each module says). Two suffice for the races of
  interest: a press between a request and its answer, two presses on one row,
  two answers in either order. Three are used for the cell, where each reuse
  starts two reads, and for the saved posts (`MaxReads`), where a load starts a
  read per post.
  In `Comments` it bounds the lists waiting to be shown, of which one is enough
  to be overtaken by the next. `Upload` needs none: each post is pressed once.
* The limits of the queries (15 and 20 in the code) are 1 or 2, so that a full
  page happens; the set of documents is at least as large. `kMaxPendingWrites`
  (10) is 2, with four writes, so that the pipeline is full with more waiting.
* One post and two phones is the smallest instance with conflicting decisions;
  decisions on different documents meet only inside a phone, which is the
  one-phone instance. The comment makes the two screens share a queue. In
  `ArtsExplorer` one post is enough: a resent write touches its own document.
* Two of a kind is what the other races need: a cell has an old and a new post,
  a session an old and a new user, a profile a value before and after. Of
  avatars there is one, which the profile has from the beginning or an edit
  draws; the theorem has any number, and with two, and one picture, both
  properties hold as well.
* The picture of `upload_screen` can be encoded; one that cannot takes the way
  of an upload that fails (`StoreMedia`, `FailMedia`), as far as the post goes.
  `Profile` has both kinds, because there the two ways differ.
* What is proved (section 5) needs none of these bounds.

### Fairness

Every liveness property is checked of a specification with fairness, and that
fairness is of the client and the server, never of users, of the success of an
upload, or of the order of answers.

* The write stream is reopened with backoff for as long as a write waits
  (`RemoteStore::StartWriteStream`, `Stream::BackoffAndTryRestarting`), so a
  write that can be sent again and again is ruled on (`SF` on the server's
  ruling), and a result that is lost again and again arrives in the end (`SF` on
  `Settle`). Strong fairness is needed as losing a result or being killed
  disables these steps again and again. `write_stream` has the finer version:
  `WF` that the backoff elapses, `SF` on opening, handshake, ruling and response,
  each of which a broken stream or a restart can undo.
* A closed app is opened again (`WF` on `Launch`, `ModerationQueue` only).
* In `Upload`, a `getDocument` is answered or fails (`WF`).
* In `Profile`, an upload ends, stored or with an error (`WF`): FirebaseStorage
  retries for `maxUploadRetryTime`, ten minutes (`FIRStorage.m:165`,
  `FIRStorageUploadTask.m:98`), and then gives up.
* In `Comments`, the listen stream delivers what has changed (`SF` on `Receive`,
  which a restart disables), and lists are raised and shown (`WF`: both are
  steps of queues that run until they are empty).
* In `Session`, a waiting document of the user signed in is ruled on (`SF`: the
  user may log out before).
* In `moderation_two_phones` the rules refuse nothing: a refused decision has no
  effect to wait for.

## 4. Where the code and its own words differ

`moderation_double_deny` is a run, with the sentence quoted in `PROJECT.json`:
Deny pressed twice before the first completion takes a second row off the
screen, of a post nobody decided on; with one row left it indexes past the end
instead and the app traps (`RemoveMissingRow`, part of every moderation run).

The other disagreements are part of the passing runs, as the cases their
properties except:

| Exception | What the code does |
|---|---|
| `disturbed` (`CategoriesAsPressed`) | `chosenCategories` is read one round trip after it was validated (`UploadViewController.swift:89`): a post may be written with other categories than chosen, or none |
| `media[p] = Nothing` (`PostedAsPressed`) | `mediaID` is set when a picture was chosen, stored or not (`UploadViewController.swift:74`) |
| `resent` (`IsModerationQueue`, `DecisionsSurviveAuthors`) | a `setData` sent again makes an approved post pending, and brings a removed one back |
| `quiet` (`QuietChoiceIsShown`) | the answer to an earlier choice replaces a later one's (`HomeViewController.swift:114`); choosing Home does not reset `currentCategory` (`:173`), so that a refresh leaves it; when all queries of a choice fail, the table stays the earlier choice's |
| `idle` (`IdleCellShowsItsPost`) | a late author puts the wrong avatar into a reused cell; a post without a picture shows the one still being downloaded for the post before; `fillSaveButtons` may show a state older than the last press |
| `PressesTakeEffect` is about `wanted`, not about the button | `fillSaveButtons` sets the image and not `isSelected` (`PostTableViewCell.swift:143`), on which the next press decides: a press on a filled bookmark may save again |
| `overlap` (`NoMoreRowsThanReads`) | overlapping loads list a saved post twice |
| `known` (`ProfileIsShown`, `SavesTakeEffect`) | the avatarID is sent whether or not its upload succeeds (`UserProfileViewController.swift:202`-`214`): after one that fails, or is killed with the app, the profile names a picture that Storage does not have, and shows none when it is opened again; an answer or an avatar that arrives during an edit replaces what was entered, and counts as an edit; one that arrives after it replaces what was saved; a picture that cannot be encoded drops the texts changed with it; a refused update is not seen |
| `hurried` (`NoTextIsLost`) | text typed while the author's name is read is cleared unsent (`CommentsViewController.swift:113`) |
| `severed` (`AccountsHaveDocuments`) | an account whose sign-up was cut off has no document, and no later log-in writes one |
| `strayed` (`HomeIsOfUser`, `OnlyStraysTrap`) | a sign-up that fails goes to Home all the same (`SignUpViewController.swift:80`); the late answer of an abandoned sign-up changes the user behind it; a cell's author found after logging out unwraps nobody |

One more follows from the models without a property: a refresh of the moderation
list may show "no posts currently pending" while the approvals that fill the
server's first page are still waiting to be sent.

## 5. What is proved

Every safety property that a passing run checks is a theorem: it holds for every
value of the constants that meets the modules' assumptions, and so of queues and
lists of any length. Each proof module extends what it is about. Two of them are
about two components each, which is why `SavedFeed` and `Session` call their
specifications `SavedSpec` and `SessionSpec`. `QueueLemmas` holds what several
need: what ruling, resending, appending and settling do to a queue's entries,
what is left when one is taken out, and that a nonempty set of places in a
sequence has a last (`LastPlace`).

### ArtsExplorer_proofs: the moderation centre, alone and with authors

For every set of phones, posts and comments (`ItemAssumption`: items are
numbers, posts and comments disjoint; `LimitAssumption`: limits are positive):

* `TypeCorrect`: `Spec => []TypeOK`.
* `Invariance`: `Spec => []Inv`. `DecidedOnlyByModerators` is not inductive: it
  says nothing of a write still waiting on a phone, and `NoDecisionLost` says
  nothing of one that was ruled on and whose result was lost. `Inv` adds that
  rows and answers list submitted documents only (`RowsAreKnown`,
  `AnswersAreKnown`), so that a press decides on a document that exists; that a
  waiting write carries a decision some moderator took (`IsDecision`);
  and that what the server ruled on a write still in the queue still stands,
  whatever the other phones have written since (`RulingStands`).
* `OnlyModeratorsDecide`, `DecisionsSurvive`: the two invariants, from `Inv`.
* `DistinctRows`: with `AnswersAreDistinct` as the strengthening.
* `Refinement`: `Spec => Lifecycle!Spec`. `StepSimulation` maps a press to a
  request, a commit to `Approve` or `Remove` or, when another phone or an
  earlier sending came first, to a stutter; everything else stutters.

The argument goes by what a step can do to one variable and not by action:
`StepKinds` sorts the disjuncts of `Next`, `DocsOnlyAdvance`, `RowsChange`,
`MainQueueChange`, `OutboxChange` and `HistoryChange` say how each variable may
change, and one lemma per conjunct of `Inv` cites them.

For the system with its authors (also `AuthorAssumption`, the upload screen's):

* `SystemInvariance`: `SystemSpec => []SystemInv`. `Inv` itself fails there: a
  post sent again is pending again, and what the server had ruled on a
  moderator's write stands no more. What of it survives is `CentreInv`, with
  `WritesAreDecisions` in place of `WritesAreSound`.
  The other half is the upload screen's `PressInv` and two invariants that link
  the modules: a post whose name is still being read is neither written nor
  about to be (`PostsAreWritten`), and a write that waits is the first of its
  post unless the post is in `resent` (`WritesAreFirst`). A moderator's step
  keeps the author's half because it leaves `saving` and `pressed` alone and
  removes from `posts` what it removes from `docs`; an author's step keeps the
  moderators' half because all it does to `docs` is to write a pressed post.
* `ModeratorsDecideInSystem`, `AuthorsUndoNoDecision`, `SuccessMeansPosted`:
  three conjuncts of `SystemInv`.
* `SystemIsModerationQueue`: `SystemSpec => IsModerationQueue`. A commit of a
  post outside `resent` finds the document absent (`WritesAreFirst`), and so is
  a `Submit`; every other step of the author leaves the moderators' variables.

### Upload_proofs

For every set of posts, texts, pictures and categories (`UploadAssumption`), a
queue of any length: `UploadTypeCorrect`, `PostsAreAsPressed`,
`CategoriesAreAsPressed`, `AlertsTellTheTruth`, `PostsDoNotChange`,
`ButtonsShowCategories`. `PostedAsPressed` speaks only of the server; `PressInv`
says of everything a press has set going - the read, the upload, the waiting
write - that it is about that press. `OnceInv` is what makes alerts true: a post
has one write, a post still being read has none, a write with a result was ruled
on that way, and a failure is final. The buttons need only themselves: filtering
the array is what `changeButton` does to the counts.

### Feed_proofs: the home screen and the saved posts

* Home (`PostAssumption`, `CategoryAssumption`, `PageAssumption`):
  `FeedTypeCorrect`; `FeedIsModerated`, where `ModeratedInv` says of the cache
  and of every waiting block what the property says of the table;
  `FeedIsOnePage` (`PagesInv`, of every waiting block); `QuietChoicePrevails`
  (`QuietInv`: after a quiet choice everything under way is for that feed), for any
  number of queries, some of which fail.
* Saved posts, for every set of posts that can be saved: `SavedTypeCorrect`,
  `NothingSkipped`, `DuplicatesAreBounded`; the two properties are inductive
  once types are known. `AppendAddsOneRow` counts rows.

### PostCell_proofs

For every set of posts and of refused ones:

* `SaveTypeCorrect` and `PressesAreKept` of `SaveButton`: the strengthening is
  `RulingStands`: only the oldest update has been ruled on, and the array says
  what it was ruled until it leaves the queue. `AppendDecides`,
  `StatusIsIrrelevant` and `TailAgrees` say what a press, a ruling or a resend,
  and a result do to the set the client takes for saved.
* `CellIsAButton`: `CellSpec => Spec`, the whole cell refines its bookmark; so
  `CellKeepsPresses` follows.
* `PictureIsRight` and `IdleCellIsRight`, from `CellInv`: `OnlyItsOwn` says that
  in an idle cell every read, block and download under way is its own post's.

### Comments_proofs

For every set of comments and texts and a page of any length
(`CommentAssumption`):

* `TextsAreKept`. `TextInv` adds that the field holds what was typed or nothing,
  that a press whose name is being read is of that text unless the author
  hurried, and that waiting writes say what was pressed.
* `TableIsModeratedAlways`. The table is filled by blocks that were handed their
  list before later decisions, from documents that the listen stream delivered
  earlier still; so `TableInv` says of the lists that wait what the property
  says of the table, and of the server and of what was delivered that nothing is
  approved without a moderator's approval. Approvals are only ever added, so a
  list remains moderated while it waits. The lists a query may deliver (`Lists`)
  are characterised, not computed: the newest visible comments, in descending
  order.

### Account_proofs: the own profile and the session

* `ProfileIsShownAlways`, for every choice of names, biographies, pictures and
  of those that can be encoded (`ProfileAssumption`), and any number of updates
  waiting. The property speaks of the screen between edits, of the document
  as the client shows it (`Held`: in each field the last waiting change prevails,
  and the server's value where there is none), and of the pictures in Storage or
  on their way there (`Avatars`), which only a failed upload or a kill takes from. `ProfileInv` adds what it says
  during an edit, of the originals the cross would bring back (`KnownIsShown`);
  that an avatar is uploaded once its picture is known (`AvatarsAreMade`); and that the updates are ruled on in order and the last committed one that changes
  a field is what the server says of it (`CommitsShow`). Without this last an
  update sent twice might undo a later one when the results arrive; with it
  committing, resending and settling an update leave `Held` as it was, and a
  refusal changes only the fields of the refused update (`HeldSettled`). `HeldIsOverlay` and the lemmas after it are about that
  overlay, for queues of any length.
* The session, for every set of users and number of requests (`UserAssumption`):
  `SessionTypeCorrect`; `DocumentsAreKept`, inductive with types;
  `HomeShowsItsUser` and `TrapsAreStrays` from `HomeInv`, which adds that somebody
  is signed in while a cell's author is being read.

### WriteStream_proofs: the Firestore client

For every set of users, number of writes, rules, and length of the pipeline up
to the code's `kMaxPendingWrites` (`WritesAssumption`):

* `ClientAssertionsHold`. `AssertionsHold` says that an acknowledgement finds its
  write at the front. `StreamInv` says why: the pipeline is exactly the first
  writes of the user's queue (`PipelineInv`), ids are given in ascending order
  (`NumbersInv`), and when the stream is ready the responses under way and the
  requests not yet answered are, in this order, about the pipeline's writes, an
  error being the last response (`ChannelInv`).
* `PromiseKept`: `Spec => Pending!Spec`, the refinement of `PendingWrites`. The
  responses under way decide the status of the writes at the front (`Queue`),
  so a server's response is `Pending`'s commit or refusal, a result or an error
  that reaches the client its settling, and a broken stream, a restart or a
  change of user its sending again. Everything else stutters.
* `LastWriteStandsAlways`, `ReportsAreTrueAlways`: proved of `PendingWrites`, from
  an invariant on how a queue, what was ever written and the stored document
  agree (`Fares`), and carried to the client by `PromiseKept`.

### Only model-checked

* Liveness, which is out of the prover's reach: `DenialsTakeEffect`,
  `ApprovalsTakeEffect`, `EveryPressIsAnswered`, `PressesTakeEffect`,
  `SavesTakeEffect`, `CommentsArrive`, `TableCatchesUp`, `DocumentsArrive`,
  `WritesAreSettled`.
* The screens' own queues (`WriteQueue`) are not proved to be instances of
  `PendingWrites`: each module states the same promise for its own kind of
  write, with the user and the completion blocks left out.
* `OnlyDecidedRowsLeave` is what the code violates (section 4).

## 6. What is not modelled

* Most of the repository: of its 658 000 lines of source about 655 000 are
  vendored pods (BoringSSL, gRPC, abseil, leveldb, Firebase, SDWebImage, tables
  of certificates). They are libraries with specifications of their own, and the
  app reaches them through a few calls. Modelled of them is what the app's
  correctness hangs on: how Firestore sends writes (`remote_store.cc`,
  `stream.cc`, `write_stream.cc`, `sync_engine.cc`, `local_store.cc`), how it
  answers reads, and how SDWebImage replaces a view's image. Targets, limbo
  documents, garbage collection, persistence formats and transactions are not
  used in a way that the screens could tell apart.
* The lists of posts on the two profiles: a refresh appends every row again. No
  interleaving is needed for that, and none makes it worse.
* Layout, wording, colours and fonts; alerts, except where a property is about
  them (`told` in `Upload` and `Comments`). An alert is not modal in the models:
  a user is not assumed to dismiss it before something else happens.
* A phone shows one instance of each screen; in `Comments` the listener of an
  earlier visit fills a table nobody sees. What the ids given to the next screen
  at a segue are used for is left to that screen.
* The screens' modules have one user per phone; users changing on a phone are
  in `Session` and `WriteStream`. Two phones of one user (`SaveButton`,
  `Profile`) are not modelled.
* The flag "mod" that adds an item to the side menu: read once, trusted by the
  phone; what the server's rules make of it is not in the repository.

## 7. Plan

1. `Feed` with two phones of one moderator, and `SaveButton` with two phones of
   one user: what the other phone writes is not in this one's queue, and the
   invariants that relate queue, server and screen have to say so.
2. That the queue of `SaveButton`, as that of the other screens, implements
   `PendingWrites`: the statuses agree, the numbering of writes does not.
3. The leads-to properties rest on facts that are safety: that a waiting write
   is never refused under the runs' rules, that the stream is started whenever a
   write waits (part of `StreamInv`). Stating each as an invariant of its own
   would leave fairness as all that is not proved.
