-------------------------------- MODULE Upload --------------------------------
(***************************************************************************)
(* The upload screen (UploadViewController) of one signed-in author: a     *)
(* form, and what a press on Upload sets going.                            *)
(*                                                                         *)
(* A press uploads the picture to Storage and asks Firestore for the       *)
(* author's name, at the same time; the answer to the latter queues the    *)
(* post itself, and the completion of that write clears the form.  The     *)
(* form stays editable, and the button pressable, all along: each block    *)
(* below runs on the main queue between two gestures of the author.        *)
(*                                                                         *)
(* title and description are one text, trimmed.  Of the array of chosen     *)
(* categories it is kept how often each is in it, and not their order.      *)
(***************************************************************************)
EXTENDS WriteQueue

CONSTANTS
    Post,               \* the UUIDs the screen may draw
    Text,               \* what title and description can say
    Blank,              \* nothing but whitespace
    Picture,            \* pictures on the device
    Placeholder,        \* the image "placeholder-post": no picture chosen
    Encodable,          \* the pictures jpegData can encode
    Category,           \* art, drama, film, music
    Refusable,          \* the posts the server's rules refuse
    Nothing             \* no such document, no such object

Categories == [Category -> Nat]
NoCategory == [c \in Category |-> 0]

Draft == [text : Text \union {Blank}, picture : Picture \union {Placeholder}]
Document == [text : Text \union {Blank}, mediaID : Post \union {Nothing},
             categories : Categories]
Pressed == [text : Text \union {Blank},
            picture : Picture \union {Placeholder}, categories : Categories]

ASSUME UploadAssumption ==
    /\ Blank \notin Text /\ Placeholder \notin Picture
    /\ Encodable \subseteq Picture /\ Refusable \subseteq Post
    /\ Nothing \notin Post \union Picture
    /\ Nothing \notin Document /\ Nothing \notin Pressed

VARIABLES
    running,    \* is the app running?
    form,       \* text and picture on the screen
    isSelected, \* the category buttons that look and are selected
    chosenCategories,   \* how often each category is in the array
    pressed,    \* pressed[p]: what the screen showed when p was pressed
    uploading,  \* posts whose putData is under way
    reading,    \* posts whose getDocument for opName is not yet answered
    saving,     \* the client's queue of setData writes, first in, first out
    posts,      \* the server: posts[p]
    media,      \* Storage: the picture at posts/p
    told,       \* told[p]: the last alert about p
    disturbed   \* history: posts whose name was being read when the
                \* categories on the screen changed

formVars == <<form, isSelected, chosenCategories>>
serverVars == <<posts, media>>
blockVars == <<uploading, reading, told>>
vars == <<running, formVars, pressed, blockVars, saving, serverVars, disturbed>>

Write == [post : Post, document : Document, callback : BOOLEAN,
          status : Status]

EmptyDraft == [text |-> Blank, picture |-> Placeholder]

Init ==
    /\ running = TRUE
    /\ form = EmptyDraft
    /\ isSelected = {}
    /\ chosenCategories = NoCategory
    /\ pressed = [p \in Post |-> Nothing]
    /\ uploading = {} /\ reading = {} /\ saving = <<>>
    /\ posts = [p \in Post |-> Nothing]
    /\ media = [p \in Post |-> Nothing]
    /\ told = [p \in Post |-> "nothing"]
    /\ disturbed = {}
------------------------------------------------------------------------------
(* The form.                                                               *)

EditText(t) ==
    /\ running
    /\ form' = [form EXCEPT !.text = t]
    /\ UNCHANGED <<running, isSelected, chosenCategories, pressed, blockVars,
                   saving, serverVars, disturbed>>

\* The image picker's result, or pressedClearMedia with the placeholder.
SetPicture(pic) ==
    /\ running
    /\ form' = [form EXCEPT !.picture = pic]
    /\ UNCHANGED <<running, isSelected, chosenCategories, pressed, blockVars,
                   saving, serverVars, disturbed>>

\* Slip: a button that goes off puts its category in the array once more.
ChangeButtonOneWay(c) ==
    /\ running
    /\ isSelected' = IF c \in isSelected THEN isSelected \ {c}
                     ELSE isSelected \union {c}
    /\ chosenCategories' = [chosenCategories EXCEPT ![c] = @ + 1]
    /\ disturbed' = disturbed \union reading
    /\ UNCHANGED <<running, form, pressed, blockVars, saving, serverVars>>

\* A selected button takes every occurrence of its category off the array.
ChangeButton(c) ==
    /\ running
    /\ \/ /\ c \in isSelected
          /\ isSelected' = isSelected \ {c}
          /\ chosenCategories' = [chosenCategories EXCEPT ![c] = 0]
       \/ /\ c \notin isSelected
          /\ isSelected' = isSelected \union {c}
          /\ chosenCategories' = [chosenCategories EXCEPT ![c] = @ + 1]
    /\ disturbed' = disturbed \union reading
    /\ UNCHANGED <<running, form, pressed, blockVars, saving, serverVars>>

\* validateFields: something to show, and at least one category.
Valid ==
    /\ form # EmptyDraft
    /\ chosenCategories # NoCategory
------------------------------------------------------------------------------
(* Sending.                                                                *)

OnScreen == [text |-> form.text, picture |-> form.picture,
             categories |-> chosenCategories]

\* mediaID is the post's id as soon as a picture was chosen, whatever becomes
\* of its upload; a picture that cannot be encoded is not uploaded at all.
UploadPressed(p) ==
    /\ running
    /\ Valid
    /\ pressed[p] = Nothing
    /\ pressed' = [pressed EXCEPT ![p] = OnScreen]
    /\ uploading' = IF form.picture \in Encodable THEN uploading \union {p}
                    ELSE uploading
    /\ reading' = reading \union {p}
    /\ UNCHANGED <<running, formVars, saving, serverVars, told, disturbed>>

StoreMedia(p) ==
    /\ running
    /\ p \in uploading
    /\ media' = [media EXCEPT ![p] = pressed[p].picture]
    /\ uploading' = uploading \ {p}
    /\ UNCHANGED <<running, formVars, pressed, reading, saving, posts, told,
                   disturbed>>

\* "Error uploading image": an alert; the post goes on without its picture.
FailMedia(p) ==
    /\ running
    /\ p \in uploading
    /\ uploading' = uploading \ {p}
    /\ UNCHANGED <<running, formVars, pressed, reading, saving, serverVars,
                   told, disturbed>>

MediaID(p) == IF pressed[p].picture = Placeholder THEN Nothing ELSE p

Queue(p, document) ==
    /\ saving' = Append(saving, [post |-> p, document |-> document,
                                 callback |-> TRUE, status |-> "queued"])
    /\ reading' = reading \ {p}
    /\ UNCHANGED <<running, formVars, pressed, uploading, serverVars, told,
                   disturbed>>

\* Slip: the text, too, is read off the screen when the name has come.
AnswerNameReadingForm(p) ==
    /\ running
    /\ p \in reading
    /\ Queue(p, [text |-> form.text, mediaID |-> MediaID(p),
                 categories |-> chosenCategories])

\* Slip: a listener instead of one read, whose block runs at every change.
AnswerNameAgain(p) ==
    /\ running
    /\ p \in reading
    /\ saving' = Append(saving,
                  [post |-> p, callback |-> TRUE, status |-> "queued",
                   document |-> [text |-> pressed[p].text,
                                 mediaID |-> MediaID(p),
                                 categories |-> chosenCategories]])
    /\ UNCHANGED <<running, formVars, pressed, uploading, reading, serverVars,
                   told, disturbed>>

\* The author's name has come: the text and the mediaID are those of the
\* press, the categories those on the screen now.
AnswerName(p) ==
    /\ running
    /\ p \in reading
    /\ Queue(p, [text |-> pressed[p].text, mediaID |-> MediaID(p),
                 categories |-> chosenCategories])

\* Slip: the missing user is only logged.
FailNameSilently(p) ==
    /\ running
    /\ p \in reading
    /\ reading' = reading \ {p}
    /\ UNCHANGED <<running, formVars, pressed, uploading, saving, serverVars,
                   told, disturbed>>

\* No such user, or no answer: "unknown user", and the post is dropped.
FailName(p) ==
    /\ running
    /\ p \in reading
    /\ reading' = reading \ {p}
    /\ told' = [told EXCEPT ![p] = "failure"]
    /\ UNCHANGED <<running, formVars, pressed, uploading, saving, serverVars,
                   disturbed>>
------------------------------------------------------------------------------
(* The Firestore client and the server.                                    *)

Rule(k, status) ==
    /\ running
    /\ IsNext(saving, k)
    /\ saving' = Ruled(saving, k, status)
    /\ UNCHANGED <<running, formVars, pressed, blockVars, media, disturbed>>

\* Slip: the categories are looked up once more when the write is sent.
CommitPostAsShown(k) ==
    /\ Rule(k, "committed")
    /\ saving[k].post \notin Refusable
    /\ posts' = [posts EXCEPT ![saving[k].post] =
                    [saving[k].document EXCEPT !.categories = chosenCategories]]

CommitPost(k) ==
    /\ Rule(k, "committed")
    /\ saving[k].post \notin Refusable
    /\ posts' = [posts EXCEPT ![saving[k].post] = saving[k].document]

RefusePost(k) ==
    /\ Rule(k, "rejected")
    /\ saving[k].post \in Refusable
    /\ UNCHANGED posts

\* The stream breaks before the result arrives: the writes are sent again.
LoseResult ==
    /\ running
    /\ HasResult(saving)
    /\ saving' = Resent(saving)
    /\ UNCHANGED <<running, formVars, pressed, blockVars, serverVars, disturbed>>

HasResultOf(status) ==
    /\ running
    /\ HasResult(saving)
    /\ Head(saving).status = status

Tell(alert) ==
    told' = IF Head(saving).callback
            THEN [told EXCEPT ![Head(saving).post] = alert] ELSE told

\* "Post added successfully.", and clearFieldsAndInfo, whatever the form
\* says by now.  A write restored after a restart has no completion block.
SettlePosted ==
    /\ HasResultOf("committed")
    /\ saving' = Tail(saving)
    /\ Tell("success")
    /\ \/ /\ Head(saving).callback
          /\ form' = EmptyDraft /\ isSelected' = {} /\ chosenCategories' = NoCategory
          /\ disturbed' = disturbed \union reading
       \/ ~ Head(saving).callback /\ UNCHANGED <<formVars, disturbed>>
    /\ UNCHANGED <<running, pressed, uploading, reading, serverVars>>

\* Slip: the error is not looked at.
SettleRefusedUnseen ==
    /\ HasResultOf("rejected")
    /\ saving' = Tail(saving)
    /\ Tell("success")
    /\ UNCHANGED <<running, formVars, pressed, uploading, reading, serverVars,
                   disturbed>>

\* "Post could not be added."
SettleRefused ==
    /\ HasResultOf("rejected")
    /\ saving' = Tail(saving)
    /\ Tell("failure")
    /\ UNCHANGED <<running, formVars, pressed, uploading, reading, serverVars,
                   disturbed>>
------------------------------------------------------------------------------
(* The process.                                                            *)

\* The form, the uploads and the reads are lost; the queue of writes is not,
\* but the writes lose their completion blocks.
Kill ==
    /\ running
    /\ running' = FALSE
    /\ form' = EmptyDraft /\ isSelected' = {} /\ chosenCategories' = NoCategory
    /\ uploading' = {} /\ reading' = {}
    /\ saving' = Resent([k \in DOMAIN saving |->
                            [saving[k] EXCEPT !.callback = FALSE]])
    /\ UNCHANGED <<pressed, serverVars, told, disturbed>>

Launch ==
    /\ ~ running
    /\ running' = TRUE
    /\ UNCHANGED <<formVars, pressed, blockVars, saving, serverVars, disturbed>>

Form ==
    \/ \E t \in Text \union {Blank} : EditText(t)
    \/ \E pic \in Picture \union {Placeholder} : SetPicture(pic)
    \/ \E c \in Category : ChangeButton(c)

Sending ==
    \E p \in Post :
        \/ UploadPressed(p)
        \/ StoreMedia(p)
        \/ FailMedia(p)
        \/ AnswerName(p)
        \/ FailName(p)

Settling ==
    \/ \E k \in DOMAIN saving : RefusePost(k)
    \/ LoseResult
    \/ SettlePosted
    \/ SettleRefused

\* What happens on the phone, whatever the server makes of its writes.
OnPhone == Form \/ Sending \/ Settling \/ Kill \/ Launch

Next == OnPhone \/ \E k \in DOMAIN saving : CommitPost(k)

Spec == Init /\ [][Next]_vars

\* getDocument answers or fails; the write stream is reopened for as long as
\* a write waits, and its results arrive in the end.
Fairness ==
    /\ \A p \in Post : WF_vars(AnswerName(p) \/ FailName(p))
    /\ SF_vars(\E k \in DOMAIN saving : CommitPost(k) \/ RefusePost(k))
    /\ SF_vars(SettlePosted \/ SettleRefused)

LiveSpec == Spec /\ Fairness
------------------------------------------------------------------------------
(* Properties.                                                             *)

TypeOK ==
    /\ running \in BOOLEAN
    /\ form \in Draft
    /\ isSelected \subseteq Category
    /\ chosenCategories \in Categories
    /\ pressed \in [Post -> Pressed \union {Nothing}]
    /\ uploading \subseteq Post /\ reading \subseteq Post
    /\ saving \in Seq(Write)
    /\ posts \in [Post -> Document \union {Nothing}]
    /\ media \in [Post -> Encodable \union {Nothing}]
    /\ told \in [Post -> {"nothing", "success", "failure"}]
    /\ disturbed \subseteq Post

\* The buttons and the array they stand for are changed by separate
\* statements, in changeButton and again in clearFieldsAndInfo, which may run
\* between any two presses: they always agree, and no category is sent twice.
ButtonsMatchCategories ==
    chosenCategories = [c \in Category |-> IF c \in isSelected THEN 1 ELSE 0]

\* A post is what its author saw when pressing Upload, text and picture, and
\* what validateFields let through: never an empty post, although by the time
\* it is written the form has been edited, cleared, or used for another post.
PostedAsPressed ==
    \A p \in Post : posts[p] # Nothing =>
        /\ pressed[p] # Nothing
        /\ pressed[p].text # Blank \/ pressed[p].picture # Placeholder
        /\ posts[p].text = pressed[p].text
        /\ posts[p].mediaID = p <=> pressed[p].picture # Placeholder
        /\ media[p] \in {Nothing, pressed[p].picture}

\* The categories, read off the screen when the author's name has come, are
\* those of the press, at least one, unless the author touched a category, or
\* another post's success cleared the form, while the name was being read.
CategoriesAsPressed ==
    \A p \in Post : posts[p] # Nothing /\ p \notin disturbed =>
        /\ posts[p].categories = pressed[p].categories
        /\ posts[p].categories # NoCategory

\* "Post added successfully." is said only of a post that is on the server,
\* and an error only of one that is not, however often its write was resent.
AlertsAreTrue ==
    \A p \in Post :
        /\ told[p] = "success" => posts[p] # Nothing
        /\ told[p] = "failure" => posts[p] = Nothing

\* A post that has reached the server never changes again: a write sent twice
\* says the same twice.
PostsAreFinal ==
    [][\A p \in Post : posts[p] # Nothing => posts'[p] = posts[p]]_vars

\* Every press is answered by an alert, unless the app is stopped first.
EveryPressIsAnswered ==
    \A p \in Post :
        p \in reading ~> (told[p] # "nothing" \/ ~ running)
------------------------------------------------------------------------------
(* The inductive invariants behind the theorems of Upload_proofs.          *)

\* A document that is what was on the screen when p was pressed.
IsAsPressed(p, document) ==
    /\ pressed[p] # Nothing
    /\ document.text = pressed[p].text
    /\ document.mediaID = MediaID(p)
    /\ p \notin disturbed => document.categories = pressed[p].categories

PressesAreValid ==
    \A p \in Post : pressed[p] # Nothing =>
        /\ pressed[p].text # Blank \/ pressed[p].picture # Placeholder
        /\ pressed[p].categories # NoCategory

ReadsArePressed ==
    \A p \in reading :
        /\ pressed[p] # Nothing
        /\ p \notin disturbed => chosenCategories = pressed[p].categories

UploadsArePressed ==
    \A p \in uploading : pressed[p] # Nothing /\ pressed[p].picture \in Encodable

WritesAsPressed ==
    \A k \in DOMAIN saving : IsAsPressed(saving[k].post, saving[k].document)

ServedAsPressed ==
    \A p \in Post :
        /\ posts[p] # Nothing => IsAsPressed(p, posts[p])
        /\ media[p] # Nothing =>
              pressed[p] # Nothing /\ media[p] = pressed[p].picture

\* What a press has set going is about that press until it has ended.
PressInv ==
    /\ PressesAreValid
    /\ ReadsArePressed
    /\ UploadsArePressed
    /\ WritesAsPressed
    /\ ServedAsPressed

Waits(p) == \E k \in DOMAIN saving : saving[k].post = p

WritesAreDistinct ==
    \A j, k \in DOMAIN saving : saving[j].post = saving[k].post => j = k

ReadsAreUnwritten == \A p \in reading : posts[p] = Nothing /\ ~ Waits(p)

\* A write the phone has a result for was ruled on, and a post on the server
\* whose write still waits is what that write says.
WriteIsTrue(w) ==
    /\ posts[w.post] # Nothing => posts[w.post] = w.document
    /\ w.status = "committed" => posts[w.post] # Nothing
    /\ w.status = "rejected" => w.post \in Refusable

WritesAreTrue == \A k \in DOMAIN saving : WriteIsTrue(saving[k])

FailuresAreFinal ==
    \A p \in Post :
        /\ posts[p] # Nothing => p \notin Refusable
        /\ told[p] = "failure" =>
              \/ p \in Refusable
              \/ pressed[p] # Nothing /\ p \notin reading /\ ~ Waits(p)

\* A post is written once, and what is known of it is true.
OnceInv ==
    /\ WritesAreDistinct
    /\ ReadsAreUnwritten
    /\ WritesAreTrue
    /\ FailuresAreFinal
    /\ AlertsAreTrue

UploadInv == TypeOK /\ PressInv /\ OnceInv
==============================================================================
