-------------------------------- MODULE Profile --------------------------------
(***************************************************************************)
(* The own profile (UserProfileViewController): the user's document is     *)
(* read once, when the screen loads, and its avatar downloaded; the pencil *)
(* starts an edit, the tick saves what has changed since, and the cross    *)
(* brings back what the screen said.                                       *)
(*                                                                         *)
(* The answer and the avatar may arrive before, during or after an edit.   *)
(* What an edit has changed is found by comparing the screen with what it  *)
(* said when the edit began, whatever has changed it.                      *)
(*                                                                         *)
(* The list of the user's posts below the profile is not modelled.         *)
(***************************************************************************)
EXTENDS WriteQueue, SequencesExt

CONSTANTS
    Name, Bio,          \* what a name can be, and a bio can say
    Sample,             \* what the storyboard fills in: "Name", "Bio"
    Picture,            \* the pictures on the device
    Placeholder,        \* the image "placeholder-profile"
    Encodable,          \* the pictures jpegData can encode
    AvatarID,           \* the UUIDs of avatars
    Nothing,            \* the empty avatarID; no picture at all
    MaxInFlight         \* bound: updates waiting in the client

ASSUME ProfileAssumption ==
    /\ Sample \in Name \cap Bio
    /\ Placeholder \notin Picture /\ Nothing \notin AvatarID
    /\ Encodable \subseteq Picture \union {Placeholder}

VARIABLES
    profile,    \* the server: the fields name, bio and avatarID
    outbox,     \* updates the client has not seen acknowledged
    stored,     \* Storage: the avatars that are there
    made,       \* made[a]: the picture that the avatarID a was drawn for
    uploading,  \* avatars whose putData is under way
    screen,     \* selfName, selfBio and selfProfilePicture
    original,   \* originalNameText, originalBioText, originalAvatar
    editingMode,
    asked,      \* is the read of loadInfo under way?
    answers,    \* its answer, waiting to be shown
    loading,    \* the avatar sd_setImage is downloading
    known       \* history: the parts of the screen that showed the profile as
                \* it was when they were filled in, outside an edit, or that an
                \* edit has saved; less those parted from it since by a refusal,
                \* a picture that cannot be encoded, an upload that fails, or
                \* an avatar that arrives late

serverVars == <<profile, stored>>
avatarVars == <<made, uploading>>
screenVars == <<screen, original, editingMode>>
infoVars == <<asked, answers, loading>>
vars == <<serverVars, outbox, avatarVars, screenVars, infoVars, known>>

Image == Picture \union {Placeholder}
TextField == {"name", "bio"}
Document == [name : Name, bio : Bio, avatarID : AvatarID \union {Nothing}]
Screen == [name : Name, bio : Bio, picture : Image]
Part == TextField \union {"picture"}

\* What a field can be changed to; changes is the dictionary given to
\* updateData: some of the fields.
Values == [name |-> Name, bio |-> Bio, avatarID |-> AvatarID]
Changes ==
    {changes \in UNION {[fields -> Name \union Bio \union AvatarID] :
                            fields \in SUBSET {"name", "bio", "avatarID"}} :
        \A f \in DOMAIN changes : changes[f] \in Values[f]}
Update == [changes : Changes, status : Status]

FirstScreen == [name |-> Sample, bio |-> Sample, picture |-> Placeholder]

\* The avatar that the document names may be missing: its upload may have
\* failed in an earlier life of the app.
Init ==
    /\ profile \in Document
    /\ stored \in SUBSET ({profile.avatarID} \ {Nothing})
    /\ made \in [AvatarID -> Picture \union {Nothing}]
    /\ \A a \in AvatarID : made[a] # Nothing <=> a = profile.avatarID
    /\ outbox = <<>> /\ uploading = {}
    /\ screen = FirstScreen /\ original = FirstScreen /\ editingMode = FALSE
    /\ asked = TRUE /\ answers = <<>> /\ loading = Nothing
    /\ known = {}

Merge(document, changes) ==
    [f \in DOMAIN document |->
        IF f \in DOMAIN changes THEN changes[f] ELSE document[f]]

\* The user's document as this phone sees it: the updates waiting, in order,
\* over the server's; the last that changes a field prevails.
Touching(f) == {k \in DOMAIN outbox : f \in DOMAIN outbox[k].changes}

Held ==
    [f \in DOMAIN profile |->
        IF Touching(f) = {} THEN profile[f]
        ELSE outbox[Max(Touching(f))].changes[f]]

\* The picture that an avatarID names when Storage holds the avatars given:
\* none, if the avatar was never stored.
PictureOf(a, avatars) ==
    IF a = Nothing THEN Placeholder ELSE IF a \in avatars THEN made[a] ELSE Nothing

\* What a document says of a part of the screen.
Saved(document, avatars, part) ==
    IF part = "picture" THEN PictureOf(document.avatarID, avatars)
    ELSE document[part]

\* The avatars in Storage, and those on their way there.
Avatars == stored \union uploading
------------------------------------------------------------------------------
(* Loading.                                                                *)

AnswerInfo ==
    /\ asked
    /\ answers' = <<Held>>
    /\ asked' = FALSE
    /\ UNCHANGED <<serverVars, outbox, avatarVars, screenVars, loading, known>>

\* "User information could not be found.", and the storyboard's texts stay.
FailInfo ==
    /\ asked
    /\ asked' = FALSE
    /\ UNCHANGED <<serverVars, outbox, avatarVars, screenVars, answers, loading,
                   known>>

\* What the answer says that is still so.
Current(info) ==
    {f \in TextField : info[f] = Held[f]}
        \union
    {part \in {"picture"} : info.avatarID = Nothing /\ Held.avatarID = Nothing}

\* The answer replaces what the screen says, edited or not.
ShowInfo ==
    LET info == Head(answers) IN
    /\ answers # <<>>
    /\ answers' = <<>>
    /\ screen' = [name |-> info.name, bio |-> info.bio, picture |-> Placeholder]
    /\ loading' = info.avatarID
    /\ known' = IF editingMode THEN known ELSE Current(info)
    /\ UNCHANGED <<serverVars, outbox, avatarVars, original, editingMode, asked>>

\* The avatar arrives, and replaces a picture chosen meanwhile.
AvatarLoads ==
    /\ loading \in stored
    /\ screen' = [screen EXCEPT !.picture = made[loading]]
    /\ loading' = Nothing
    /\ known' =
        IF editingMode THEN known
        ELSE (known \ {"picture"}) \union
                {part \in {"picture"} : loading = Held.avatarID}
    /\ UNCHANGED <<serverVars, outbox, avatarVars, original, editingMode, asked,
                   answers>>

\* The placeholder stays.
AvatarFails ==
    /\ loading # Nothing
    /\ loading' = Nothing
    /\ UNCHANGED <<serverVars, outbox, avatarVars, screenVars, asked, answers,
                   known>>
------------------------------------------------------------------------------
(* Editing.                                                                *)

StartEdit ==
    /\ ~ editingMode
    /\ editingMode' = TRUE
    /\ original' = screen
    /\ UNCHANGED <<serverVars, outbox, avatarVars, screen, infoVars, known>>

\* The text fields, and the picker's result.
Enter(part, value) ==
    /\ editingMode
    /\ screen' = [screen EXCEPT ![part] = value]
    /\ UNCHANGED <<serverVars, outbox, avatarVars, original, editingMode,
                   infoVars, known>>

Cancel ==
    /\ editingMode
    /\ editingMode' = FALSE
    /\ screen' = original
    /\ UNCHANGED <<serverVars, outbox, avatarVars, original, infoVars, known>>

Changed == {part \in Part : screen[part] # original[part]}

\* Nothing is sent without a change.
Send(changes) ==
    outbox' = IF DOMAIN changes = {} THEN outbox
              ELSE Append(outbox, [changes |-> changes, status |-> "queued"])

HasRoom == Len(outbox) < MaxInFlight

SaveText ==
    /\ editingMode /\ HasRoom
    /\ "picture" \notin Changed
    /\ editingMode' = FALSE
    /\ Send([f \in Changed |-> screen[f]])
    /\ known' = known \union Changed
    /\ UNCHANGED <<serverVars, avatarVars, screen, original, infoVars>>

\* What an edit that changed the picture sends, for the avatarID a.
SendPicture(a) ==
    /\ editingMode /\ HasRoom
    /\ "picture" \in Changed /\ screen.picture \in Encodable
    /\ a \in AvatarID /\ made[a] = Nothing
    /\ editingMode' = FALSE
    /\ made' = [made EXCEPT ![a] = screen.picture]
    /\ Send([f \in (Changed \ {"picture"}) \union {"avatarID"} |->
                IF f = "avatarID" THEN a ELSE screen[f]])
    /\ known' = known \union Changed
    /\ UNCHANGED <<serverVars, screen, original, infoVars>>

\* Slip: the upload is never started.
SavePictureUnsent(a) ==
    /\ SendPicture(a)
    /\ UNCHANGED uploading

\* The avatarID is sent together with the texts, whatever becomes of the
\* upload.
SavePicture(a) ==
    /\ SendPicture(a)
    /\ uploading' = uploading \union {a}

\* A picture that cannot be encoded: the handler returns, the texts unsent.
SaveNothing ==
    /\ editingMode
    /\ "picture" \in Changed /\ screen.picture \notin Encodable
    /\ editingMode' = FALSE
    /\ known' = known \ Changed
    /\ UNCHANGED <<serverVars, outbox, avatarVars, screen, original, infoVars>>

StoreAvatar(a) ==
    /\ a \in uploading
    /\ uploading' = uploading \ {a}
    /\ stored' = stored \union {a}
    /\ UNCHANGED <<profile, outbox, made, screenVars, infoVars, known>>

\* "Error uploading image": the avatarID has been sent all the same, and from
\* now on the profile names a picture that Storage does not have.
FailAvatar(a) ==
    /\ a \in uploading
    /\ uploading' = uploading \ {a}
    /\ known' = known \ {part \in {"picture"} : Held.avatarID = a}
    /\ UNCHANGED <<serverVars, outbox, made, screenVars, infoVars>>
------------------------------------------------------------------------------
(* The Firestore client, the server, and the process.                      *)

Rule(k, status) ==
    /\ IsNext(outbox, k)
    /\ outbox' = Ruled(outbox, k, status)
    /\ UNCHANGED <<stored, avatarVars, screenVars, infoVars, known>>

CommitUpdate(k) ==
    /\ Rule(k, "committed")
    /\ profile' = Merge(profile, outbox[k].changes)

RefuseUpdate(k) ==
    /\ Rule(k, "rejected")
    /\ UNCHANGED profile

\* Slip: what was sent down the broken stream is not sent again.
LoseResultAndWrites ==
    /\ HasResult(outbox)
    /\ outbox' = <<>>
    /\ UNCHANGED <<serverVars, avatarVars, screenVars, infoVars, known>>

\* The stream breaks before the result arrives: all writes are sent again.
LoseResult ==
    /\ HasResult(outbox)
    /\ outbox' = Resent(outbox)
    /\ UNCHANGED <<serverVars, avatarVars, screenVars, infoVars, known>>

\* The field of the document that is about a part of the screen, and the parts
\* that an update changes.
FieldOf(part) == IF part = "picture" THEN "avatarID" ELSE part
PartsOf(changes) == {part \in Part : FieldOf(part) \in DOMAIN changes}

\* updateData is called without a completion block: the screen goes on showing
\* what the server has refused.
Settle ==
    /\ HasResult(outbox)
    /\ outbox' = Tail(outbox)
    /\ known' = known \ IF Head(outbox).status = "rejected"
                        THEN PartsOf(Head(outbox).changes) ELSE {}
    /\ UNCHANGED <<serverVars, avatarVars, screenVars, infoVars>>

\* The app is killed and opened again: a new screen, the old queue of writes,
\* and the uploads under way lost, their avatarIDs sent or queued.
Reopen ==
    /\ outbox' = Resent(outbox)
    /\ uploading' = {}
    /\ screen' = FirstScreen /\ original' = FirstScreen /\ editingMode' = FALSE
    /\ asked' = TRUE /\ answers' = <<>> /\ loading' = Nothing
    /\ known' = {}
    /\ UNCHANGED <<serverVars, made>>

Loading == AnswerInfo \/ FailInfo \/ ShowInfo \/ AvatarLoads \/ AvatarFails

Editing ==
    \/ StartEdit
    \/ \E n \in Name : Enter("name", n)
    \/ \E b \in Bio : Enter("bio", b)
    \/ \E pic \in Picture : Enter("picture", pic)
    \/ Cancel
    \/ SaveText
    \/ SaveNothing
    \/ \E a \in AvatarID : SavePicture(a) \/ StoreAvatar(a) \/ FailAvatar(a)

Next ==
    \/ Loading
    \/ Editing
    \/ \E k \in DOMAIN outbox : CommitUpdate(k) \/ RefuseUpdate(k)
    \/ LoseResult
    \/ Settle
    \/ Reopen

Spec == Init /\ [][Next]_vars

\* The write stream is reopened for as long as a write waits; and an upload
\* ends, stored or with an error: FirebaseStorage retries it for ten minutes
\* (maxUploadRetryTime) and then gives up.
Fairness ==
    /\ SF_vars(\E k \in DOMAIN outbox : CommitUpdate(k) \/ RefuseUpdate(k))
    /\ SF_vars(Settle)
    /\ \A a \in AvatarID : WF_vars(StoreAvatar(a) \/ FailAvatar(a))

LiveSpec == Spec /\ Fairness
------------------------------------------------------------------------------
(* Properties.                                                             *)

TypeOK ==
    /\ profile \in Document
    /\ outbox \in Seq(Update)
    /\ stored \subseteq AvatarID /\ uploading \subseteq AvatarID
    /\ made \in [AvatarID -> Image \union {Nothing}]
    /\ screen \in Screen /\ original \in Screen /\ editingMode \in BOOLEAN
    /\ asked \in BOOLEAN /\ answers \in Seq(Document)
    /\ asked => answers = <<>>
    /\ loading \in AvatarID \union {Nothing}
    /\ known \subseteq Part

\* Between edits, whatever the screen once showed of the profile or saved to it
\* is what the profile says: edits saved, taken back, saved again before the
\* first update has left the phone, and sent twice, all leave the profile as the
\* screen says, and its avatarID names the picture in Storage, or on its way
\* there.  What a refused update, a picture that cannot be encoded, an upload
\* that fails, and an answer or an avatar older than the last edit have parted
\* from the profile is excepted from then on; an answer or an avatar that
\* arrives during an edit shows nothing for certain.  (And every variable keeps
\* its type.)
ProfileIsShown ==
    /\ TypeOK
    /\ ~ editingMode =>
            \A part \in known : screen[part] = Saved(Held, Avatars, part)

\* And in the end, if nobody edits any more and nothing parts the two, so does
\* the server: its document has the texts, and Storage the picture that its
\* avatarID names.
SavesTakeEffect ==
    \A part \in Part :
        <>[](~ editingMode /\ part \in known)
            => <>[](screen[part] = Saved(profile, stored, part))
------------------------------------------------------------------------------
(* The inductive invariant behind the theorem of Account_proofs.           *)

\* An avatar is uploaded once its picture is known.
AvatarsAreMade == \A a \in stored \union uploading : made[a] \in Image

\* The updates are ruled on in order, none after a refusal; and of those that
\* are committed and unacknowledged, the last is what a field says.
CommitsShow ==
    /\ \A j, k \in DOMAIN outbox :
            j < k /\ outbox[k].status # "queued" => outbox[j].status = "committed"
    /\ \A k \in DOMAIN outbox : \A f \in DOMAIN outbox[k].changes :
            \/ outbox[k].status # "committed"
            \/ \E j \in Touching(f) : j > k /\ outbox[j].status = "committed"
            \/ profile[f] = outbox[k].changes[f]

\* During an edit, what the cross would bring back.
KnownIsShown ==
    \A part \in known :
        (IF editingMode THEN original ELSE screen)[part] =
            Saved(Held, Avatars, part)

ProfileInv ==
    TypeOK /\ AvatarsAreMade /\ CommitsShow /\ KnownIsShown
================================================================================
