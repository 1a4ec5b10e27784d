---------------------------- MODULE Upload_proofs -----------------------------
(***************************************************************************)
(* Proofs about the upload screen, for every set of posts, texts, pictures *)
(* and categories, every choice of what can be encoded and what the server *)
(* refuses, and a queue of writes of any length.                           *)
(***************************************************************************)
EXTENDS Upload, QueueLemmas, TLAPS

(* Types.                                                                  *)

LEMMA WriteTypes ==
    ASSUME TypeOK, NEW k \in DOMAIN saving
    PROVE  /\ saving[k] \in Write /\ saving[k].post \in Post
           /\ saving[k].document \in Document /\ saving[k].callback \in BOOLEAN
<1>1. saving \in Seq(Write)
  BY DEF TypeOK
<1>2. saving[k] \in Write
  BY <1>1
<1> QED BY <1>2 DEF Write

\* The post with its text, its picture and the categories given.
LEMMA QueuedTypes ==
    ASSUME TypeOK, NEW p \in Post, pressed[p] # Nothing,
           NEW categories \in Categories
    PROVE  [post |-> p, callback |-> TRUE, status |-> "queued",
            document |-> [text |-> pressed[p].text, mediaID |-> MediaID(p),
                          categories |-> categories]] \in Write
<1>1. pressed[p] \in Pressed
  BY DEF TypeOK
<1>2. [text |-> pressed[p].text, mediaID |-> MediaID(p),
       categories |-> categories] \in Document
  BY <1>1 DEF Pressed, Document, MediaID
<1> QED BY <1>2 DEF Write, Status

LEMMA RuledTypes ==
    ASSUME TypeOK, NEW k \in DOMAIN saving, NEW st \in Status
    PROVE  /\ Ruled(saving, k, st) \in Seq(Write)
           /\ DOMAIN Ruled(saving, k, st) = DOMAIN saving
           /\ \A j \in DOMAIN saving :
                 /\ Ruled(saving, k, st)[j].post = saving[j].post
                 /\ Ruled(saving, k, st)[j].document = saving[j].document
                 /\ Ruled(saving, k, st)[j].status =
                       IF j = k THEN st ELSE saving[j].status
<1> DEFINE w == [saving[k] EXCEPT !.status = st]
<1>1. saving \in Seq(Write)
  BY DEF TypeOK
<1>2. /\ w \in Write /\ w.post = saving[k].post
      /\ w.document = saving[k].document /\ w.status = st
  BY WriteTypes DEF Write
<1>3. /\ Ruled(saving, k, st) \in Seq(Write)
      /\ DOMAIN Ruled(saving, k, st) = DOMAIN saving
      /\ Ruled(saving, k, st)[k] = w
      /\ \A j \in DOMAIN saving : j # k => Ruled(saving, k, st)[j] = saving[j]
  BY <1>1, <1>2, RuledProperties
<1> HIDE DEF w
<1> QED BY <1>2, <1>3

\* The queue as it is sent again, after a broken stream or a restart.
LEMMA ResentTypes ==
    ASSUME TypeOK, NEW q \in Seq(Write)
    PROVE  /\ Resent(q) \in Seq(Write)
           /\ DOMAIN Resent(q) = DOMAIN q
           /\ \A k \in DOMAIN q : /\ Resent(q)[k].post = q[k].post
                                  /\ Resent(q)[k].document = q[k].document
                                  /\ Resent(q)[k].status = "queued"
<1>1. \A w \in Write : /\ [w EXCEPT !.status = "queued"] \in Write
                       /\ [w EXCEPT !.status = "queued"].post = w.post
                       /\ [w EXCEPT !.status = "queued"].document = w.document
                       /\ [w EXCEPT !.status = "queued"].status = "queued"
  BY DEF Write, Status
<1>2. /\ Resent(q) \in Seq(Write) /\ DOMAIN Resent(q) = DOMAIN q
      /\ \A k \in DOMAIN q : Resent(q)[k] = [q[k] EXCEPT !.status = "queued"]
  BY <1>1, ResentProperties
<1> SUFFICES ASSUME NEW k \in DOMAIN q
             PROVE  /\ Resent(q)[k].post = q[k].post
                    /\ Resent(q)[k].document = q[k].document
                    /\ Resent(q)[k].status = "queued"
  BY <1>2
<1>3. q[k] \in Write /\ Resent(q)[k] = [q[k] EXCEPT !.status = "queued"]
  BY <1>2
<1> QED BY <1>1, <1>3, Zenon

\* Without their completion blocks.
LEMMA OrphanedTypes ==
    ASSUME TypeOK, NEW q,
           q = [k \in DOMAIN saving |-> [saving[k] EXCEPT !.callback = FALSE]]
    PROVE  /\ q \in Seq(Write)
           /\ DOMAIN q = DOMAIN saving
           /\ \A k \in DOMAIN saving : /\ q[k].post = saving[k].post
                                       /\ q[k].document = saving[k].document
<1>1. saving \in Seq(Write)
  BY DEF TypeOK
<1>2. \A k \in DOMAIN saving :
         /\ [saving[k] EXCEPT !.callback = FALSE] \in Write
         /\ [saving[k] EXCEPT !.callback = FALSE].post = saving[k].post
         /\ [saving[k] EXCEPT !.callback = FALSE].document = saving[k].document
  BY WriteTypes DEF Write
<1>3. DOMAIN saving = 1 .. Len(saving) /\ Len(saving) \in Nat
  BY <1>1
<1>4. /\ DOMAIN q = DOMAIN saving
      /\ \A k \in DOMAIN saving : q[k] = [saving[k] EXCEPT !.callback = FALSE]
  OBVIOUS
<1>5. q \in [1 .. Len(saving) -> Write]
  BY <1>2, <1>3, Zenon
<1>6. q \in Seq(Write)
  BY <1>3, <1>5
<1> QED BY <1>2, <1>4, <1>6

LEMMA InitType == Init => TypeOK
<1>1. <<>> \in Seq(Write) /\ NoCategory \in Categories /\ EmptyDraft \in Draft
  BY DEF NoCategory, Categories, EmptyDraft, Draft
<1> QED BY <1>1 DEF Init, TypeOK

\* The result of the oldest write, and what is left.
LEMMA TailTypes ==
    ASSUME TypeOK, saving # <<>>
    PROVE  /\ Tail(saving) \in Seq(Write)
           /\ Head(saving) = saving[1] /\ 1 \in DOMAIN saving
           /\ Head(saving) \in Write /\ Head(saving).post \in Post
           /\ Head(saving).callback \in BOOLEAN
           /\ \A k \in DOMAIN Tail(saving) :
                 /\ k + 1 \in DOMAIN saving /\ k + 1 # 1
                 /\ Tail(saving)[k] = saving[k + 1]
<1>1. saving \in Seq(Write)
  BY DEF TypeOK
<1>2. Head(saving) = saving[1] /\ 1 \in DOMAIN saving /\ Tail(saving) \in Seq(Write)
  BY <1>1
<1>3. \A k \in DOMAIN Tail(saving) :
                 /\ k + 1 \in DOMAIN saving /\ k + 1 # 1
                 /\ Tail(saving)[k] = saving[k + 1]
  BY <1>1
<1> QED BY <1>2, <1>3, WriteTypes

\* What is under way is typed because it was set going by a press.
LEMMA NextType == TypeOK /\ PressInv /\ [Next]_vars => TypeOK'
<1> SUFFICES ASSUME TypeOK, PressInv, [Next]_vars PROVE TypeOK'
  OBVIOUS
<1> USE DEF formVars, serverVars, blockVars
<1>0. NoCategory \in Categories /\ EmptyDraft \in Draft
  BY DEF NoCategory, Categories, EmptyDraft, Draft
<1>1. CASE Form
  <2>1. ASSUME NEW t \in Text \union {Blank}, EditText(t) PROVE TypeOK'
    <3>1. form' \in Draft
      BY <2>1 DEF EditText, TypeOK, Draft
    <3> QED BY <2>1, <3>1 DEF EditText, TypeOK
  <2>2. ASSUME NEW pic \in Picture \union {Placeholder}, SetPicture(pic)
        PROVE  TypeOK'
    <3>1. form' \in Draft
      BY <2>2 DEF SetPicture, TypeOK, Draft
    <3> QED BY <2>2, <3>1 DEF SetPicture, TypeOK
  <2>3. ASSUME NEW c \in Category, ChangeButton(c) PROVE TypeOK'
    <3>1. chosenCategories' \in Categories /\ isSelected' \subseteq Category
      BY <2>3 DEF ChangeButton, TypeOK, Categories
    <3>2. disturbed' \subseteq Post
      BY <2>3 DEF ChangeButton, TypeOK
    <3> QED BY <2>3, <3>1, <3>2 DEF ChangeButton, TypeOK
  <2> QED BY <1>1, <2>1, <2>2, <2>3 DEF Form
<1>2. ASSUME NEW p \in Post, UploadPressed(p) PROVE TypeOK'
  <2>1. OnScreen \in Pressed
    BY DEF OnScreen, Pressed, TypeOK, Draft
  <2>2. pressed' \in [Post -> Pressed \union {Nothing}]
    BY <1>2, <2>1 DEF UploadPressed, TypeOK
  <2>3. uploading' \subseteq Post /\ reading' \subseteq Post
    BY <1>2 DEF UploadPressed, TypeOK
  <2> QED BY <1>2, <2>2, <2>3 DEF UploadPressed, TypeOK
<1>3. ASSUME NEW p \in Post, StoreMedia(p) PROVE TypeOK'
  <2>1. pressed[p].picture \in Encodable
    BY <1>3 DEF StoreMedia, PressInv, UploadsArePressed
  <2>2. media' \in [Post -> Encodable \union {Nothing}] /\ uploading' \subseteq Post
    BY <1>3, <2>1 DEF StoreMedia, TypeOK
  <2> QED BY <1>3, <2>2 DEF StoreMedia, TypeOK
<1>4. ASSUME NEW p \in Post, FailMedia(p) PROVE TypeOK'
  <2>1. uploading' \subseteq Post
    BY <1>4 DEF FailMedia, TypeOK
  <2> QED BY <1>4, <2>1 DEF FailMedia, TypeOK
<1>5. ASSUME NEW p \in Post, AnswerName(p) PROVE TypeOK'
  <2> DEFINE w == [post |-> p, document |->
                     [text |-> pressed[p].text, mediaID |-> MediaID(p),
                      categories |-> chosenCategories],
                   callback |-> TRUE, status |-> "queued"]
  <2>1. w \in Write
    BY <1>5, QueuedTypes DEF AnswerName, PressInv, ReadsArePressed, TypeOK
  <2>2. saving' = Append(saving, w)
    BY <1>5 DEF AnswerName, Queue
  <2> HIDE DEF w
  <2>3. saving' \in Seq(Write)
    BY <2>1, <2>2 DEF TypeOK
  <2>4. reading' \subseteq Post
    BY <1>5 DEF AnswerName, Queue, TypeOK
  <2> QED BY <1>5, <2>3, <2>4 DEF AnswerName, Queue, TypeOK
<1>6. ASSUME NEW p \in Post, FailName(p) PROVE TypeOK'
  <2>1. reading' \subseteq Post /\ told' \in [Post -> {"nothing", "success", "failure"}]
    BY <1>6 DEF FailName, TypeOK
  <2> QED BY <1>6, <2>1 DEF FailName, TypeOK
<1>7. CASE Sending
  BY <1>2, <1>3, <1>4, <1>5, <1>6, <1>7 DEF Sending
<1>8. ASSUME NEW k \in DOMAIN saving, RefusePost(k) PROVE TypeOK'
  <2>1. saving' \in Seq(Write)
    BY <1>8, RuledTypes DEF RefusePost, Rule, Status
  <2> QED BY <1>8, <2>1 DEF RefusePost, Rule, TypeOK
<1>9. ASSUME NEW k \in DOMAIN saving, CommitPost(k) PROVE TypeOK'
  <2>1. saving' \in Seq(Write)
    BY <1>9, RuledTypes DEF CommitPost, Rule, Status
  <2>2. posts' \in [Post -> Document \union {Nothing}]
    BY <1>9, WriteTypes DEF CommitPost, TypeOK
  <2> QED BY <1>9, <2>1, <2>2 DEF CommitPost, Rule, TypeOK
<1>10. CASE LoseResult
  <2>1. saving' \in Seq(Write)
    BY <1>10, ResentTypes DEF LoseResult, TypeOK
  <2> QED BY <1>10, <2>1 DEF LoseResult, TypeOK
<1>11. CASE SettlePosted
  <2>1. saving' \in Seq(Write)
    BY <1>11, TailTypes DEF SettlePosted, HasResultOf, HasResult
  <2>2. told' \in [Post -> {"nothing", "success", "failure"}]
    BY <1>11 DEF SettlePosted, Tell, TypeOK
  <2>3. /\ form' \in Draft /\ isSelected' \subseteq Category
        /\ chosenCategories' \in Categories /\ disturbed' \subseteq Post
    BY <1>11, <1>0 DEF SettlePosted, TypeOK
  <2> QED BY <1>11, <2>1, <2>2, <2>3 DEF SettlePosted, HasResultOf, TypeOK
<1>12. CASE SettleRefused
  <2>1. saving' \in Seq(Write)
    BY <1>12, TailTypes DEF SettleRefused, HasResultOf, HasResult
  <2>2. told' \in [Post -> {"nothing", "success", "failure"}]
    BY <1>12 DEF SettleRefused, Tell, TypeOK
  <2> QED BY <1>12, <2>1, <2>2 DEF SettleRefused, HasResultOf, TypeOK
<1>13. CASE Kill
  <2>1. saving' \in Seq(Write)
    BY <1>13, OrphanedTypes, ResentTypes DEF Kill
  <2> QED BY <1>13, <1>0, <2>1 DEF Kill, TypeOK
<1>14. CASE Launch
  BY <1>14 DEF Launch, TypeOK
<1>15. CASE UNCHANGED vars
  BY <1>15 DEF vars, TypeOK
<1> QED BY <1>1, <1>7, <1>8, <1>9, <1>10, <1>11, <1>12, <1>13, <1>14, <1>15
        DEF Next, OnPhone, Settling
------------------------------------------------------------------------------
(* What is sent is what was pressed.                                       *)

\* A document stays that of its press: no press is made twice, and what has
\* been disturbed stays so.
LEMMA StaysAsPressed ==
    ASSUME NEW p, NEW document, IsAsPressed(p, document),
           pressed'[p] = pressed[p], disturbed \subseteq disturbed'
    PROVE  IsAsPressed(p, document)'
  BY DEF IsAsPressed, MediaID

\* A step that presses nothing, and moves no read, upload or picture.
LEMMA PressKept ==
    ASSUME TypeOK, PressInv, UNCHANGED pressed, disturbed \subseteq disturbed',
           reading' \subseteq reading, uploading' \subseteq uploading,
           chosenCategories' = chosenCategories \/ reading' \subseteq disturbed'
    PROVE  PressesAreValid' /\ ReadsArePressed' /\ UploadsArePressed'
<1> USE DEF PressInv
<1>1. PressesAreValid'
  BY DEF PressesAreValid
<1>2. ReadsArePressed'
  BY DEF ReadsArePressed
<1>3. UploadsArePressed'
  BY DEF UploadsArePressed
<1> QED BY <1>1, <1>2, <1>3

LEMMA ServedKept ==
    ASSUME PressInv, UNCHANGED <<pressed, posts, media>>,
           disturbed \subseteq disturbed'
    PROVE  ServedAsPressed'
<1>1. ASSUME NEW p \in Post, posts'[p] # Nothing PROVE IsAsPressed(p, posts[p])'
  <2>1. IsAsPressed(p, posts[p])
    BY <1>1 DEF PressInv, ServedAsPressed
  <2> QED BY <2>1 DEF IsAsPressed, MediaID
<1> QED BY <1>1 DEF PressInv, ServedAsPressed

\* However the queue changes, as long as no new write comes to it.
LEMMA WritesKept ==
    ASSUME PressInv, UNCHANGED pressed, disturbed \subseteq disturbed',
           \A k \in DOMAIN saving' : \E j \in DOMAIN saving :
               /\ saving'[k].post = saving[j].post
               /\ saving'[k].document = saving[j].document
    PROVE  WritesAsPressed'
<1> SUFFICES ASSUME NEW k \in DOMAIN saving'
             PROVE  IsAsPressed(saving[k].post, saving[k].document)'
  BY DEF WritesAsPressed
<1>1. PICK j \in DOMAIN saving : /\ saving'[k].post = saving[j].post
                                /\ saving'[k].document = saving[j].document
  OBVIOUS
<1>2. IsAsPressed(saving[j].post, saving[j].document)
  BY DEF PressInv, WritesAsPressed
<1> QED BY <1>1, <1>2 DEF IsAsPressed, MediaID

LEMMA PressStep == TypeOK /\ PressInv /\ [Next]_vars => PressInv'
<1> SUFFICES ASSUME TypeOK, PressInv, [Next]_vars PROVE PressInv'
  OBVIOUS
<1> USE DEF formVars, serverVars, blockVars
<1>0. saving \in Seq(Write) /\ pressed \in [Post -> Pressed \union {Nothing}]
  BY DEF TypeOK
<1>1. CASE Form
  <2>1. UNCHANGED <<pressed, reading, uploading, saving, posts, media>>
    BY <1>1 DEF Form, EditText, SetPicture, ChangeButton
  <2>2. /\ disturbed \subseteq disturbed'
        /\ chosenCategories' = chosenCategories \/ reading' \subseteq disturbed'
    BY <1>1 DEF Form, EditText, SetPicture, ChangeButton
  <2> QED BY <2>1, <2>2, PressKept, ServedKept, WritesKept DEF PressInv
<1>2. ASSUME NEW p \in Post, UploadPressed(p) PROVE PressInv'
  <2>1. /\ pressed[p] = Nothing /\ Valid /\ reading' = reading \union {p}
        /\ pressed' = [pressed EXCEPT ![p] = OnScreen]
        /\ uploading' \subseteq uploading \union {p}
        /\ p \in uploading' => p \in uploading \/ form.picture \in Encodable
        /\ UNCHANGED <<chosenCategories, saving, posts, media, disturbed>>
    BY <1>2 DEF UploadPressed
  <2>2. /\ pressed'[p] = OnScreen
        /\ \A q \in Post : q # p => pressed'[q] = pressed[q]
    BY <1>0, <2>1
  <2>3. /\ OnScreen # Nothing
        /\ OnScreen.text # Blank \/ OnScreen.picture # Placeholder
        /\ OnScreen.categories # NoCategory
        /\ OnScreen.categories = chosenCategories
        /\ OnScreen.picture = form.picture
    <3>1. OnScreen \in Pressed /\ form \in Draft
      BY DEF OnScreen, Pressed, TypeOK, Draft
    <3>2. form.text # Blank \/ form.picture # Placeholder
      BY <2>1, <3>1 DEF Valid, EmptyDraft, Draft
    <3> QED BY <2>1, <3>1, <3>2, UploadAssumption DEF OnScreen, Valid
  <2>4. ASSUME NEW q \in Post, NEW document, IsAsPressed(q, document)
        PROVE  IsAsPressed(q, document)'
    <3>1. q # p
      BY <2>1, <2>4 DEF IsAsPressed
    <3> QED BY <2>1, <2>2, <2>4, <3>1, StaysAsPressed
  <2>5. PressesAreValid'
    BY <2>2, <2>3 DEF PressInv, PressesAreValid
  <2>6. ReadsArePressed'
    BY <2>1, <2>2, <2>3 DEF PressInv, ReadsArePressed, TypeOK
  <2>7. UploadsArePressed'
    BY <2>1, <2>2, <2>3 DEF PressInv, UploadsArePressed, TypeOK
  <2>8. WritesAsPressed'
    BY <2>1, <2>4, WriteTypes DEF PressInv, WritesAsPressed, IsAsPressed, MediaID
  <2>9. ServedAsPressed'
    BY <2>1, <2>2, <2>4 DEF PressInv, ServedAsPressed, IsAsPressed, MediaID
  <2> QED BY <2>5, <2>6, <2>7, <2>8, <2>9 DEF PressInv
<1>3. ASSUME NEW p \in Post, StoreMedia(p) PROVE PressInv'
  <2>1. /\ p \in uploading /\ media' = [media EXCEPT ![p] = pressed[p].picture]
        /\ uploading' \subseteq uploading
        /\ UNCHANGED <<pressed, chosenCategories, reading, saving, posts, disturbed>>
    BY <1>3 DEF StoreMedia
  <2>2. ASSUME NEW q \in Post, media'[q] # Nothing
        PROVE  pressed[q] # Nothing /\ media'[q] = pressed[q].picture
    BY <2>1, <2>2 DEF PressInv, UploadsArePressed, ServedAsPressed, TypeOK
  <2>3. ServedAsPressed'
    BY <2>1, <2>2 DEF PressInv, ServedAsPressed, IsAsPressed, MediaID
  <2> QED BY <2>1, <2>3, PressKept, WritesKept DEF PressInv
<1>4. ASSUME NEW p \in Post, FailMedia(p) \/ FailName(p) PROVE PressInv'
  <2>1. /\ reading' \subseteq reading /\ uploading' \subseteq uploading
        /\ UNCHANGED <<pressed, chosenCategories, saving, posts, media, disturbed>>
    BY <1>4 DEF FailMedia, FailName
  <2> QED BY <2>1, PressKept, ServedKept, WritesKept DEF PressInv
<1>5. ASSUME NEW p \in Post, AnswerName(p) PROVE PressInv'
  <2> DEFINE document == [text |-> pressed[p].text, mediaID |-> MediaID(p),
                          categories |-> chosenCategories]
             w == [post |-> p, document |-> document,
                   callback |-> TRUE, status |-> "queued"]
  <2>1. /\ p \in reading /\ saving' = Append(saving, w)
        /\ reading' \subseteq reading
        /\ UNCHANGED <<pressed, chosenCategories, uploading, posts, media, disturbed>>
    BY <1>5 DEF AnswerName, Queue
  <2>2. IsAsPressed(p, document)
    BY <2>1 DEF PressInv, ReadsArePressed, IsAsPressed
  <2> HIDE DEF document
  <2>3. w.post = p /\ w.document = document
    OBVIOUS
  <2> HIDE DEF w
  <2>4. \A k \in DOMAIN saving' :
            \/ k \in DOMAIN saving /\ saving'[k] = saving[k]
            \/ saving'[k] = w
    BY <1>0, <2>1
  <2>5. ASSUME NEW k \in DOMAIN saving'
        PROVE  IsAsPressed(saving[k].post, saving[k].document)'
    BY <2>1, <2>2, <2>3, <2>4 DEF PressInv, WritesAsPressed, IsAsPressed, MediaID
  <2>6. WritesAsPressed'
    BY <2>5 DEF WritesAsPressed
  <2> QED BY <2>1, <2>6, PressKept, ServedKept DEF PressInv
<1>6. ASSUME NEW k \in DOMAIN saving, NEW st \in Status, Rule(k, st)
      PROVE  /\ PressesAreValid' /\ ReadsArePressed' /\ UploadsArePressed'
             /\ WritesAsPressed'
  <2>1. /\ saving' = Ruled(saving, k, st)
        /\ UNCHANGED <<pressed, chosenCategories, reading, uploading, disturbed>>
    BY <1>6 DEF Rule
  <2>2. \A j \in DOMAIN saving' : /\ j \in DOMAIN saving
                                  /\ saving'[j].post = saving[j].post
                                  /\ saving'[j].document = saving[j].document
    BY <2>1, RuledTypes
  <2> QED BY <2>1, <2>2, PressKept, WritesKept
<1>7. ASSUME NEW k \in DOMAIN saving, RefusePost(k) PROVE PressInv'
  <2>1. Rule(k, "rejected") /\ UNCHANGED <<pressed, posts, media, disturbed>>
    BY <1>7 DEF RefusePost, Rule
  <2> QED BY <1>6, <2>1, ServedKept DEF PressInv, Status
<1>8. ASSUME NEW k \in DOMAIN saving, CommitPost(k) PROVE PressInv'
  <2>1. /\ Rule(k, "committed") /\ UNCHANGED <<pressed, media, disturbed>>
        /\ posts' = [posts EXCEPT ![saving[k].post] = saving[k].document]
    BY <1>8 DEF CommitPost, Rule
  <2>2. ASSUME NEW p \in Post, posts'[p] # Nothing
        PROVE  IsAsPressed(p, posts'[p])
    BY <2>1, <2>2 DEF PressInv, ServedAsPressed, WritesAsPressed, TypeOK
  <2>3. ServedAsPressed'
    BY <2>1, <2>2 DEF PressInv, ServedAsPressed, IsAsPressed, MediaID
  <2> QED BY <1>6, <2>1, <2>3 DEF PressInv, Status
<1>9. CASE LoseResult
  <2>1. \A j \in DOMAIN saving' : /\ j \in DOMAIN saving
                                  /\ saving'[j].post = saving[j].post
                                  /\ saving'[j].document = saving[j].document
    BY <1>0, <1>9, ResentTypes DEF LoseResult
  <2>2. UNCHANGED <<pressed, chosenCategories, reading, uploading, posts, media,
                    disturbed>>
    BY <1>9 DEF LoseResult
  <2> QED BY <2>1, <2>2, PressKept, ServedKept, WritesKept DEF PressInv
<1>10. CASE SettlePosted \/ SettleRefused
  <2>1. saving # <<>> /\ saving' = Tail(saving)
    BY <1>10 DEF SettlePosted, SettleRefused, HasResultOf, HasResult
  <2>2. \A k \in DOMAIN saving' : k + 1 \in DOMAIN saving
                                  /\ saving'[k] = saving[k + 1]
    BY <2>1, TailTypes
  <2>3. UNCHANGED <<pressed, reading, uploading, posts, media>>
    BY <1>10 DEF SettlePosted, SettleRefused
  <2>4. /\ disturbed \subseteq disturbed'
        /\ chosenCategories' = chosenCategories \/ reading' \subseteq disturbed'
    BY <1>10 DEF SettlePosted, SettleRefused
  <2> QED BY <2>2, <2>3, <2>4, PressKept, ServedKept, WritesKept DEF PressInv
<1>11. CASE Kill
  <2>1. \A j \in DOMAIN saving' : /\ j \in DOMAIN saving
                                  /\ saving'[j].post = saving[j].post
                                  /\ saving'[j].document = saving[j].document
    <3> DEFINE q == [k \in DOMAIN saving |-> [saving[k] EXCEPT !.callback = FALSE]]
    <3>1. saving' = Resent(q)
      BY <1>11 DEF Kill
    <3>2. /\ q \in Seq(Write) /\ DOMAIN q = DOMAIN saving
          /\ \A k \in DOMAIN saving : /\ q[k].post = saving[k].post
                                      /\ q[k].document = saving[k].document
      BY OrphanedTypes
    <3> HIDE DEF q
    <3> QED BY <3>1, <3>2, ResentTypes
  <2>2. /\ UNCHANGED <<pressed, posts, media, disturbed>>
        /\ reading' = {} /\ uploading' = {}
    BY <1>11 DEF Kill
  <2> QED BY <2>1, <2>2, PressKept, ServedKept, WritesKept DEF PressInv
<1>12. CASE Launch \/ UNCHANGED vars
  <2>1. UNCHANGED <<pressed, chosenCategories, reading, uploading, saving, posts,
                    media, disturbed>>
    BY <1>12 DEF Launch, vars
  <2> QED BY <2>1, PressKept, ServedKept, WritesKept DEF PressInv
<1> QED BY <1>1, <1>2, <1>3, <1>4, <1>5, <1>7, <1>8, <1>9, <1>10, <1>11, <1>12
        DEF Next, OnPhone, Sending, Settling
------------------------------------------------------------------------------
(* What a step on the phone can do to the queue of writes and the alerts.  *)

\* A press; the name's answer, which queues the write, or its failure; the
\* writes to be sent again; the result of the oldest one; or a refusal.
LEMMA PhoneSteps ==
    ASSUME TypeOK, PressInv, OnPhone
    PROVE  /\ posts' = posts
           /\ \/ LoseResult \/ Kill
              \/ UNCHANGED <<pressed, reading, saving, told>>
              \/ \E p \in Post : /\ pressed[p] = Nothing
                                /\ pressed' = [pressed EXCEPT ![p] = OnScreen]
                                /\ reading' = reading \union {p}
                                /\ UNCHANGED <<saving, told>>
              \/ \E p \in reading, w \in Write :
                    /\ w.post = p /\ w.status = "queued"
                    /\ saving' = Append(saving, w)
                    /\ reading' = reading \ {p}
                    /\ UNCHANGED <<pressed, told>>
              \/ \E p \in reading :
                    /\ reading' = reading \ {p}
                    /\ told' = [told EXCEPT ![p] = "failure"]
                    /\ UNCHANGED <<pressed, saving>>
              \/ \E alert \in {"success", "failure"} :
                    /\ saving # <<>> /\ saving' = Tail(saving)
                    /\ Tell(alert)
                    /\ Head(saving).status =
                          IF alert = "success" THEN "committed" ELSE "rejected"
                    /\ UNCHANGED <<pressed, reading>>
              \/ \E k \in DOMAIN saving : RefusePost(k)
<1> USE DEF formVars, serverVars, blockVars
<1>1. CASE Form \/ Launch
  BY <1>1 DEF Form, EditText, SetPicture, ChangeButton, Launch
<1>2. ASSUME NEW p \in Post,
             UploadPressed(p) \/ StoreMedia(p) \/ FailMedia(p) \/ FailName(p)
      PROVE  /\ posts' = posts
             /\ \/ UNCHANGED <<pressed, reading, saving, told>>
                \/ /\ pressed[p] = Nothing
                   /\ pressed' = [pressed EXCEPT ![p] = OnScreen]
                   /\ reading' = reading \union {p}
                   /\ UNCHANGED <<saving, told>>
                \/ /\ p \in reading /\ reading' = reading \ {p}
                   /\ told' = [told EXCEPT ![p] = "failure"]
                   /\ UNCHANGED <<pressed, saving>>
  BY <1>2 DEF UploadPressed, StoreMedia, FailMedia, FailName
<1>3. ASSUME NEW p \in Post, AnswerName(p)
      PROVE  /\ posts' = posts /\ p \in reading
             /\ \E w \in Write : /\ w.post = p /\ w.status = "queued"
                                 /\ saving' = Append(saving, w)
                                 /\ reading' = reading \ {p}
                                 /\ UNCHANGED <<pressed, told>>
  <2> DEFINE w == [post |-> p, document |->
                     [text |-> pressed[p].text, mediaID |-> MediaID(p),
                      categories |-> chosenCategories],
                   callback |-> TRUE, status |-> "queued"]
  <2>1. w \in Write
    BY <1>3, QueuedTypes DEF AnswerName, PressInv, ReadsArePressed, TypeOK
  <2>2. /\ saving' = Append(saving, w) /\ p \in reading
        /\ reading' = reading \ {p}
        /\ UNCHANGED <<pressed, told, posts>>
    BY <1>3 DEF AnswerName, Queue
  <2>3. w.post = p /\ w.status = "queued"
    OBVIOUS
  <2> HIDE DEF w
  <2> QED BY <2>1, <2>2, <2>3
<1>4. CASE SettlePosted
  BY <1>4 DEF SettlePosted, HasResultOf, HasResult
<1>5. CASE SettleRefused
  BY <1>5 DEF SettleRefused, HasResultOf, HasResult
<1>6. CASE LoseResult \/ Kill \/ \E k \in DOMAIN saving : RefusePost(k)
  BY <1>6 DEF LoseResult, Kill, RefusePost
<1> QED BY <1>1, <1>2, <1>3, <1>4, <1>5, <1>6 DEF OnPhone, Sending, Settling

\* Writes sent again are the same writes, none of them ruled on.
LEMMA SentAgain ==
    ASSUME TypeOK, LoseResult \/ Kill
    PROVE  /\ UNCHANGED <<pressed, told>> /\ reading' \subseteq reading
           /\ DOMAIN saving' = DOMAIN saving
           /\ \A k \in DOMAIN saving : /\ saving'[k].post = saving[k].post
                                       /\ saving'[k].document = saving[k].document
                                       /\ saving'[k].status = "queued"
<1>1. CASE LoseResult
  <2>1. /\ UNCHANGED <<pressed, told, reading>> /\ saving' = Resent(saving)
        /\ saving \in Seq(Write)
    BY <1>1 DEF LoseResult, blockVars, TypeOK
  <2> QED BY <2>1, ResentTypes
<1>2. CASE Kill
  <2> DEFINE q == [k \in DOMAIN saving |-> [saving[k] EXCEPT !.callback = FALSE]]
  <2>1. /\ UNCHANGED <<pressed, told>> /\ reading' = {} /\ saving' = Resent(q)
    BY <1>2 DEF Kill
  <2>2. /\ q \in Seq(Write) /\ DOMAIN q = DOMAIN saving
        /\ \A k \in DOMAIN saving : /\ q[k].post = saving[k].post
                                    /\ q[k].document = saving[k].document
    BY OrphanedTypes
  <2> HIDE DEF q
  <2> QED BY <2>1, <2>2, ResentTypes
<1> QED BY <1>1, <1>2
------------------------------------------------------------------------------
(* A post is written once.                                                 *)

\* However the queue changes, as long as it stays the same writes and no
\* result comes to it.
LEMMA OnceKept ==
    ASSUME OnceInv, UNCHANGED <<pressed, posts, told>>, reading' \subseteq reading,
           DOMAIN saving' = DOMAIN saving,
           \A k \in DOMAIN saving :
               /\ saving'[k].post = saving[k].post
               /\ saving'[k].document = saving[k].document
               /\ saving'[k].status \in {saving[k].status, "queued"}
    PROVE  OnceInv'
<1> USE DEF OnceInv
<1>1. WritesAreDistinct'
  BY DEF WritesAreDistinct
<1>2. \A p : Waits(p)' <=> Waits(p)
  BY DEF Waits
<1>3. ReadsAreUnwritten'
  BY <1>2 DEF ReadsAreUnwritten
<1>4. WritesAreTrue'
  BY DEF WritesAreTrue, WriteIsTrue
<1>5. FailuresAreFinal'
  BY <1>2 DEF FailuresAreFinal
<1>6. AlertsAreTrue'
  BY DEF AlertsAreTrue
<1> QED BY <1>1, <1>3, <1>4, <1>5, <1>6

\* A result has been seen, or taken for another one's.
LEMMA OnceSettled ==
    ASSUME TypeOK, OnceInv, saving # <<>>, saving' = Tail(saving),
           NEW alert \in {"success", "failure"}, Tell(alert),
           Head(saving).status = (IF alert = "success" THEN "committed" ELSE "rejected"),
           UNCHANGED <<pressed, reading, posts>>
    PROVE  OnceInv'
<1> USE DEF OnceInv
<1> DEFINE p == Head(saving).post
<1>1. p \in Post /\ told \in [Post -> {"nothing", "success", "failure"}]
  BY TailTypes DEF TypeOK
<1>2. \A k \in DOMAIN saving' : /\ k + 1 \in DOMAIN saving
                                /\ saving'[k] = saving[k + 1]
  BY TailTypes
<1>3. \A q : Waits(q)' => Waits(q)
  BY <1>2 DEF Waits
<1>4. WriteIsTrue(Head(saving))
  BY TailTypes DEF WritesAreTrue
<1>5. posts[p] # Nothing => p \notin Refusable
  BY <1>1 DEF FailuresAreFinal
<1>6. \A q \in Post : told'[q] # told[q] => q = p /\ told'[q] = alert
  BY <1>1 DEF Tell
<1>7. IF alert = "success" THEN posts[p] # Nothing
                           ELSE p \in Refusable /\ posts[p] = Nothing
  BY <1>4, <1>5 DEF WriteIsTrue
<1> HIDE DEF p
<1>8. WritesAreDistinct'
  <2> SUFFICES ASSUME NEW j \in DOMAIN saving', NEW k \in DOMAIN saving',
                      saving'[j].post = saving'[k].post
               PROVE  j = k
    BY DEF WritesAreDistinct
  <2>1. j + 1 = k + 1
    BY <1>2 DEF WritesAreDistinct
  <2>2. j \in Nat /\ k \in Nat
    BY TailTypes
  <2> QED BY <2>1, <2>2
<1>9. ReadsAreUnwritten'
  BY <1>3 DEF ReadsAreUnwritten
<1>10. WritesAreTrue'
  BY <1>2 DEF WritesAreTrue, WriteIsTrue
<1>11. FailuresAreFinal'
  BY <1>3, <1>6, <1>7 DEF FailuresAreFinal
<1>12. AlertsAreTrue'
  BY <1>6, <1>7 DEF AlertsAreTrue
<1> QED BY <1>8, <1>9, <1>10, <1>11, <1>12

\* The server has ruled on the k-th write.
LEMMA OnceRuled ==
    ASSUME TypeOK, OnceInv, NEW k \in DOMAIN saving,
           NEW st \in {"committed", "rejected"}, Rule(k, st),
           IF st = "committed"
           THEN /\ posts' = [posts EXCEPT ![saving[k].post] = saving[k].document]
                /\ saving[k].post \notin Refusable
           ELSE posts' = posts /\ saving[k].post \in Refusable
    PROVE  OnceInv'
<1> USE DEF OnceInv
<1> DEFINE p == saving[k].post
<1>1. /\ p \in Post /\ saving[k].document # Nothing
      /\ posts \in [Post -> Document \union {Nothing}]
  BY WriteTypes, UploadAssumption DEF TypeOK
<1>2. /\ DOMAIN saving' = DOMAIN saving
      /\ \A j \in DOMAIN saving :
            /\ saving'[j].post = saving[j].post
            /\ saving'[j].document = saving[j].document
            /\ saving'[j].status = IF j = k THEN st ELSE saving[j].status
  BY RuledTypes DEF Rule, Status
<1>3. UNCHANGED <<pressed, reading, told>>
  BY DEF Rule, blockVars
<1>4. /\ \A q \in Post : q # p => posts'[q] = posts[q]
      /\ posts'[p] \in {posts[p], saving[k].document}
      /\ st = "committed" => posts'[p] = saving[k].document
  BY <1>1
<1>5. \A q : Waits(q)' <=> Waits(q)
  BY <1>2 DEF Waits
<1>6. Waits(p) /\ p \notin reading
  BY DEF Waits, ReadsAreUnwritten
<1>7. \A j \in DOMAIN saving : j # k => saving[j].post # p
  BY DEF WritesAreDistinct
<1>8. \A j \in DOMAIN saving : saving[j].post \in Post
  BY WriteTypes
<1>9. \/ posts'[p] # Nothing /\ p \notin Refusable
      \/ posts'[p] = posts[p] /\ p \in Refusable
  <2>1. CASE st = "committed"
    BY <1>1, <1>4, <2>1
  <2>2. CASE st = "rejected"
    BY <2>2
  <2> QED BY <2>1, <2>2
<1> HIDE DEF p
<1>10. WritesAreDistinct'
  BY <1>2 DEF WritesAreDistinct
<1>11. ReadsAreUnwritten'
  <2>1. reading \subseteq Post
    BY DEF TypeOK
  <2> QED BY <1>3, <1>4, <1>5, <1>6, <2>1 DEF ReadsAreUnwritten
<1>12. WritesAreTrue'
  <2> SUFFICES ASSUME NEW j \in DOMAIN saving PROVE WriteIsTrue(saving[j])'
    BY <1>2 DEF WritesAreTrue
  <2>1. WriteIsTrue(saving[j])
    BY DEF WritesAreTrue
  <2>2. CASE j = k
    <3>1. posts'[p] # Nothing => posts'[p] = saving[k].document
      BY <1>4, <2>1, <2>2 DEF WriteIsTrue, p
    <3>2. st = "committed" => posts'[p] # Nothing
      BY <1>1, <1>4
    <3>3. st = "rejected" => p \in Refusable
      BY DEF p
    <3> QED BY <1>2, <2>2, <3>1, <3>2, <3>3 DEF WriteIsTrue, p
  <2>3. CASE j # k
    <3>1. posts'[saving[j].post] = posts[saving[j].post]
      BY <1>4, <1>7, <1>8, <2>3
    <3> QED BY <1>2, <2>1, <2>3, <3>1 DEF WriteIsTrue
  <2> QED BY <2>2, <2>3
<1>13. FailuresAreFinal'
  BY <1>3, <1>4, <1>5, <1>6, <1>9 DEF FailuresAreFinal
<1>14. AlertsAreTrue'
  BY <1>3, <1>4, <1>6, <1>9 DEF AlertsAreTrue, FailuresAreFinal
<1> QED BY <1>10, <1>11, <1>12, <1>13, <1>14

LEMMA OnceStep == UploadInv /\ [Next]_vars => OnceInv'
<1> SUFFICES ASSUME TypeOK, PressInv, OnceInv, [Next]_vars PROVE OnceInv'
  BY DEF UploadInv
<1> USE DEF formVars, serverVars, blockVars
<1>0. /\ saving \in Seq(Write) /\ pressed \in [Post -> Pressed \union {Nothing}]
      /\ told \in [Post -> {"nothing", "success", "failure"}]
      /\ reading \subseteq Post
  BY DEF TypeOK
<1>1. ASSUME UNCHANGED <<pressed, posts, told, saving>>, reading' \subseteq reading
      PROVE  OnceInv'
  BY <1>1, OnceKept
<1>2. CASE Form
  BY <1>1, <1>2 DEF Form, EditText, SetPicture, ChangeButton
<1>3. ASSUME NEW p \in Post, UploadPressed(p) PROVE OnceInv'
  <2>1. /\ pressed[p] = Nothing /\ reading' = reading \union {p}
        /\ pressed' = [pressed EXCEPT ![p] = OnScreen]
        /\ UNCHANGED <<saving, posts, told>>
    BY <1>3 DEF UploadPressed
  <2>2. posts[p] = Nothing
    BY <2>1 DEF PressInv, ServedAsPressed, IsAsPressed
  <2>3. ~ Waits(p)
    BY <2>1 DEF PressInv, WritesAsPressed, IsAsPressed, Waits
  <2>4. \A q : Waits(q)' <=> Waits(q)
    BY <2>1 DEF Waits
  <2>5. \A q \in Post : q # p => pressed'[q] = pressed[q]
    BY <1>0, <2>1
  <2>6. WritesAreDistinct' /\ WritesAreTrue' /\ AlertsAreTrue'
    BY <2>1 DEF OnceInv, WritesAreDistinct, WritesAreTrue, WriteIsTrue,
                AlertsAreTrue
  <2>7. ReadsAreUnwritten'
    BY <2>1, <2>2, <2>3, <2>4 DEF OnceInv, ReadsAreUnwritten
  <2>8. FailuresAreFinal'
    BY <2>1, <2>4, <2>5 DEF OnceInv, FailuresAreFinal
  <2> QED BY <2>6, <2>7, <2>8 DEF OnceInv
<1>4. ASSUME NEW p \in Post, StoreMedia(p) \/ FailMedia(p) PROVE OnceInv'
  BY <1>1, <1>4 DEF StoreMedia, FailMedia
<1>5. ASSUME NEW p \in Post, AnswerName(p) PROVE OnceInv'
  <2> DEFINE w == [post |-> p, document |->
                     [text |-> pressed[p].text, mediaID |-> MediaID(p),
                      categories |-> chosenCategories],
                   callback |-> TRUE, status |-> "queued"]
  <2>1. /\ p \in reading /\ saving' = Append(saving, w)
        /\ reading' = reading \ {p}
        /\ UNCHANGED <<pressed, posts, told>>
    BY <1>5 DEF AnswerName, Queue
  <2>2. w.post = p /\ w.status = "queued"
    OBVIOUS
  <2> HIDE DEF w
  <2>3. /\ DOMAIN saving' = DOMAIN saving \union {Len(saving) + 1}
        /\ \A k \in DOMAIN saving : saving'[k] = saving[k]
        /\ saving'[Len(saving) + 1] = w
    BY <1>0, <2>1
  <2>4. posts[p] = Nothing /\ ~ Waits(p)
    BY <2>1 DEF OnceInv, ReadsAreUnwritten
  <2>5. \A q : Waits(q)' => Waits(q) \/ q = p
    BY <2>2, <2>3 DEF Waits
  <2>6. WritesAreDistinct'
    BY <2>2, <2>3, <2>4 DEF OnceInv, WritesAreDistinct, Waits
  <2>7. ReadsAreUnwritten'
    BY <2>1, <2>5 DEF OnceInv, ReadsAreUnwritten
  <2>8. WritesAreTrue'
    BY <2>1, <2>2, <2>3, <2>4 DEF OnceInv, WritesAreTrue, WriteIsTrue
  <2>9. FailuresAreFinal'
    BY <2>1, <2>5 DEF OnceInv, FailuresAreFinal
  <2>10. AlertsAreTrue'
    BY <2>1 DEF OnceInv, AlertsAreTrue
  <2> QED BY <2>6, <2>7, <2>8, <2>9, <2>10 DEF OnceInv
<1>6. ASSUME NEW p \in Post, FailName(p) PROVE OnceInv'
  <2>1. /\ p \in reading /\ reading' = reading \ {p}
        /\ told' = [told EXCEPT ![p] = "failure"]
        /\ UNCHANGED <<pressed, posts, saving>>
    BY <1>6 DEF FailName
  <2>2. /\ told'[p] = "failure"
        /\ \A q \in Post : q # p => told'[q] = told[q]
    BY <1>0, <2>1
  <2>3. posts[p] = Nothing /\ ~ Waits(p) /\ pressed[p] # Nothing
    BY <2>1 DEF OnceInv, ReadsAreUnwritten, PressInv, ReadsArePressed
  <2>4. \A q : Waits(q)' <=> Waits(q)
    BY <2>1 DEF Waits
  <2>5. WritesAreDistinct' /\ WritesAreTrue'
    BY <2>1 DEF OnceInv, WritesAreDistinct, WritesAreTrue, WriteIsTrue
  <2>6. ReadsAreUnwritten'
    BY <2>1, <2>4 DEF OnceInv, ReadsAreUnwritten
  <2>7. FailuresAreFinal'
    BY <2>1, <2>2, <2>3, <2>4 DEF OnceInv, FailuresAreFinal
  <2>8. AlertsAreTrue'
    BY <2>1, <2>2, <2>3 DEF OnceInv, AlertsAreTrue
  <2> QED BY <2>5, <2>6, <2>7, <2>8 DEF OnceInv
<1>7. ASSUME NEW k \in DOMAIN saving, RefusePost(k) PROVE OnceInv'
  BY <1>7, OnceRuled DEF RefusePost
<1>8. ASSUME NEW k \in DOMAIN saving, CommitPost(k) PROVE OnceInv'
  BY <1>8, OnceRuled DEF CommitPost
<1>9. CASE LoseResult \/ Kill
  BY <1>9, SentAgain, OnceKept DEF LoseResult, Kill
<1>10. CASE SettlePosted
  <2>1. /\ saving # <<>> /\ saving' = Tail(saving) /\ Tell("success")
        /\ Head(saving).status = "committed"
        /\ UNCHANGED <<pressed, reading, posts>>
    BY <1>10 DEF SettlePosted, HasResultOf, HasResult
  <2> QED BY <2>1, OnceSettled
<1>11. CASE SettleRefused
  <2>1. /\ saving # <<>> /\ saving' = Tail(saving) /\ Tell("failure")
        /\ Head(saving).status = "rejected"
        /\ UNCHANGED <<pressed, reading, posts>>
    BY <1>11 DEF SettleRefused, HasResultOf, HasResult
  <2> QED BY <2>1, OnceSettled
<1>12. CASE Launch \/ UNCHANGED vars
  BY <1>1, <1>12 DEF Launch, vars
<1> QED BY <1>2, <1>3, <1>4, <1>5, <1>6, <1>7, <1>8, <1>9, <1>10, <1>11, <1>12
        DEF Next, OnPhone, Sending, Settling

LEMMA UploadInvariant == Spec => []UploadInv
<1>1. Init => UploadInv
  <2> SUFFICES ASSUME Init PROVE UploadInv
    OBVIOUS
  <2>1. TypeOK
    BY InitType
  <2>2. /\ \A p \in Post : /\ pressed[p] = Nothing /\ posts[p] = Nothing
                           /\ media[p] = Nothing /\ told[p] = "nothing"
        /\ reading = {} /\ uploading = {} /\ DOMAIN saving = {}
    BY DEF Init
  <2>3. PressInv
    BY <2>2 DEF PressInv, PressesAreValid, ReadsArePressed, UploadsArePressed,
                WritesAsPressed, ServedAsPressed
  <2>4. OnceInv
    BY <2>2 DEF OnceInv, WritesAreDistinct, ReadsAreUnwritten, WritesAreTrue,
                FailuresAreFinal, AlertsAreTrue
  <2> QED BY <2>1, <2>3, <2>4 DEF UploadInv
<1>2. UploadInv /\ [Next]_vars => UploadInv'
  BY NextType, PressStep, OnceStep DEF UploadInv
<1> QED BY <1>1, <1>2, PTL DEF Spec

\* Every reachable state of the upload screen is well typed.
THEOREM UploadTypeCorrect == Spec => []TypeOK
<1>1. UploadInv => TypeOK
  BY DEF UploadInv
<1> QED BY <1>1, UploadInvariant, PTL

\* A post on the server has the text and the picture its author saw when
\* pressing Upload, and is not empty, whatever has become of the form since.
THEOREM PostsAreAsPressed == Spec => []PostedAsPressed
<1>1. UploadInv => PostedAsPressed
  <2> SUFFICES ASSUME UploadInv, NEW p \in Post, posts[p] # Nothing
               PROVE  /\ pressed[p] # Nothing
                      /\ pressed[p].text # Blank \/ pressed[p].picture # Placeholder
                      /\ posts[p].text = pressed[p].text
                      /\ posts[p].mediaID = p <=> pressed[p].picture # Placeholder
                      /\ media[p] \in {Nothing, pressed[p].picture}
    BY DEF PostedAsPressed
  <2>1. IsAsPressed(p, posts[p]) /\ media[p] \in {Nothing, pressed[p].picture}
    BY DEF UploadInv, PressInv, ServedAsPressed
  <2>2. posts[p].mediaID = p <=> pressed[p].picture # Placeholder
    BY <2>1, UploadAssumption DEF IsAsPressed, MediaID
  <2>3. pressed[p].text # Blank \/ pressed[p].picture # Placeholder
    BY <2>1 DEF IsAsPressed, UploadInv, PressInv, PressesAreValid
  <2> QED BY <2>1, <2>2, <2>3 DEF IsAsPressed
<1> QED BY <1>1, UploadInvariant, PTL

\* So has it the categories, unless they were touched, or the form cleared,
\* while the author's name was being read.
THEOREM CategoriesAreAsPressed == Spec => []CategoriesAsPressed
<1>1. UploadInv => CategoriesAsPressed
  BY DEF UploadInv, PressInv, ServedAsPressed, PressesAreValid, IsAsPressed,
         CategoriesAsPressed
<1> QED BY <1>1, UploadInvariant, PTL

\* What the author is told of a post is so, however often its write was sent.
THEOREM AlertsTellTheTruth == Spec => []AlertsAreTrue
<1>1. UploadInv => AlertsAreTrue
  BY DEF UploadInv, OnceInv
<1> QED BY <1>1, UploadInvariant, PTL

\* The server writes a post once; written again, it stays as it was.
THEOREM PostsDoNotChange == Spec => PostsAreFinal
<1>1. UploadInv /\ [Next]_vars =>
         [\A p \in Post : posts[p] # Nothing => posts'[p] = posts[p]]_vars
  <2> SUFFICES ASSUME UploadInv, [Next]_vars, NEW p \in Post, posts[p] # Nothing
               PROVE  posts'[p] = posts[p]
    OBVIOUS
  <2>1. ASSUME NEW k \in DOMAIN saving, CommitPost(k)
        PROVE  posts'[p] = posts[p]
    BY <2>1 DEF CommitPost, UploadInv, TypeOK, OnceInv, WritesAreTrue, WriteIsTrue
  <2>2. CASE UNCHANGED vars \/ OnPhone
    BY <2>2 DEF vars, serverVars, OnPhone, Form, EditText, SetPicture,
                ChangeButton, Sending, UploadPressed, StoreMedia, FailMedia,
                AnswerName, Queue, FailName, Settling, RefusePost, LoseResult,
                SettlePosted, SettleRefused, Kill, Launch
  <2> QED BY <2>1, <2>2 DEF Next
<1> QED BY <1>1, UploadInvariant, PTL DEF Spec, PostsAreFinal
------------------------------------------------------------------------------
LEMMA ButtonsStep ==
    TypeOK /\ ButtonsMatchCategories /\ [Next]_vars => ButtonsMatchCategories'
<1> SUFFICES ASSUME TypeOK, ButtonsMatchCategories, [Next]_vars
             PROVE  ButtonsMatchCategories'
  OBVIOUS
<1> USE DEF ButtonsMatchCategories
<1>1. ASSUME NEW c \in Category, ChangeButton(c) PROVE ButtonsMatchCategories'
  <2>1. CASE c \in isSelected
    <3>1. /\ isSelected' = isSelected \ {c}
          /\ chosenCategories' = [chosenCategories EXCEPT ![c] = 0]
      BY <1>1, <2>1 DEF ChangeButton
    <3> QED BY <3>1
  <2>2. CASE c \notin isSelected
    <3>1. /\ isSelected' = isSelected \union {c}
          /\ chosenCategories' = [chosenCategories EXCEPT ![c] = 0 + 1]
      BY <1>1, <2>2 DEF ChangeButton
    <3> QED BY <3>1
  <2> QED BY <2>1, <2>2
<1>2. ASSUME UNCHANGED <<isSelected, chosenCategories>>
      PROVE  ButtonsMatchCategories'
  BY <1>2
<1>3. ASSUME isSelected' = {}, chosenCategories' = NoCategory
      PROVE  ButtonsMatchCategories'
  BY <1>3 DEF NoCategory
<1> HIDE DEF ButtonsMatchCategories
<1> USE DEF formVars
<1>4. CASE SettlePosted \/ Kill
  BY <1>2, <1>3, <1>4 DEF SettlePosted, Kill
<1>5. CASE Form
  BY <1>1, <1>2, <1>5 DEF Form, EditText, SetPicture
<1>6. CASE Sending
  BY <1>2, <1>6 DEF Sending, UploadPressed, StoreMedia, FailMedia, AnswerName,
                    Queue, FailName
<1>7. ASSUME \/ \E k \in DOMAIN saving : RefusePost(k) \/ CommitPost(k)
             \/ LoseResult \/ SettleRefused \/ Launch \/ UNCHANGED vars
      PROVE  ButtonsMatchCategories'
  BY <1>2, <1>7 DEF RefusePost, CommitPost, Rule, LoseResult, SettleRefused,
                    Launch, vars
<1> QED BY <1>4, <1>5, <1>6, <1>7 DEF Next, OnPhone, Settling

\* The buttons always show the categories that would be sent, each once.
THEOREM ButtonsShowCategories == Spec => []ButtonsMatchCategories
<1>1. Init => ButtonsMatchCategories
  BY DEF Init, ButtonsMatchCategories, NoCategory
<1>2. TypeOK /\ ButtonsMatchCategories /\ [Next]_vars => ButtonsMatchCategories'
  BY ButtonsStep
<1> QED BY <1>1, <1>2, UploadTypeCorrect, PTL DEF Spec
==============================================================================
