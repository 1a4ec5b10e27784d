------------------------------- MODULE Comments -------------------------------
(***************************************************************************)
(* The comments on one post (CommentsViewController) on one phone.         *)
(*                                                                         *)
(* A listener, added when the screen opens and never removed, is told of   *)
(* every change to the newest approved comments and fills the table anew   *)
(* each time.  A press on Send reads the author's name; the answer queues  *)
(* the comment and clears the text field, whatever it says by then.        *)
(*                                                                         *)
(* The comment is sent again when the phone has missed the result of its   *)
(* write, and is then pending again, whatever moderators have made of it.  *)
(* Other phones' comments and all moderators take the steps of             *)
(* ItemLifecycle.  Comments are numbers, by the "time" they are sorted by. *)
(***************************************************************************)
EXTENDS WriteQueue, FiniteSets, SequencesExt

CONSTANTS
    Comment,            \* comments on the post, by their time stamp
    Own,                \* those written on this phone
    Text,               \* what a comment can say
    Blank,              \* nothing but whitespace; nothing at all
    PageSize,           \* .limit(to: 20)
    Refusable,          \* the comments the server's rules may refuse
    MaxInFlight         \* bound: snapshots waiting to be shown

ASSUME CommentAssumption ==
    /\ Comment \subseteq Nat /\ Own \subseteq Comment /\ Refusable \subseteq Own
    /\ Blank \notin Text /\ PageSize \in Nat \ {0}

VARIABLES
    docs, approvals, denials,   \* the server and the moderators
    messages,   \* the server: what the comments of this phone say
    field,      \* commentTextField
    pressed,    \* pressed[c]: what the field said when c was sent
    reading,    \* comments whose author's name is being read
    saving,     \* the client's queue of setData writes
    told,       \* told[c]: the last alert about c
    seen,       \* the documents as the listen stream has delivered them
    listening,  \* is the listener still told of changes?
    raised,     \* the last list the listener was given
    snapshots,  \* lists waiting to be shown
    shown,      \* commentsToShow
    typed,      \* history: the text entered last
    hurried     \* history: it was typed while a name was being read

moderation == <<docs, approvals, denials>>
listenVars == <<seen, listening, raised, snapshots, shown>>
fieldVars == <<field, typed, hurried>>
sendVars == <<pressed, reading, told>>
vars == <<moderation, messages, fieldVars, sendVars, saving, listenVars>>

Lifecycle == INSTANCE ItemLifecycle WITH Item <- Comment

Write == [comment : Own, message : Text, callback : BOOLEAN, status : Status]

Init ==
    /\ Lifecycle!Init
    /\ messages = [c \in Own |-> Blank]
    /\ field = Blank /\ typed = Blank /\ hurried = FALSE
    /\ pressed = [c \in Own |-> Blank] /\ reading = {}
    /\ told = [c \in Own |-> "nothing"]
    /\ saving = <<>>
    /\ seen = docs /\ listening = TRUE
    /\ raised = <<>> /\ snapshots = <<>> /\ shown = <<>>
------------------------------------------------------------------------------
(* Moderators, and the authors of other comments.                          *)

World ==
    /\ Lifecycle!Next
    /\ \A c \in Own : docs[c] = "absent" => docs'[c] = "absent"
    /\ UNCHANGED <<messages, fieldVars, sendVars, saving, listenVars>>
------------------------------------------------------------------------------
(* Writing a comment.                                                      *)

EditText(t) ==
    /\ field' = t
    /\ typed' = t
    /\ hurried' = (reading # {})
    /\ UNCHANGED <<moderation, messages, sendVars, saving, listenVars>>

\* An empty comment only gets an alert.
SendCommentPressed(c) ==
    /\ field # Blank
    /\ pressed[c] = Blank
    /\ pressed' = [pressed EXCEPT ![c] = field]
    /\ reading' = reading \union {c}
    /\ UNCHANGED <<moderation, messages, fieldVars, told, saving, listenVars>>

Queue(c, message) ==
    /\ reading' = reading \ {c}
    /\ saving' = Append(saving, [comment |-> c, message |-> message,
                                 callback |-> TRUE, status |-> "queued"])
    /\ UNCHANGED <<moderation, messages, typed, hurried, pressed, told,
                   listenVars>>

\* The comment is the text of the press; the field is cleared without asking
\* what it says now, or whether the comment will be written.
AnswerName(c) ==
    /\ c \in reading
    /\ Queue(c, pressed[c])
    /\ field' = Blank

\* Slip: the field is cleared all the same.
FailNameClearing(c) ==
    /\ c \in reading
    /\ reading' = reading \ {c}
    /\ told' = [told EXCEPT ![c] = "unknown user"]
    /\ field' = Blank
    /\ UNCHANGED <<moderation, messages, typed, hurried, pressed, saving,
                   listenVars>>

\* "User information could not be found.": the text stays in the field.
FailName(c) ==
    /\ c \in reading
    /\ reading' = reading \ {c}
    /\ told' = [told EXCEPT ![c] = "unknown user"]
    /\ UNCHANGED <<moderation, messages, fieldVars, pressed, saving, listenVars>>
------------------------------------------------------------------------------
(* The Firestore client and the server: writing.                           *)

Rule(k, status) ==
    /\ IsNext(saving, k)
    /\ saving' = Ruled(saving, k, status)
    /\ UNCHANGED <<approvals, denials, fieldVars, sendVars, listenVars>>

CommitComment(k) ==
    /\ Rule(k, "committed")
    /\ docs' = [docs EXCEPT ![saving[k].comment] = "pending"]
    /\ messages' = [messages EXCEPT ![saving[k].comment] = saving[k].message]

RefuseComment(k) ==
    /\ Rule(k, "rejected")
    /\ saving[k].comment \in Refusable
    /\ UNCHANGED <<docs, messages>>

LoseResult ==
    /\ HasResult(saving)
    /\ saving' = Resent(saving)
    /\ UNCHANGED <<moderation, messages, fieldVars, sendVars, listenVars>>

\* Only an error is told; the client takes its own write for the newest word
\* on the comment, unless the listen stream has brought it a newer one.
Settle ==
    LET write == Head(saving) IN
    /\ HasResult(saving)
    /\ saving' = Tail(saving)
    /\ \/ /\ write.status = "rejected"
          /\ told' = IF write.callback
                     THEN [told EXCEPT ![write.comment] = "not posted"] ELSE told
          /\ UNCHANGED seen
       \/ /\ write.status = "committed"
          /\ seen' \in {seen, [seen EXCEPT ![write.comment] = "pending"]}
          /\ UNCHANGED told
    /\ UNCHANGED <<moderation, messages, fieldVars, pressed, reading, listening,
                   raised, snapshots, shown>>
------------------------------------------------------------------------------
(* Listening.                                                              *)

\* The first n of S, newest first.
Newest(S, n) == {c \in S : Cardinality({d \in S : d > c}) < n}

\* Slip: whereField("approved", isEqualTo: true) is missing.
VisibleUnfiltered ==
    {c \in Comment : seen[c] \in {"pending", "approved"}}

\* A comment of this phone that is still to be acknowledged is pending here.
Visible ==
    {c \in Comment : seen[c] = "approved"}
        \ {saving[k].comment : k \in DOMAIN saving}

Descending(list) == \A j, k \in DOMAIN list : j < k => list[j] > list[k]

\* What the listener is to be told of: the newest comments, in order.
IsNewest(list) ==
    /\ ToSet(list) = Newest(Visible, PageSize)
    /\ Descending(list)

Lists == {list \in BoundedSeq(Visible, PageSize) : IsNewest(list)}

\* The listen stream brings the client up to date, when it is connected.
Receive ==
    /\ listening
    /\ seen # docs
    /\ seen' = docs
    /\ UNCHANGED <<moderation, messages, fieldVars, sendVars, saving, listening,
                   raised, snapshots, shown>>

\* Slip: while a list waits to be shown, another is dropped.
RaiseDropping ==
    /\ listening
    /\ \E list \in Lists \ {raised} :
        /\ snapshots' = IF snapshots = <<>> THEN <<list>> ELSE snapshots
        /\ raised' = list
    /\ UNCHANGED <<moderation, messages, fieldVars, sendVars, saving, seen,
                   listening, shown>>

\* The listener is given the whole list, whenever it is not what it was.
Raise ==
    /\ listening
    /\ Len(snapshots) < MaxInFlight
    /\ \E list \in Lists \ {raised} :
        /\ snapshots' = Append(snapshots, list)
        /\ raised' = list
    /\ UNCHANGED <<moderation, messages, fieldVars, sendVars, saving, seen,
                   listening, shown>>

\* Slip: the rows are not cleared before the list's are appended.
ShowSnapshotBelow ==
    /\ snapshots # <<>>
    /\ shown' = shown \o Head(snapshots)
    /\ snapshots' = Tail(snapshots)
    /\ UNCHANGED <<moderation, messages, fieldVars, sendVars, saving, seen,
                   listening, raised>>

ShowSnapshot ==
    /\ snapshots # <<>>
    /\ shown' = Head(snapshots)
    /\ snapshots' = Tail(snapshots)
    /\ UNCHANGED <<moderation, messages, fieldVars, sendVars, saving, seen,
                   listening, raised>>

\* "Error getting documents": a listener that was given an error is given
\* nothing more, and the screen does not add another.
FailListen ==
    /\ listening
    /\ listening' = FALSE
    /\ UNCHANGED <<moderation, messages, fieldVars, sendVars, saving, seen,
                   raised, snapshots, shown>>
------------------------------------------------------------------------------
\* Slip: the client's queue of writes is kept in memory only.
ReopenAfresh ==
    /\ saving' = <<>>
    /\ field' = Blank /\ typed' = Blank /\ hurried' = FALSE
    /\ reading' = {}
    /\ listening' = TRUE /\ raised' = <<>> /\ snapshots' = <<>> /\ shown' = <<>>
    /\ UNCHANGED <<moderation, messages, pressed, told, seen>>

\* The app is killed, and the screen opened again: a new listener, an empty
\* table, which the client's cache fills first.
Reopen ==
    /\ saving' = Resent([k \in DOMAIN saving |->
                            [saving[k] EXCEPT !.callback = FALSE]])
    /\ field' = Blank /\ typed' = Blank /\ hurried' = FALSE
    /\ reading' = {}
    /\ listening' = TRUE /\ raised' = <<>> /\ snapshots' = <<>> /\ shown' = <<>>
    /\ UNCHANGED <<moderation, messages, pressed, told, seen>>

Writing ==
    \/ \E t \in Text \union {Blank} : EditText(t)
    \/ \E c \in Own : SendCommentPressed(c) \/ AnswerName(c) \/ FailName(c)
    \/ \E k \in DOMAIN saving : CommitComment(k) \/ RefuseComment(k)
    \/ LoseResult
    \/ Settle

Listening == Receive \/ Raise \/ ShowSnapshot \/ FailListen

Next == World \/ Writing \/ Listening \/ Reopen

Spec == Init /\ [][Next]_vars

\* The write and the listen stream are reopened until they serve; the main
\* queue is served.
Fairness ==
    /\ SF_vars(\E k \in DOMAIN saving : CommitComment(k) \/ RefuseComment(k))
    /\ SF_vars(Settle)
    /\ SF_vars(Receive)
    /\ WF_vars(Raise)
    /\ WF_vars(ShowSnapshot)

LiveSpec == Spec /\ Fairness
------------------------------------------------------------------------------
(* Properties.                                                             *)

WritingTypes ==
    /\ messages \in [Own -> Text \union {Blank}]
    /\ field \in Text \union {Blank} /\ typed \in Text \union {Blank}
    /\ hurried \in BOOLEAN
    /\ pressed \in [Own -> Text \union {Blank}]
    /\ reading \subseteq Own
    /\ told \in [Own -> {"nothing", "unknown user", "not posted"}]
    /\ saving \in Seq(Write)

ListeningTypes ==
    /\ docs \in [Comment -> Lifecycle!DocState]
    /\ approvals \subseteq Comment /\ denials \subseteq Comment
    /\ seen \in [Comment -> Lifecycle!DocState]
    /\ listening \in BOOLEAN
    /\ raised \in Seq(Comment) /\ snapshots \in Seq(Seq(Comment))
    /\ shown \in Seq(Comment)

TypeOK == WritingTypes /\ ListeningTypes

Moderated(list) ==
    /\ ToSet(list) \subseteq approvals
    /\ Descending(list)
    /\ Len(list) <= PageSize

\* The table is one list, newest first, of comments moderators have approved,
\* even while comments of this phone are set back to pending by writes sent
\* twice, and lists wait to be shown.  (And every variable keeps its type.)
TableIsModerated == TypeOK /\ Moderated(shown)

\* Text entered while no name is being read stays in the field until it has
\* been sent, unknown users, refused comments and second presses
\* notwithstanding; and what is sent is what was pressed.
NoTextIsLost ==
    /\ \/ field = typed
       \/ hurried
       \/ \E c \in Own : /\ pressed[c] = typed
                         /\ c \notin reading /\ told[c] # "unknown user"
    /\ \A c \in Own : messages[c] \in {Blank, pressed[c]}

\* A comment whose author was found gets to the server, which takes it or
\* refuses it, whatever connections and restarts do.
CommentsArrive ==
    \A c \in Own :
        (\E k \in DOMAIN saving : saving[k].comment = c)
            ~> \/ docs[c] # "absent"
               \/ \E k \in DOMAIN saving : /\ saving[k].comment = c
                                          /\ saving[k].status = "rejected"

\* When the moderators leave it at that, the listener brings the table up to
\* date, if it was not given an error and the app is not killed for ever.
TableCatchesUp ==
    <>[]listening /\ <>[][docs' = docs /\ ~ Reopen]_vars
        => <>[](ToSet(shown) =
                    Newest({c \in Comment : docs[c] = "approved"}, PageSize))
------------------------------------------------------------------------------
(* The inductive invariants behind the theorems of Comments_proofs.        *)

\* What the field says has been typed, or is gone; and of a text typed while
\* no name was being read, only one press can be waiting for the name.
FieldIsTyped ==
    /\ field \in {typed, Blank}
    /\ \A c \in reading : ~ hurried => pressed[c] = typed

PressesAreNamed ==
    /\ \A c \in reading : pressed[c] # Blank /\ told[c] # "unknown user"
    /\ \A c \in Own : pressed[c] = Blank => told[c] # "unknown user"

WritesAsPressed ==
    \A k \in DOMAIN saving :
        /\ saving[k].message = pressed[saving[k].comment]
        /\ pressed[saving[k].comment] # Blank

TextInv ==
    /\ WritingTypes
    /\ FieldIsTyped
    /\ PressesAreNamed
    /\ WritesAsPressed
    /\ NoTextIsLost

\* Nothing is approved here, or on the server, that no moderator asked to
\* approve; and so it is with every list on its way to the table.
TableInv ==
    /\ ListeningTypes
    /\ \A c \in Comment : "approved" \in {docs[c], seen[c]} => c \in approvals
    /\ Moderated(shown)
    /\ \A k \in DOMAIN snapshots : Moderated(snapshots[k])
==============================================================================
