---------------------------- MODULE Comments_proofs ----------------------------
(***************************************************************************)
(* Proofs about the comments on a post, for every set of comments and      *)
(* texts, every choice of the comments the server may refuse, pages of any *)
(* size, and queues of writes and of snapshots of any length.              *)
(***************************************************************************)
EXTENDS Comments, QueueLemmas, TLAPS

LEMMA WriteTypes ==
    ASSUME WritingTypes, NEW k \in DOMAIN saving
    PROVE  /\ saving[k] \in Write /\ saving[k].comment \in Own
           /\ saving[k].message \in Text
<1>1. saving \in Seq(Write)
  BY DEF WritingTypes
<1>2. saving[k] \in Write
  BY <1>1
<1> QED BY <1>2 DEF Write

\* The same writes, ruled on, sent again, or without their blocks.
LEMMA RuledWrites ==
    ASSUME WritingTypes, NEW k \in DOMAIN saving, NEW st \in Status
    PROVE  /\ Ruled(saving, k, st) \in Seq(Write)
           /\ DOMAIN Ruled(saving, k, st) = DOMAIN saving
           /\ \A j \in DOMAIN saving :
                 /\ Ruled(saving, k, st)[j].comment = saving[j].comment
                 /\ Ruled(saving, k, st)[j].message = saving[j].message
<1> DEFINE w == [saving[k] EXCEPT !.status = st]
<1>1. saving \in Seq(Write)
  BY DEF WritingTypes
<1>2. /\ w \in Write /\ w.comment = saving[k].comment
      /\ w.message = saving[k].message
  BY WriteTypes DEF Write
<1>3. /\ Ruled(saving, k, st) \in Seq(Write)
      /\ DOMAIN Ruled(saving, k, st) = DOMAIN saving
      /\ Ruled(saving, k, st)[k] = w
      /\ \A j \in DOMAIN saving : j # k => Ruled(saving, k, st)[j] = saving[j]
  BY <1>1, <1>2, RuledProperties
<1> HIDE DEF w
<1> QED BY <1>2, <1>3

LEMMA ResentWrites ==
    ASSUME NEW q \in Seq(Write)
    PROVE  /\ Resent(q) \in Seq(Write)
           /\ DOMAIN Resent(q) = DOMAIN q
           /\ \A k \in DOMAIN q : /\ Resent(q)[k].comment = q[k].comment
                                  /\ Resent(q)[k].message = q[k].message
<1>1. \A w \in Write : /\ [w EXCEPT !.status = "queued"] \in Write
                       /\ [w EXCEPT !.status = "queued"].comment = w.comment
                       /\ [w EXCEPT !.status = "queued"].message = w.message
  BY DEF Write, Status
<1>2. /\ Resent(q) \in Seq(Write) /\ DOMAIN Resent(q) = DOMAIN q
      /\ \A k \in DOMAIN q : Resent(q)[k] = [q[k] EXCEPT !.status = "queued"]
  BY <1>1, ResentProperties
<1> SUFFICES ASSUME NEW k \in DOMAIN q
             PROVE  /\ Resent(q)[k].comment = q[k].comment
                    /\ Resent(q)[k].message = q[k].message
  BY <1>2
<1>3. q[k] \in Write /\ Resent(q)[k] = [q[k] EXCEPT !.status = "queued"]
  BY <1>2
<1> QED BY <1>1, <1>3, Zenon

LEMMA OrphanedWrites ==
    ASSUME WritingTypes, NEW q,
           q = [k \in DOMAIN saving |-> [saving[k] EXCEPT !.callback = FALSE]]
    PROVE  /\ q \in Seq(Write)
           /\ DOMAIN q = DOMAIN saving
           /\ \A k \in DOMAIN saving : /\ q[k].comment = saving[k].comment
                                       /\ q[k].message = saving[k].message
<1>1. saving \in Seq(Write)
  BY DEF WritingTypes
<1>2. \A k \in DOMAIN saving :
         /\ [saving[k] EXCEPT !.callback = FALSE] \in Write
         /\ [saving[k] EXCEPT !.callback = FALSE].comment = saving[k].comment
         /\ [saving[k] EXCEPT !.callback = FALSE].message = saving[k].message
  BY WriteTypes DEF Write
<1>3. DOMAIN saving = 1 .. Len(saving) /\ Len(saving) \in Nat
  BY <1>1
<1>4. /\ DOMAIN q = DOMAIN saving
      /\ \A k \in DOMAIN saving : q[k] = [saving[k] EXCEPT !.callback = FALSE]
  OBVIOUS
<1>5. q \in [1 .. Len(saving) -> Write]
  BY <1>2, <1>3, Zenon
<1>6. q \in Seq(Write)
  BY <1>3, <1>5
<1> QED BY <1>2, <1>4, <1>6

\* A step after which the queue holds no write that is new.
LEMMA QueueKept ==
    ASSUME WritesAsPressed, UNCHANGED pressed,
           \A k \in DOMAIN saving' : \E j \in DOMAIN saving :
               /\ saving'[k].comment = saving[j].comment
               /\ saving'[k].message = saving[j].message
    PROVE  WritesAsPressed'
  BY DEF WritesAsPressed
------------------------------------------------------------------------------
LEMMA InitText == Init => TextInv
<1> SUFFICES ASSUME Init PROVE TextInv
  OBVIOUS
<1>1. <<>> \in Seq(Write)
  OBVIOUS
<1>2. WritingTypes
  BY <1>1 DEF Init, WritingTypes
<1>3. DOMAIN saving = {}
  BY DEF Init
<1> QED BY <1>2, <1>3 DEF Init, TextInv, FieldIsTyped, PressesAreNamed,
                          WritesAsPressed, NoTextIsLost

LEMMA TextStep == TextInv /\ [Next]_vars => TextInv'
<1> SUFFICES ASSUME TextInv, [Next]_vars PROVE TextInv'
  OBVIOUS
<1> USE DEF moderation, listenVars, fieldVars, sendVars
<1>0. /\ WritingTypes /\ saving \in Seq(Write)
      /\ pressed \in [Own -> Text \union {Blank}]
      /\ told \in [Own -> {"nothing", "unknown user", "not posted"}]
      /\ messages \in [Own -> Text \union {Blank}]
  BY DEF TextInv, WritingTypes
<1>1. ASSUME UNCHANGED <<messages, fieldVars, sendVars>>,
             saving' \in Seq(Write),
             \A k \in DOMAIN saving' : \E j \in DOMAIN saving :
                 /\ saving'[k].comment = saving[j].comment
                 /\ saving'[k].message = saving[j].message
      PROVE  TextInv'
  <2>1. WritesAsPressed'
    BY <1>1, QueueKept DEF TextInv
  <2> QED BY <1>1, <2>1 DEF TextInv, WritingTypes, FieldIsTyped,
                            PressesAreNamed, NoTextIsLost
<1>2. ASSUME UNCHANGED <<messages, fieldVars, sendVars, saving>> PROVE TextInv'
  BY <1>0, <1>1, <1>2
<1>3. ASSUME NEW t \in Text \union {Blank}, EditText(t) PROVE TextInv'
  <2>1. /\ field' = t /\ typed' = t /\ hurried' = (reading # {})
        /\ UNCHANGED <<messages, pressed, reading, told, saving>>
    BY <1>3 DEF EditText
  <2>2. WritesAsPressed'
    BY <2>1, QueueKept DEF TextInv
  <2>3. hurried' \in BOOLEAN
    BY <2>1
  <2>4. WritingTypes'
    BY <1>0, <2>1, <2>3 DEF WritingTypes
  <2>5. FieldIsTyped'
    BY <2>1 DEF FieldIsTyped
  <2>6. PressesAreNamed' /\ NoTextIsLost'
    BY <2>1 DEF TextInv, PressesAreNamed, NoTextIsLost
  <2> QED BY <2>2, <2>4, <2>5, <2>6 DEF TextInv
<1>4. ASSUME NEW c \in Own, SendCommentPressed(c) PROVE TextInv'
  <2>1. /\ field # Blank /\ pressed[c] = Blank
        /\ pressed' = [pressed EXCEPT ![c] = field]
        /\ reading' = reading \union {c}
        /\ UNCHANGED <<messages, fieldVars, told, saving>>
    BY <1>4 DEF SendCommentPressed
  <2>2. field = typed
    BY <2>1 DEF TextInv, FieldIsTyped
  <2>3. /\ pressed'[c] = field
        /\ \A d \in Own : d # c => pressed'[d] = pressed[d]
    BY <1>0, <2>1
  <2>4. WritingTypes'
    BY <1>0, <2>1 DEF WritingTypes
  <2>5. FieldIsTyped'
    BY <1>0, <2>1, <2>2, <2>3 DEF TextInv, FieldIsTyped, WritingTypes
  <2>6. PressesAreNamed'
    BY <1>0, <2>1, <2>3 DEF TextInv, PressesAreNamed, WritingTypes
  <2>7. WritesAsPressed'
    BY <1>0, <2>1, <2>3, WriteTypes DEF TextInv, WritesAsPressed
  <2>8. NoTextIsLost'
    BY <2>1, <2>2, <2>3 DEF TextInv, NoTextIsLost
  <2> QED BY <2>4, <2>5, <2>6, <2>7, <2>8 DEF TextInv
<1>5. ASSUME NEW c \in Own, AnswerName(c) PROVE TextInv'
  <2> DEFINE w == [comment |-> c, message |-> pressed[c],
                   callback |-> TRUE, status |-> "queued"]
  <2>1. /\ c \in reading /\ reading' = reading \ {c} /\ field' = Blank
        /\ saving' = Append(saving, w)
        /\ UNCHANGED <<messages, typed, hurried, pressed, told>>
    BY <1>5 DEF AnswerName, Queue
  <2>2. pressed[c] # Blank /\ told[c] # "unknown user" /\
        (~ hurried => pressed[c] = typed)
    BY <2>1 DEF TextInv, PressesAreNamed, FieldIsTyped
  <2>3. w \in Write /\ w.comment = c /\ w.message = pressed[c]
    BY <1>0, <2>2 DEF Write, Status
  <2> HIDE DEF w
  <2>4. /\ saving' \in Seq(Write)
        /\ \A k \in DOMAIN saving' :
              \/ k \in DOMAIN saving /\ saving'[k] = saving[k]
              \/ saving'[k] = w
    <3>1. w \in Write /\ saving \in Seq(Write) /\ saving' = Append(saving, w)
      BY <1>0, <2>1, <2>3
    <3>2. saving' \in Seq(Write)
      BY <3>1
    <3>3. \A k \in DOMAIN saving' :
              \/ k \in DOMAIN saving /\ saving'[k] = saving[k]
              \/ saving'[k] = w
      BY <3>1
    <3> QED BY <3>2, <3>3
  <2>5. WritingTypes'
    BY <1>0, <2>1, <2>4 DEF WritingTypes
  <2>6. FieldIsTyped' /\ PressesAreNamed'
    BY <2>1 DEF TextInv, FieldIsTyped, PressesAreNamed
  <2>7. WritesAsPressed'
    BY <2>1, <2>2, <2>3, <2>4 DEF TextInv, WritesAsPressed
  <2>8. NoTextIsLost'
    <3>1. \A d \in Own : messages'[d] \in {Blank, pressed'[d]}
      BY <2>1 DEF TextInv, NoTextIsLost
    <3>2. \/ hurried'
          \/ /\ pressed'[c] = typed'
             /\ c \notin reading'
             /\ told'[c] # "unknown user"
      BY <2>1, <2>2
    <3> QED BY <3>1, <3>2 DEF NoTextIsLost
  <2> QED BY <2>5, <2>6, <2>7, <2>8 DEF TextInv
<1>6. ASSUME NEW c \in Own, FailName(c) PROVE TextInv'
  <2>1. /\ c \in reading /\ reading' = reading \ {c}
        /\ told' = [told EXCEPT ![c] = "unknown user"]
        /\ UNCHANGED <<messages, fieldVars, pressed, saving>>
    BY <1>6 DEF FailName
  <2>2. /\ told'[c] = "unknown user"
        /\ \A d \in Own : d # c => told'[d] = told[d]
    BY <1>0, <2>1
  <2>3. WritingTypes'
    BY <1>0, <2>1 DEF WritingTypes
  <2>4. FieldIsTyped'
    BY <2>1 DEF TextInv, FieldIsTyped
  <2>5. PressesAreNamed'
    BY <1>0, <2>1, <2>2 DEF TextInv, PressesAreNamed, WritingTypes
  <2>6. WritesAsPressed'
    BY <2>1, QueueKept DEF TextInv
  <2>7. NoTextIsLost'
    BY <2>1, <2>2 DEF TextInv, NoTextIsLost
  <2> QED BY <2>3, <2>4, <2>5, <2>6, <2>7 DEF TextInv
<1>7. ASSUME NEW k \in DOMAIN saving, NEW st \in Status, Rule(k, st)
      PROVE  /\ UNCHANGED <<fieldVars, sendVars>> /\ saving' \in Seq(Write)
             /\ \A i \in DOMAIN saving' : \E j \in DOMAIN saving :
                   /\ saving'[i].comment = saving[j].comment
                   /\ saving'[i].message = saving[j].message
  BY <1>0, <1>7, RuledWrites DEF Rule
<1>8. ASSUME NEW k \in DOMAIN saving, CommitComment(k) PROVE TextInv'
  <2>1. /\ messages' = [messages EXCEPT ![saving[k].comment] = saving[k].message]
        /\ UNCHANGED <<fieldVars, sendVars>> /\ saving' \in Seq(Write)
        /\ \A i \in DOMAIN saving' : \E j \in DOMAIN saving :
              /\ saving'[i].comment = saving[j].comment
              /\ saving'[i].message = saving[j].message
    BY <1>7, <1>8 DEF CommitComment, Status
  <2>2. saving[k].message \in Text /\ saving[k].comment \in Own
    BY <1>0, WriteTypes
  <2>3. saving[k].message = pressed[saving[k].comment]
    BY DEF TextInv, WritesAsPressed
  <2>4. WritingTypes'
    BY <1>0, <2>1, <2>2 DEF WritingTypes
  <2>5. FieldIsTyped' /\ PressesAreNamed'
    BY <2>1 DEF TextInv, FieldIsTyped, PressesAreNamed
  <2>6. WritesAsPressed'
    BY <2>1, QueueKept DEF TextInv
  <2>7. NoTextIsLost'
    <3>1. \A c \in Own : messages'[c] \in {Blank, pressed[c]}
      BY <1>0, <2>1, <2>2, <2>3 DEF TextInv, NoTextIsLost
    <3> QED BY <2>1, <3>1 DEF TextInv, NoTextIsLost
  <2> QED BY <2>4, <2>5, <2>6, <2>7 DEF TextInv
<1>9. ASSUME NEW k \in DOMAIN saving, RefuseComment(k) PROVE TextInv'
  <2>1. Rule(k, "rejected") /\ UNCHANGED messages
    BY <1>9 DEF RefuseComment
  <2> QED BY <1>1, <1>7, <2>1 DEF Status
<1>10. CASE LoseResult
  <2>1. saving' = Resent(saving) /\ UNCHANGED <<messages, fieldVars, sendVars>>
    BY <1>10 DEF LoseResult
  <2>2. /\ Resent(saving) \in Seq(Write) /\ DOMAIN Resent(saving) = DOMAIN saving
        /\ \A k \in DOMAIN saving :
              /\ Resent(saving)[k].comment = saving[k].comment
              /\ Resent(saving)[k].message = saving[k].message
    BY <1>0, ResentWrites
  <2> QED BY <1>1, <2>1, <2>2
<1>11. CASE Settle
  <2>1. /\ saving # <<>> /\ saving' = Tail(saving)
        /\ UNCHANGED <<messages, fieldVars, pressed, reading>>
    BY <1>11 DEF Settle, HasResult
  <2>2. /\ saving' \in Seq(Write)
        /\ \A k \in DOMAIN saving' : k + 1 \in DOMAIN saving
                                    /\ saving'[k] = saving[k + 1]
    <3>1. saving \in Seq(Write) /\ saving # <<>> /\ saving' = Tail(saving)
      BY <1>0, <2>1
    <3>2. saving' \in Seq(Write)
      BY <3>1
    <3>3. \A k \in DOMAIN saving' : k + 1 \in DOMAIN saving
                                    /\ saving'[k] = saving[k + 1]
      BY <3>1
    <3> QED BY <3>2, <3>3
  <2>3. /\ told' \in [Own -> {"nothing", "unknown user", "not posted"}]
        /\ \A c \in Own : told'[c] \in {told[c], "not posted"}
    BY <1>0, <1>11 DEF Settle
  <2>4. WritingTypes'
    BY <1>0, <2>1, <2>2, <2>3 DEF WritingTypes
  <2>5. FieldIsTyped'
    BY <2>1 DEF TextInv, FieldIsTyped
  <2>6. PressesAreNamed'
    BY <1>0, <2>1, <2>3 DEF TextInv, PressesAreNamed, WritingTypes
  <2>7. WritesAsPressed'
    BY <2>1, <2>2, QueueKept DEF TextInv
  <2>8. NoTextIsLost'
    BY <2>1, <2>3 DEF TextInv, NoTextIsLost
  <2> QED BY <2>4, <2>5, <2>6, <2>7, <2>8 DEF TextInv
<1>12. CASE Reopen
  <2> DEFINE q == [k \in DOMAIN saving |-> [saving[k] EXCEPT !.callback = FALSE]]
  <2>1. /\ saving' = Resent(q) /\ reading' = {}
        /\ field' = Blank /\ typed' = Blank /\ hurried' = FALSE
        /\ UNCHANGED <<messages, pressed, told>>
    BY <1>12 DEF Reopen
  <2>2. /\ q \in Seq(Write) /\ DOMAIN q = DOMAIN saving
        /\ \A k \in DOMAIN saving : /\ q[k].comment = saving[k].comment
                                    /\ q[k].message = saving[k].message
    BY <1>0, OrphanedWrites
  <2> HIDE DEF q
  <2>3. /\ saving' \in Seq(Write) /\ DOMAIN saving' = DOMAIN saving
        /\ \A k \in DOMAIN saving : /\ saving'[k].comment = saving[k].comment
                                    /\ saving'[k].message = saving[k].message
    BY <2>1, <2>2, ResentWrites
  <2>4. WritingTypes'
    BY <1>0, <2>1, <2>3 DEF WritingTypes
  <2>5. FieldIsTyped' /\ PressesAreNamed' /\ NoTextIsLost'
    BY <2>1 DEF TextInv, FieldIsTyped, PressesAreNamed, NoTextIsLost
  <2>6. WritesAsPressed'
    BY <2>1, <2>3, QueueKept DEF TextInv
  <2> QED BY <2>4, <2>5, <2>6 DEF TextInv
<1>13. CASE World \/ Listening \/ UNCHANGED vars
  BY <1>2, <1>13 DEF World, Listening, Receive, Raise, ShowSnapshot, FailListen,
                     vars
<1> QED BY <1>3, <1>4, <1>5, <1>6, <1>8, <1>9, <1>10, <1>11, <1>12, <1>13
        DEF Next, Writing

\* No text is lost by late names, refusals, restarts or second presses, but
\* what was typed while a name was being read; and what a comment says on the
\* server is what the field said when it was sent.
THEOREM TextsAreKept == Spec => []NoTextIsLost
<1>1. Init => TextInv
  BY InitText
<1>2. TextInv /\ [Next]_vars => TextInv'
  BY TextStep
<1>3. TextInv => NoTextIsLost
  BY DEF TextInv
<1> QED BY <1>1, <1>2, <1>3, PTL DEF Spec
------------------------------------------------------------------------------
(* The table.                                                              *)

\* A document that becomes approved is one that a moderator asked to approve,
\* and no such request is forgotten.
LEMMA LifecycleSteps ==
    ASSUME ListeningTypes, Lifecycle!Next
    PROVE  /\ docs' \in [Comment -> Lifecycle!DocState]
           /\ approvals' \subseteq Comment /\ denials' \subseteq Comment
           /\ approvals \subseteq approvals'
           /\ \A c \in Comment :
                 docs'[c] = "approved" => docs[c] = "approved" \/ c \in approvals'
<1> PICK i \in Comment : \/ Lifecycle!Submit(i) \/ Lifecycle!AskApproval(i)
                         \/ Lifecycle!AskRemoval(i) \/ Lifecycle!Approve(i)
                         \/ Lifecycle!Remove(i)
  BY DEF Lifecycle!Next
<1> USE DEF ListeningTypes, Lifecycle!DocState
<1>1. CASE Lifecycle!Submit(i)
  BY <1>1 DEF Lifecycle!Submit
<1>2. CASE Lifecycle!AskApproval(i)
  BY <1>2 DEF Lifecycle!AskApproval
<1>3. CASE Lifecycle!AskRemoval(i)
  BY <1>3 DEF Lifecycle!AskRemoval
<1>4. CASE Lifecycle!Approve(i)
  BY <1>4 DEF Lifecycle!Approve
<1>5. CASE Lifecycle!Remove(i)
  BY <1>5 DEF Lifecycle!Remove
<1> QED BY <1>1, <1>2, <1>3, <1>4, <1>5

\* Whatever the client raises is a list of comments approved here.
LEMMA ListsAreModerated ==
    ASSUME TableInv, NEW list \in Lists
    PROVE  list \in Seq(Comment) /\ Moderated(list)
<1>1. list \in BoundedSeq(Visible, PageSize) /\ Descending(list)
  BY DEF Lists, IsNewest
<1>2. PageSize \in Nat
  BY CommentAssumption
<1>3. list \in Seq(Visible)
  BY <1>1, <1>2, BoundedSeqIsSeq
<1>4. Visible \subseteq approvals /\ Visible \subseteq Comment
  BY DEF Visible, TableInv
<1>5. \A k \in DOMAIN list : list[k] \in Visible
  BY <1>3
<1>6. ToSet(list) \subseteq approvals
  BY <1>4, <1>5, Zenon DEF ToSet
<1>7. list \in Seq(Comment)
  BY <1>3, <1>4
<1>8. Len(list) <= PageSize
  <2>1. PICK m \in 0 .. PageSize : list \in [1 .. m -> Visible]
    BY <1>1 DEF BoundedSeq, SeqOf
  <2>2. m \in Nat /\ m <= PageSize
    BY <1>2
  <2>3. DOMAIN list = 1 .. m
    BY <2>1
  <2>4. Len(list) \in Nat /\ DOMAIN list = 1 .. Len(list)
    BY <1>3
  <2>5. Len(list) = m
    BY <2>2, <2>3, <2>4
  <2> QED BY <2>2, <2>5
<1> QED BY <1>1, <1>6, <1>7, <1>8 DEF Moderated

LEMMA InitTable == Init => TableInv
<1> SUFFICES ASSUME Init PROVE TableInv
  OBVIOUS
<1>1. /\ docs = [c \in Comment |-> "absent"] /\ seen = docs
      /\ approvals = {} /\ denials = {} /\ listening = TRUE
      /\ raised = <<>> /\ snapshots = <<>> /\ shown = <<>>
  BY DEF Init, Lifecycle!Init
<1>2. <<>> \in Seq(Comment) /\ <<>> \in Seq(Seq(Comment))
  OBVIOUS
<1>3. ListeningTypes
  BY <1>1, <1>2 DEF ListeningTypes, Lifecycle!DocState
<1>4. \A c \in Comment : "approved" \notin {docs[c], seen[c]}
  BY <1>1
<1>5. DOMAIN snapshots = {} /\ DOMAIN shown = {} /\ Len(shown) = 0
  BY <1>1
<1>6. Moderated(shown)
  BY <1>5, CommentAssumption DEF Moderated, ToSet, Descending
<1> QED BY <1>3, <1>4, <1>5, <1>6 DEF TableInv

\* What was moderated stays so: no request to approve is forgotten.
LEMMA StaysModerated ==
    ASSUME NEW list, Moderated(list), approvals \subseteq approvals'
    PROVE  /\ ToSet(list) \subseteq approvals'
           /\ Descending(list) /\ Len(list) <= PageSize
  BY DEF Moderated

LEMMA TableStep == TextInv /\ TableInv /\ [Next]_vars => TableInv'
<1> SUFFICES ASSUME TextInv, TableInv, [Next]_vars PROVE TableInv'
  OBVIOUS
<1> USE DEF moderation, listenVars
<1>0. /\ ListeningTypes /\ snapshots \in Seq(Seq(Comment))
      /\ seen \in [Comment -> Lifecycle!DocState] /\ WritingTypes
  BY DEF TableInv, ListeningTypes, TextInv
<1>1. ASSUME UNCHANGED <<moderation, listenVars>> PROVE TableInv'
  BY <1>1 DEF TableInv, ListeningTypes, Moderated, Descending
<1>2. CASE World
  <2>1. Lifecycle!Next /\ UNCHANGED listenVars
    BY <1>2 DEF World
  <2>2. /\ docs' \in [Comment -> Lifecycle!DocState]
        /\ approvals' \subseteq Comment /\ denials' \subseteq Comment
        /\ approvals \subseteq approvals'
        /\ \A c \in Comment :
              docs'[c] = "approved" => docs[c] = "approved" \/ c \in approvals'
    BY <1>0, <2>1, LifecycleSteps
  <2>3. ListeningTypes'
    BY <1>0, <2>1, <2>2 DEF ListeningTypes
  <2>4. \A c \in Comment : "approved" \in {docs'[c], seen'[c]} => c \in approvals'
    BY <2>1, <2>2 DEF TableInv
  <2>5. Moderated(shown)' /\ \A k \in DOMAIN snapshots' : Moderated(snapshots[k])'
    BY <2>1, <2>2, StaysModerated DEF TableInv, Moderated, Descending
  <2> QED BY <2>3, <2>4, <2>5 DEF TableInv
<1>3. ASSUME NEW k \in DOMAIN saving, CommitComment(k) PROVE TableInv'
  <2>1. /\ docs' = [docs EXCEPT ![saving[k].comment] = "pending"]
        /\ UNCHANGED <<approvals, denials, listenVars>>
    BY <1>3 DEF CommitComment, Rule
  <2>2. \A c \in Comment : docs'[c] = "approved" => docs[c] = "approved"
    BY <1>0, <2>1 DEF ListeningTypes
  <2>3. ListeningTypes'
    BY <1>0, <2>1 DEF ListeningTypes, Lifecycle!DocState
  <2>4. \A c \in Comment : "approved" \in {docs'[c], seen'[c]} => c \in approvals'
    BY <2>1, <2>2 DEF TableInv
  <2> QED BY <2>1, <2>3, <2>4 DEF TableInv, Moderated, Descending
<1>4. CASE Settle
  <2>1. /\ UNCHANGED <<moderation, listening, raised, snapshots, shown>>
        /\ seen' \in {seen, [seen EXCEPT ![Head(saving).comment] = "pending"]}
    BY <1>4 DEF Settle
  <2>2. /\ seen' \in [Comment -> Lifecycle!DocState]
        /\ \A c \in Comment : seen'[c] = "approved" => seen[c] = "approved"
    BY <1>0, <2>1 DEF Lifecycle!DocState
  <2>3. ListeningTypes'
    BY <1>0, <2>1, <2>2 DEF ListeningTypes
  <2>4. \A c \in Comment : "approved" \in {docs'[c], seen'[c]} => c \in approvals'
    BY <2>1, <2>2 DEF TableInv
  <2> QED BY <2>1, <2>3, <2>4 DEF TableInv, Moderated, Descending
<1>5. CASE Receive
  <2>1. /\ seen' = docs
        /\ UNCHANGED <<moderation, listening, raised, snapshots, shown>>
    BY <1>5 DEF Receive
  <2>2. ListeningTypes'
    BY <1>0, <2>1 DEF ListeningTypes
  <2>3. \A c \in Comment : "approved" \in {docs'[c], seen'[c]} => c \in approvals'
    BY <2>1 DEF TableInv
  <2> QED BY <2>1, <2>2, <2>3 DEF TableInv, Moderated, Descending
<1>6. CASE Raise
  <2>1. PICK list \in Lists : /\ snapshots' = Append(snapshots, list)
                              /\ raised' = list
    BY <1>6 DEF Raise
  <2>2. UNCHANGED <<moderation, seen, listening, shown>>
    BY <1>6 DEF Raise
  <2>3. list \in Seq(Comment) /\ Moderated(list)
    BY ListsAreModerated
  <2>4. snapshots' \in Seq(Seq(Comment))
    BY <1>0, <2>1, <2>3
  <2>5. \A k \in DOMAIN snapshots' :
            (k \in DOMAIN snapshots /\ snapshots'[k] = snapshots[k])
            \/ snapshots'[k] = list
    BY <1>0, <2>1, <2>3
  <2>6. ListeningTypes'
    BY <1>0, <2>1, <2>2, <2>3, <2>4 DEF ListeningTypes
  <2>7. ASSUME NEW k \in DOMAIN snapshots' PROVE Moderated(snapshots[k])'
    <3>1. Moderated(snapshots'[k])
      BY <2>3, <2>5 DEF TableInv
    <3> QED BY <2>2, <3>1 DEF Moderated, Descending
  <2> QED BY <2>2, <2>6, <2>7 DEF TableInv, Moderated, Descending
<1>7. CASE ShowSnapshot
  <2>1. /\ snapshots # <<>>
        /\ shown' = Head(snapshots) /\ snapshots' = Tail(snapshots)
        /\ UNCHANGED <<moderation, seen, listening, raised>>
    BY <1>7 DEF ShowSnapshot
  <2>2. 1 \in DOMAIN snapshots /\ Head(snapshots) = snapshots[1]
    BY <1>0, <2>1
  <2>3. shown' \in Seq(Comment)
    BY <1>0, <2>1
  <2>4. snapshots' \in Seq(Seq(Comment))
    BY <1>0, <2>1
  <2>5. \A k \in DOMAIN snapshots' : /\ k + 1 \in DOMAIN snapshots
                                     /\ snapshots'[k] = snapshots[k + 1]
    BY <1>0, <2>1
  <2>6. ListeningTypes'
    BY <1>0, <2>1, <2>3, <2>4 DEF ListeningTypes
  <2>7. Moderated(shown')
    BY <2>1, <2>2 DEF TableInv
  <2>8. \A k \in DOMAIN snapshots' : Moderated(snapshots'[k])
    BY <2>5 DEF TableInv
  <2> QED BY <2>1, <2>6, <2>7, <2>8 DEF TableInv, Moderated, Descending
<1>8. CASE FailListen \/ Reopen
  <2>1. <<>> \in Seq(Comment) /\ <<>> \in Seq(Seq(Comment))
    OBVIOUS
  <2>2. UNCHANGED <<moderation, seen>>
    BY <1>8 DEF FailListen, Reopen
  <2>3. ListeningTypes'
    BY <1>0, <1>8, <2>1 DEF ListeningTypes, FailListen, Reopen
  <2>4. Moderated(<<>>)
    <3>1. DOMAIN <<>> = {} /\ Len(<<>>) = 0
      OBVIOUS
    <3> QED BY <3>1, CommentAssumption DEF Moderated, ToSet, Descending
  <2>5. \/ UNCHANGED <<snapshots, shown>>
        \/ snapshots' = <<>> /\ shown' = <<>>
    BY <1>8 DEF FailListen, Reopen
  <2>6. Moderated(shown') /\ \A k \in DOMAIN snapshots' : Moderated(snapshots'[k])
    BY <2>4, <2>5 DEF TableInv
  <2> QED BY <2>2, <2>3, <2>6 DEF TableInv, Moderated, Descending
<1>9. CASE UNCHANGED vars
  BY <1>1, <1>9 DEF vars
<1>10. ASSUME NEW t \in Text \union {Blank}, EditText(t) PROVE TableInv'
  BY <1>1, <1>10 DEF EditText
<1>11. ASSUME NEW c \in Own,
              SendCommentPressed(c) \/ AnswerName(c) \/ FailName(c)
       PROVE  TableInv'
  BY <1>1, <1>11 DEF SendCommentPressed, AnswerName, Queue, FailName
<1>12. ASSUME NEW k \in DOMAIN saving, RefuseComment(k) PROVE TableInv'
  BY <1>1, <1>12 DEF RefuseComment, Rule
<1>13. CASE LoseResult
  BY <1>1, <1>13 DEF LoseResult
<1> QED BY <1>2, <1>3, <1>4, <1>5, <1>6, <1>7, <1>8, <1>9, <1>10, <1>11, <1>12,
           <1>13 DEF Next, Writing, Listening

\* The table is one list of approved comments, newest first and no longer than
\* a page, whatever lists wait to be shown, and even while comments of this
\* phone are pending again because their writes were sent twice.
THEOREM TableIsModeratedAlways == Spec => []TableIsModerated
<1>1. Init => TextInv /\ TableInv
  BY InitText, InitTable
<1>2. TextInv /\ TableInv /\ [Next]_vars => (TextInv /\ TableInv)'
  BY TextStep, TableStep
<1>3. TextInv /\ TableInv => TableIsModerated
  BY DEF TextInv, TableInv, TableIsModerated, TypeOK
<1> QED BY <1>1, <1>2, <1>3, PTL DEF Spec
==============================================================================
