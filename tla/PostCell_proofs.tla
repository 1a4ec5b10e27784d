--------------------------- MODULE PostCell_proofs ----------------------------
(***************************************************************************)
(* Proofs about the cell of a post, for every set of posts, every choice   *)
(* of the posts that have a picture, whose author has an avatar and whose  *)
(* updates the server's rules refuse, and a queue of any length.           *)
(*                                                                         *)
(* The bookmark is proved first, for SaveButton's own specification; then  *)
(* the cell is shown to be that button, and the pictures are proved.       *)
(***************************************************************************)
EXTENDS PostCell, QueueLemmas, SequenceTheorems, TLAPS

------------------------------------------------------------------------------
(* What a queue of updates makes of a set of saved posts.                  *)

Newest(ob, p) == {k \in DOMAIN ob : ob[k].post = p}

\* The last update of p in the queue decides; without one, the array does.
Saved(ob, sp, p) ==
    IF Newest(ob, p) = {} THEN p \in sp
    ELSE \E k \in Newest(ob, p) :
            ob[k].op = "arrayUnion" /\ \A j \in Newest(ob, p) : j <= k

LEMMA SavedHereIsSaved ==
    ASSUME NEW p \in Post
    PROVE  p \in SavedHere <=> Saved(outbox, savedPosts, p)
  BY DEF SavedHere, UpdatesOf, Saved, Newest

\* A press decides about its own post, whatever waits before it.
LEMMA AppendDecides ==
    ASSUME NEW ob \in Seq(Update), NEW u \in Update, NEW sp, NEW p
    PROVE  Saved(Append(ob, u), sp, p)
              <=> IF p = u.post THEN u.op = "arrayUnion" ELSE Saved(ob, sp, p)
<1> DEFINE n == Len(ob) + 1
           new == Append(ob, u)
<1>1. /\ DOMAIN new = 1 .. n /\ DOMAIN ob = 1 .. Len(ob) /\ Len(ob) \in Nat
      /\ new[n] = u
      /\ \A k \in 1 .. Len(ob) : new[k] = ob[k]
  BY AppendProperties
<1> HIDE DEF new
<1> SUFFICES Saved(new, sp, p)
                <=> IF p = u.post THEN u.op = "arrayUnion" ELSE Saved(ob, sp, p)
  BY DEF new
<1>2. CASE p = u.post
  <2>1. n \in Newest(new, p) /\ \A j \in Newest(new, p) : j <= n
    BY <1>1, <1>2 DEF Newest
  <2>2. \A k \in Newest(new, p) : (\A j \in Newest(new, p) : j <= k) => k = n
    BY <1>1, <2>1 DEF Newest
  <2> QED BY <1>1, <1>2, <2>1, <2>2 DEF Saved
<1>3. CASE p # u.post
  <2>1. Newest(new, p) = Newest(ob, p)
    BY <1>1, <1>3 DEF Newest
  <2>2. \A k \in Newest(ob, p) : new[k] = ob[k]
    BY <1>1 DEF Newest
  <2> QED BY <1>3, <2>1, <2>2 DEF Saved
<1> QED BY <1>2, <1>3

\* Statuses do not matter, nor what the array says of posts with an update.
LEMMA StatusIsIrrelevant ==
    ASSUME NEW ob, NEW new, NEW sp, NEW nsp, NEW p,
           DOMAIN new = DOMAIN ob,
           \A k \in DOMAIN ob : new[k].post = ob[k].post /\ new[k].op = ob[k].op,
           Newest(ob, p) = {} => (p \in nsp <=> p \in sp)
    PROVE  Saved(new, nsp, p) <=> Saved(ob, sp, p)
<1>1. Newest(new, p) = Newest(ob, p)
  BY DEF Newest
<1>2. \A k \in Newest(ob, p) : new[k].op = ob[k].op
  BY DEF Newest
<1> QED BY <1>1, <1>2 DEF Saved

\* The oldest update may leave the queue when the array says what it says,
\* or a later update of its post is still to come.
LEMMA TailAgrees ==
    ASSUME NEW ob \in Seq(Update), ob # <<>>, NEW sp, NEW p,
           p = Head(ob).post =>
              \/ p \in sp <=> Head(ob).op = "arrayUnion"
              \/ \E j \in Newest(ob, p) : j > 1
    PROVE  Saved(Tail(ob), sp, p) <=> Saved(ob, sp, p)
<1> DEFINE new == Tail(ob)
<1>1. /\ Len(ob) \in Nat /\ Len(ob) >= 1
      /\ DOMAIN ob = 1 .. Len(ob) /\ DOMAIN new = 1 .. Len(ob) - 1
      /\ \A k \in 1 .. Len(ob) - 1 : new[k] = ob[k + 1]
      /\ Head(ob) = ob[1]
  BY HeadTailProperties
<1> HIDE DEF new
<1> SUFFICES Saved(new, sp, p) <=> Saved(ob, sp, p)
  BY DEF new
<1>2. \A k : k \in Newest(new, p) => k + 1 \in Newest(ob, p)
  BY <1>1 DEF Newest
<1>3. \A k : k \in Newest(ob, p) /\ k # 1 =>
              k - 1 \in Newest(new, p) /\ new[k - 1] = ob[k]
  BY <1>1 DEF Newest
<1>4. Newest(ob, p) \subseteq Nat \ {0} /\ Newest(new, p) \subseteq Nat \ {0}
  BY <1>1 DEF Newest
<1>5. CASE Newest(new, p) = {}
  <2>1. Newest(ob, p) \subseteq {1}
    BY <1>3, <1>5
  <2>2. CASE Newest(ob, p) = {}
    BY <1>5, <2>2 DEF Saved
  <2>3. CASE Newest(ob, p) = {1}
    <3>1. p = Head(ob).post
      BY <1>1, <2>3 DEF Newest
    <3>2. Saved(new, sp, p) <=> p \in sp
      BY <1>5 DEF Saved
    <3>3. Saved(ob, sp, p) <=> ob[1].op = "arrayUnion"
      BY <2>3 DEF Saved
    <3> QED BY <1>1, <2>3, <3>1, <3>2, <3>3
  <2> QED BY <2>1, <2>2, <2>3
<1>6. CASE Newest(new, p) # {}
  <2>1. PICK m \in Newest(new, p) : TRUE
    BY <1>6
  <2>2. Newest(ob, p) # {}
    BY <1>2, <2>1
  <2>3. ASSUME Saved(new, sp, p) PROVE Saved(ob, sp, p)
    <3>1. PICK k \in Newest(new, p) :
              new[k].op = "arrayUnion" /\ \A j \in Newest(new, p) : j <= k
      BY <1>6, <2>3 DEF Saved
    <3>2. k + 1 \in Newest(ob, p) /\ ob[k + 1].op = "arrayUnion"
      BY <1>1, <1>2, <3>1 DEF Newest
    <3>3. ASSUME NEW j \in Newest(ob, p) PROVE j <= k + 1
      BY <1>3, <1>4, <3>1
    <3> QED BY <2>2, <3>2, <3>3 DEF Saved
  <2>4. ASSUME Saved(ob, sp, p) PROVE Saved(new, sp, p)
    <3>1. PICK k \in Newest(ob, p) :
              ob[k].op = "arrayUnion" /\ \A j \in Newest(ob, p) : j <= k
      BY <2>2, <2>4 DEF Saved
    <3>2. m + 1 \in Newest(ob, p)
      BY <1>2, <2>1
    <3>3. k # 1
      BY <1>4, <2>1, <3>1, <3>2
    <3>4. k - 1 \in Newest(new, p) /\ new[k - 1].op = "arrayUnion"
      BY <1>3, <3>1, <3>3
    <3>5. ASSUME NEW j \in Newest(new, p) PROVE j <= k - 1
      <4>1. j + 1 \in Newest(ob, p)
        BY <1>2
      <4> QED BY <1>4, <3>1, <4>1
    <3> QED BY <1>6, <3>4, <3>5 DEF Saved
  <2> QED BY <2>3, <2>4
<1> QED BY <1>5, <1>6
------------------------------------------------------------------------------
(* Types.                                                                  *)

LEMMA UpdateStatus ==
    ASSUME NEW u \in Update, NEW st \in Status
    PROVE  /\ [u EXCEPT !.status = st] \in Update
           /\ [u EXCEPT !.status = st].post = u.post
           /\ [u EXCEPT !.status = st].op = u.op
           /\ [u EXCEPT !.status = st].status = st
  BY DEF Update

\* Sending the updates again keeps the posts and what is asked for them.
LEMMA ResendUpdates ==
    ASSUME outbox \in Seq(Update)
    PROVE  /\ Resent(outbox) \in Seq(Update)
           /\ DOMAIN Resent(outbox) = DOMAIN outbox
           /\ \A k \in DOMAIN outbox :
                 /\ Resent(outbox)[k].post = outbox[k].post
                 /\ Resent(outbox)[k].op = outbox[k].op
                 /\ Resent(outbox)[k].status = "queued"
<1>1. \A u \in Update : [u EXCEPT !.status = "queued"] \in Update
  BY DEF Update, Status
<1>2. /\ Resent(outbox) \in Seq(Update)
      /\ DOMAIN Resent(outbox) = DOMAIN outbox
      /\ \A k \in DOMAIN outbox :
            Resent(outbox)[k] = [outbox[k] EXCEPT !.status = "queued"]
  BY <1>1, ResentProperties
<1>3. ASSUME NEW k \in DOMAIN outbox
      PROVE  /\ Resent(outbox)[k].post = outbox[k].post
             /\ Resent(outbox)[k].op = outbox[k].op
             /\ Resent(outbox)[k].status = "queued"
  <2> DEFINE u == [outbox[k] EXCEPT !.status = "queued"]
  <2>1. outbox[k] \in Update /\ "queued" \in Status
    BY DEF Status
  <2>2. u.post = outbox[k].post /\ u.op = outbox[k].op /\ u.status = "queued"
    BY <2>1, UpdateStatus
  <2>3. Resent(outbox)[k] = u
    BY <1>2
  <2> QED BY <2>2, <2>3, Zenon
<1> QED BY <1>2, <1>3, Zenon

\* Ruling on an update, likewise.
LEMMA RuleUpdate ==
    ASSUME outbox \in Seq(Update), NEW k \in DOMAIN outbox, NEW st \in Status
    PROVE  /\ Ruled(outbox, k, st) \in Seq(Update)
           /\ DOMAIN Ruled(outbox, k, st) = DOMAIN outbox
           /\ \A j \in DOMAIN outbox :
                 /\ Ruled(outbox, k, st)[j].post = outbox[j].post
                 /\ Ruled(outbox, k, st)[j].op = outbox[j].op
                 /\ j # k => Ruled(outbox, k, st)[j] = outbox[j]
           /\ Ruled(outbox, k, st)[k].status = st
<1>1. outbox[k] \in Update
  OBVIOUS
<1>2. [outbox[k] EXCEPT !.status = st] \in Update
  BY <1>1, UpdateStatus
<1>3. /\ Ruled(outbox, k, st) \in Seq(Update)
      /\ DOMAIN Ruled(outbox, k, st) = DOMAIN outbox
      /\ Ruled(outbox, k, st)[k] = [outbox[k] EXCEPT !.status = st]
      /\ \A j \in DOMAIN outbox : j # k => Ruled(outbox, k, st)[j] = outbox[j]
  BY <1>2, RuledProperties
<1>4. /\ Ruled(outbox, k, st)[k].post = outbox[k].post
      /\ Ruled(outbox, k, st)[k].op = outbox[k].op
      /\ Ruled(outbox, k, st)[k].status = st
  <2> DEFINE u == [outbox[k] EXCEPT !.status = st]
  <2>1. u.post = outbox[k].post /\ u.op = outbox[k].op /\ u.status = st
    BY <1>1, UpdateStatus
  <2> QED BY <1>3, <2>1, Zenon
<1> QED BY <1>3, <1>4, Zenon

LEMMA NothingWaits == <<>> \in Seq(Update) /\ <<>> \in Seq(SUBSET Post)
  OBVIOUS

LEMMA InitType == Init => TypeOK
<1> SUFFICES ASSUME Init PROVE TypeOK
  OBVIOUS
<1>1. filled \in BOOLEAN /\ isSelected \in BOOLEAN
  BY DEF Init
<1> QED BY <1>1, NothingWaits DEF Init, TypeOK

LEMMA NextType == TypeOK /\ [Next]_vars => TypeOK'
<1> SUFFICES ASSUME TypeOK, [Next]_vars PROVE TypeOK'
  OBVIOUS
<1> USE DEF TypeOK
<1>1. ASSUME NEW p \in Post, Reuse(p) PROVE TypeOK'
  BY <1>1 DEF Reuse, button
<1>2. ASSUME NEW p \in Post, Reopen(p) PROVE TypeOK'
  <2>1. outbox' \in Seq(Update)
    BY <1>2, ResendUpdates DEF Reopen
  <2>2. filled' \in BOOLEAN /\ isSelected' \in BOOLEAN
    BY <1>2 DEF Reopen
  <2> QED BY <1>2, <2>1, <2>2, NothingWaits DEF Reopen
<1>3. ASSUME NEW p \in Post, ShowAuthor(p) \/ FailAuthor(p) PROVE TypeOK'
  BY <1>3 DEF ShowAuthor, FailAuthor, button
<1>4. CASE PressSave \/ PressUnsave
  <2>1. ASSUME NEW op \in {"arrayUnion", "arrayRemove"}
        PROVE  Append(outbox, [op |-> op, post |-> postID, status |-> "queued"])
                  \in Seq(Update)
    BY DEF Update, Status
  <2> QED BY <1>4, <2>1 DEF PressSave, PressUnsave, Press, reads
<1>5. CASE ShowSaved
  BY <1>5 DEF ShowSaved
<1>6. CASE AnswerSaved \/ FailSaved
  <2>1. SavedHere \in SUBSET Post
    BY DEF SavedHere
  <2>2. Append(mainQueue, SavedHere) \in Seq(SUBSET Post)
    BY <2>1
  <2>3. mainQueue' \in Seq(SUBSET Post)
    <3>1. mainQueue' = Append(mainQueue, SavedHere) \/ mainQueue' = mainQueue
      BY <1>6 DEF AnswerSaved, FailSaved
    <3>2. mainQueue \in Seq(SUBSET Post)
      OBVIOUS
    <3> HIDE DEF TypeOK
    <3> QED BY <2>2, <3>1, <3>2
  <2>4. reading' \in Nat
    BY <1>6 DEF AnswerSaved, FailSaved
  <2>5. UNCHANGED <<savedPosts, outbox, postID, filled, isSelected, visiting,
                    wanted>>
    BY <1>6 DEF AnswerSaved, FailSaved, button
  <2> QED BY <2>3, <2>4, <2>5
<1>7. ASSUME NEW k \in DOMAIN outbox, CommitUpdate(k) PROVE TypeOK'
  <2>1. outbox[k].post \in Post
    <3>1. outbox[k] \in Update
      OBVIOUS
    <3> QED BY <3>1 DEF Update
  <2>2. outbox' \in Seq(Update)
    BY <1>7, RuleUpdate DEF CommitUpdate, Rule, Status
  <2>3. savedPosts' \subseteq Post
    BY <1>7, <2>1 DEF CommitUpdate
  <2> QED BY <1>7, <2>2, <2>3 DEF CommitUpdate, Rule, button, reads
<1>8. ASSUME NEW k \in DOMAIN outbox, RefuseUpdate(k) PROVE TypeOK'
  <2>1. outbox' \in Seq(Update)
    BY <1>8, RuleUpdate DEF RefuseUpdate, Rule, Status
  <2> QED BY <1>8, <2>1 DEF RefuseUpdate, Rule, button, reads
<1>9. CASE LoseResult \/ Settle
  <2>1. outbox' \in Seq(Update)
    <3>1. outbox # <<>> => Tail(outbox) \in Seq(Update)
      OBVIOUS
    <3>2. Resent(outbox) \in Seq(Update)
      BY ResendUpdates
    <3> HIDE DEF TypeOK
    <3> QED BY <1>9, <3>1, <3>2, Zenon DEF LoseResult, Settle, HasResult
  <2> QED BY <1>9, <2>1 DEF LoseResult, Settle, button, reads
<1>10. CASE UNCHANGED vars
  BY <1>10 DEF vars, button, reads
<1> QED
  BY <1>1, <1>2, <1>3, <1>4, <1>5, <1>6, <1>7, <1>8, <1>9, <1>10 DEF Next

\* Every reachable state is well typed: no answer is shown twice.
THEOREM SaveTypeCorrect == Spec => []TypeOK
  BY InitType, NextType, PTL DEF Spec

------------------------------------------------------------------------------
(* Rulings.                                                                *)

LEMMA RulingStandsStep ==
    TypeOK /\ RulingStands /\ [Next]_vars => RulingStands'
<1> SUFFICES ASSUME TypeOK, RulingStands, [Next]_vars PROVE RulingStands'
  OBVIOUS
<1>0. /\ outbox \in Seq(Update)
      /\ Len(outbox) \in Nat /\ DOMAIN outbox = 1 .. Len(outbox)
      /\ \A k \in 1 .. Len(outbox) : outbox[k] \in Update
  BY DEF TypeOK
<1>1. CASE outbox' = outbox /\ savedPosts' = savedPosts
  BY <1>1 DEF RulingStands, UpdatesOf
<1>2. CASE outbox' = Resent(outbox)
  <2>1. /\ DOMAIN outbox' = DOMAIN outbox
        /\ \A k \in DOMAIN outbox : outbox'[k].status = "queued"
    BY <1>0, <1>2, ResendUpdates
  <2> QED BY <2>1 DEF RulingStands
<1>3. CASE PressSave \/ PressUnsave
  <2>1. /\ savedPosts' = savedPosts
        /\ DOMAIN outbox' = 1 .. Len(outbox) + 1
        /\ outbox'[Len(outbox) + 1].status = "queued"
        /\ \A k \in DOMAIN outbox : outbox'[k] = outbox[k]
    BY <1>0, <1>3, AppendProperties DEF PressSave, PressUnsave, Press, TypeOK
  <2> QED BY <1>0, <2>1 DEF RulingStands, UpdatesOf
<1>4. ASSUME NEW k \in DOMAIN outbox, CommitUpdate(k) PROVE RulingStands'
  <2>1. /\ k \in 1 .. Len(outbox) /\ outbox[k].status = "queued"
        /\ \A j \in 1 .. k - 1 : outbox[j].status = "committed"
    BY <1>0, <1>4 DEF CommitUpdate, Rule, IsNext
  <2>2. /\ DOMAIN outbox' = DOMAIN outbox
        /\ \A j \in DOMAIN outbox :
              /\ outbox'[j].post = outbox[j].post /\ outbox'[j].op = outbox[j].op
              /\ j # k => outbox'[j] = outbox[j]
        /\ outbox'[k].status = "committed"
    BY <1>0, <1>4, RuleUpdate DEF CommitUpdate, Rule, Status
  <2>3. \A j \in 1 .. Len(outbox) : j > k => outbox[j].status = "queued"
    BY <1>0, <2>1 DEF RulingStands
  <2>4. savedPosts' = IF outbox[k].op = "arrayUnion"
                      THEN savedPosts \union {outbox[k].post}
                      ELSE savedPosts \ {outbox[k].post}
    BY <1>4 DEF CommitUpdate
  <2>5. ASSUME NEW j \in DOMAIN outbox'
        PROVE  /\ outbox'[j].status # "queued" =>
                     \A i \in 1 .. j - 1 : outbox'[i].status = "committed"
               /\ outbox'[j].status = "rejected" => outbox'[j].post \in Refusable
    BY <1>0, <2>1, <2>2, <2>3 DEF RulingStands
  <2>6. ASSUME NEW j \in DOMAIN outbox', outbox'[j].status = "committed"
        PROVE  \/ outbox'[j].post \in savedPosts' <=> outbox'[j].op = "arrayUnion"
               \/ \E i \in UpdatesOf(outbox[j].post) : i > j
    <3>1. CASE j = k
      BY <2>1, <2>2, <2>4, <3>1
    <3>2. CASE j # k /\ outbox[j].post = outbox[k].post
      BY <1>0, <2>1, <2>2, <2>3, <2>6, <3>2 DEF UpdatesOf
    <3>3. CASE j # k /\ outbox[j].post # outbox[k].post
      BY <1>0, <2>2, <2>4, <2>6, <3>3 DEF RulingStands
    <3> QED BY <3>1, <3>2, <3>3
  <2>7. \A p : UpdatesOf(p)' = UpdatesOf(p)
    BY <2>2 DEF UpdatesOf
  <2> QED BY <2>2, <2>5, <2>6, <2>7 DEF RulingStands
<1>5. ASSUME NEW k \in DOMAIN outbox, RefuseUpdate(k) PROVE RulingStands'
  <2>1. /\ k \in 1 .. Len(outbox) /\ outbox[k].status = "queued"
        /\ \A j \in 1 .. k - 1 : outbox[j].status = "committed"
    BY <1>0, <1>5 DEF RefuseUpdate, Rule, IsNext
  <2>2. /\ DOMAIN outbox' = DOMAIN outbox
        /\ \A j \in DOMAIN outbox :
              /\ outbox'[j].post = outbox[j].post /\ outbox'[j].op = outbox[j].op
              /\ j # k => outbox'[j] = outbox[j]
        /\ outbox'[k].status = "rejected"
    BY <1>0, <1>5, RuleUpdate DEF RefuseUpdate, Rule, Status
  <2>3. \A j \in 1 .. Len(outbox) : j > k => outbox[j].status = "queued"
    BY <1>0, <2>1 DEF RulingStands
  <2>4. ASSUME NEW j \in DOMAIN outbox'
        PROVE  /\ outbox'[j].status # "queued" =>
                     \A i \in 1 .. j - 1 : outbox'[i].status = "committed"
               /\ outbox'[j].status = "rejected" => outbox'[j].post \in Refusable
    BY <1>0, <1>5, <2>1, <2>2, <2>3 DEF RulingStands, RefuseUpdate
  <2>5. savedPosts' = savedPosts
    BY <1>5 DEF RefuseUpdate
  <2>6. \A p : UpdatesOf(p)' = UpdatesOf(p)
    BY <2>2 DEF UpdatesOf
  <2> QED BY <2>2, <2>4, <2>5, <2>6 DEF RulingStands
<1>6. CASE Settle
  <2>1. /\ savedPosts' = savedPosts
        /\ outbox # <<>>
        /\ DOMAIN outbox' = 1 .. Len(outbox) - 1
        /\ \A k \in DOMAIN outbox' : outbox'[k] = outbox[k + 1]
    BY <1>0, <1>6, HeadTailProperties DEF Settle, HasResult
  <2>2. ASSUME NEW k \in DOMAIN outbox'
        PROVE  /\ outbox'[k].status # "queued" =>
                     \A j \in 1 .. k - 1 : outbox'[j].status = "committed"
               /\ outbox'[k].status = "rejected" => outbox'[k].post \in Refusable
    BY <1>0, <2>1 DEF RulingStands
  <2>3. ASSUME NEW k \in DOMAIN outbox', outbox'[k].status = "committed"
        PROVE  \/ outbox'[k].post \in savedPosts' <=> outbox'[k].op = "arrayUnion"
               \/ \E j \in DOMAIN outbox' :
                     outbox'[j].post = outbox'[k].post /\ j > k
    <3>1. k + 1 \in DOMAIN outbox /\ outbox'[k] = outbox[k + 1]
      BY <1>0, <2>1
    <3>2. CASE outbox[k + 1].post \in savedPosts <=> outbox[k + 1].op = "arrayUnion"
      BY <2>1, <3>1, <3>2
    <3>3. ASSUME NEW j \in UpdatesOf(outbox[k + 1].post), j > k + 1
          PROVE  \E i \in DOMAIN outbox' :
                    outbox'[i].post = outbox'[k].post /\ i > k
      <4>1. j - 1 \in DOMAIN outbox' /\ outbox'[j - 1] = outbox[j] /\ j - 1 > k
        BY <1>0, <2>1, <3>3 DEF UpdatesOf
      <4> QED BY <3>1, <3>3, <4>1 DEF UpdatesOf
    <3> QED BY <2>3, <3>1, <3>2, <3>3 DEF RulingStands
  <2> QED BY <2>2, <2>3 DEF RulingStands, UpdatesOf
<1>7. CASE \/ \E p \in Post : Reuse(p) \/ ShowAuthor(p) \/ FailAuthor(p)
           \/ ShowSaved \/ AnswerSaved \/ FailSaved
           \/ UNCHANGED vars
  BY <1>1, <1>7 DEF Reuse, ShowAuthor, FailAuthor, ShowSaved, AnswerSaved,
                    FailSaved, vars
<1>8. CASE LoseResult \/ \E p \in Post : Reopen(p)
  BY <1>2, <1>8 DEF LoseResult, Reopen
<1> QED BY <1>3, <1>4, <1>5, <1>6, <1>7, <1>8 DEF Next

------------------------------------------------------------------------------
(* The saved posts are those the presses asked for.                        *)

LEMMA SavedAsPressedIs ==
    ASSUME TypeOK
    PROVE  SavedAsPressed <=>
              \A p \in Post \ Refusable :
                  Saved(outbox, savedPosts, p) <=> p \in wanted
  BY SavedHereIsSaved DEF SavedAsPressed, SavedHere, TypeOK

LEMMA SavedAsPressedStep ==
    Inv /\ [Next]_vars => SavedAsPressed'
<1> SUFFICES ASSUME Inv, [Next]_vars PROVE SavedAsPressed'
  OBVIOUS
<1>0. TypeOK /\ TypeOK' /\ RulingStands
  BY NextType DEF Inv
<1>1. /\ Len(outbox) \in Nat /\ DOMAIN outbox = 1 .. Len(outbox)
      /\ outbox \in Seq(Update)
      /\ \A k \in 1 .. Len(outbox) : outbox[k] \in Update
  BY <1>0 DEF TypeOK
<1>2. \A p \in Post \ Refusable :
          Saved(outbox, savedPosts, p) <=> p \in wanted
  BY <1>0, SavedAsPressedIs DEF Inv
<1>3. SUFFICES ASSUME NEW p \in Post \ Refusable
               PROVE  Saved(outbox', savedPosts', p) <=> p \in wanted'
  <2>1. SavedHere' = {p \in Post : Saved(outbox', savedPosts', p)}
    BY DEF SavedHere, UpdatesOf, Saved, Newest
  <2> QED BY <1>0, <2>1 DEF SavedAsPressed, TypeOK
<1>4. CASE outbox' = outbox /\ savedPosts' = savedPosts /\ wanted' = wanted
  BY <1>2, <1>4
<1>5. CASE LoseResult \/ \E q \in Post : Reopen(q)
  <2>1. /\ DOMAIN outbox' = DOMAIN outbox
        /\ \A k \in DOMAIN outbox :
              outbox'[k].post = outbox[k].post /\ outbox'[k].op = outbox[k].op
        /\ savedPosts' = savedPosts /\ wanted' = wanted
    BY <1>1, <1>5, ResendUpdates DEF LoseResult, Reopen
  <2>2. Saved(outbox', savedPosts', p) <=> Saved(outbox, savedPosts, p)
    BY <2>1, StatusIsIrrelevant
  <2> QED BY <1>2, <2>1, <2>2
<1>6. CASE PressSave \/ PressUnsave
  <2>1. PICK op \in {"arrayUnion", "arrayRemove"} :
            /\ outbox' = Append(outbox, [op |-> op, post |-> postID,
                                         status |-> "queued"])
            /\ savedPosts' = savedPosts
            /\ wanted' = IF op = "arrayUnion" THEN wanted \union {postID}
                         ELSE wanted \ {postID}
    BY <1>6 DEF PressSave, PressUnsave, Press
  <2> DEFINE u == [op |-> op, post |-> postID, status |-> "queued"]
  <2>2. u \in Update /\ u.post = postID /\ u.op = op
    BY <1>0 DEF TypeOK, Update, Status
  <2>3. Saved(Append(outbox, u), savedPosts, p)
           <=> IF p = u.post THEN u.op = "arrayUnion"
               ELSE Saved(outbox, savedPosts, p)
    BY <1>1, <2>2, AppendDecides
  <2> QED BY <1>2, <2>1, <2>2, <2>3
<1>7. ASSUME NEW k \in DOMAIN outbox, CommitUpdate(k) \/ RefuseUpdate(k)
      PROVE  Saved(outbox', savedPosts', p) <=> p \in wanted'
  <2>1. /\ DOMAIN outbox' = DOMAIN outbox
        /\ \A j \in DOMAIN outbox :
              outbox'[j].post = outbox[j].post /\ outbox'[j].op = outbox[j].op
        /\ wanted' = wanted
    BY <1>1, <1>7, RuleUpdate DEF CommitUpdate, RefuseUpdate, Rule, Status
  <2>2. Newest(outbox, p) = {} => (p \in savedPosts' <=> p \in savedPosts)
    BY <1>7 DEF CommitUpdate, RefuseUpdate, Newest
  <2>3. Saved(outbox', savedPosts', p) <=> Saved(outbox, savedPosts, p)
    BY <2>1, <2>2, StatusIsIrrelevant
  <2> QED BY <1>2, <2>1, <2>3
<1>8. CASE Settle
  <2>1. /\ outbox # <<>> /\ Head(outbox) = outbox[1] /\ 1 \in DOMAIN outbox
        /\ outbox' = Tail(outbox) /\ savedPosts' = savedPosts
        /\ wanted' = wanted
        /\ outbox[1].status # "queued"
    BY <1>1, <1>8 DEF Settle, HasResult
  <2>2. p = outbox[1].post =>
            \/ p \in savedPosts <=> outbox[1].op = "arrayUnion"
            \/ \E j \in Newest(outbox, p) : j > 1
    <3>1. outbox[1].status \in Status
      BY <1>1, <2>1 DEF Update
    <3> QED BY <1>0, <1>1, <2>1, <3>1
            DEF RulingStands, Status, UpdatesOf, Newest
  <2>3. Saved(outbox', savedPosts', p) <=> Saved(outbox, savedPosts, p)
    BY <1>1, <2>1, <2>2, TailAgrees
  <2> QED BY <1>2, <2>1, <2>3
<1>9. CASE \/ \E q \in Post : Reuse(q) \/ ShowAuthor(q) \/ FailAuthor(q)
           \/ ShowSaved \/ AnswerSaved \/ FailSaved
           \/ UNCHANGED vars
  BY <1>4, <1>9 DEF Reuse, ShowAuthor, FailAuthor, ShowSaved, AnswerSaved,
                    FailSaved, vars
<1> QED BY <1>5, <1>6, <1>7, <1>8, <1>9 DEF Next

LEMMA InitInv == Init => Inv
<1> SUFFICES ASSUME Init PROVE Inv
  OBVIOUS
<1>1. TypeOK /\ RulingStands
  BY InitType DEF Init, RulingStands
<1>2. SavedHere = {}
  BY DEF Init, SavedHere, UpdatesOf
<1> QED BY <1>1, <1>2 DEF Inv, SavedAsPressed, Init

LEMMA NextInv == Inv /\ [Next]_vars => Inv'
  BY NextType, RulingStandsStep, SavedAsPressedStep DEF Inv

\* The saved posts, this phone's waiting updates included, are those the
\* presses have asked for, whatever is resent, refused, lost or restarted.
THEOREM PressesAreKept == Spec => []SavedAsPressed
<1>1. Inv => SavedAsPressed
  BY DEF Inv
<1> QED BY <1>1, InitInv, NextInv, PTL DEF Spec

------------------------------------------------------------------------------
(* The cell.                                                               *)

LEMMA CellStepIsButtonStep == [CellNext]_cellVars => [Next]_vars
  BY DEF CellNext, cellVars, Next, ReuseCell, ReopenCell, ShowAuthorCell,
         FailAuthorCell, PressCell, ShowSavedCell, PictureLoads, AvatarLoads,
         Behind

\* Whatever is proved of the bookmark holds of the whole cell.
THEOREM CellIsAButton == CellSpec => Spec
<1>1. CellInit => Init
  BY DEF CellInit
<1>2. [CellNext]_cellVars => [Next]_vars
  BY CellStepIsButtonStep
<1> QED BY <1>1, <1>2, PTL DEF CellSpec, Spec

\* In the cell, too, the saved posts are those the presses have asked for.
THEOREM CellKeepsPresses == CellSpec => []SavedAsPressed
  BY CellIsAButton, PressesAreKept, PTL

\* The cell's own steps, in one place: what each does to what it shows.
LEMMA CellTypeStep ==
    CellTypeOK /\ [CellNext]_cellVars => CellTypeOK'
<1> SUFFICES ASSUME CellTypeOK, [CellNext]_cellVars PROVE CellTypeOK'
  OBVIOUS
<1>1. TypeOK'
  BY CellStepIsButtonStep, NextType DEF CellTypeOK
<1>2. picture' \in View /\ avatar' \in View
  <2>1. /\ \A p \in Post \union {Nothing} : Download(p) \in View
        /\ Empty \in View
        /\ \A v \in View : {Clear(v), Arrived(v), Failed(v)} \subseteq View
    BY DEF Download, Empty, View, Clear, Arrived, Failed
  <2>2. picture \in View /\ avatar \in View
    BY DEF CellTypeOK
  <2>3. CASE \E p \in Post : \/ ReuseCell(p) \/ ReopenCell(p)
                            \/ ShowAuthorCell(p) \/ FailAuthorCell(p)
    BY <2>1, <2>2, <2>3
       DEF ReuseCell, ReopenCell, ShowAuthorCell, FailAuthorCell
  <2>4. CASE PressCell \/ ShowSavedCell \/ Behind \/ UNCHANGED cellVars
    BY <2>2, <2>4 DEF PressCell, ShowSavedCell, Behind, cellVars
  <2>5. CASE PictureLoads \/ AvatarLoads
    BY <2>1, <2>2, <2>5 DEF PictureLoads, AvatarLoads
  <2> QED BY <2>3, <2>4, <2>5 DEF CellNext
<1>3. idle' \in BOOLEAN /\ met' \in BOOLEAN /\ told' \in BOOLEAN
  <2>1. IsIdle \in BOOLEAN
    BY DEF IsIdle
  <2>2. idle \in BOOLEAN /\ met \in BOOLEAN /\ told \in BOOLEAN
    BY DEF CellTypeOK
  <2> QED BY <2>1, <2>2, Zenon
          DEF CellNext, ReuseCell, ReopenCell, ShowAuthorCell, FailAuthorCell,
              PressCell, ShowSavedCell, PictureLoads, AvatarLoads, Behind,
              cellVars, history
<1> QED BY <1>1, <1>2, <1>3 DEF CellTypeOK

LEMMA OnlyItsOwnStep ==
    CellInv /\ [CellNext]_cellVars => OnlyItsOwn' /\ IdleCellShowsItsPost'
<1> SUFFICES ASSUME CellInv, [CellNext]_cellVars
             PROVE  OnlyItsOwn' /\ IdleCellShowsItsPost'
  OBVIOUS
<1>0. /\ TypeOK /\ CellTypeOK /\ OnlyItsOwn /\ IdleCellShowsItsPost
      /\ SavedAsPressed
  BY DEF CellInv, Inv
<1>1. /\ picture \in View /\ avatar \in View /\ postID \in Post
      /\ visiting \in [Post -> Nat]
      /\ mainQueue \in Seq(SUBSET Post)
      /\ \A v \in View : v = [shown |-> v.shown, loading |-> v.loading]
  BY <1>0 DEF CellTypeOK, TypeOK, View
<1> USE DEF OnlyItsOwn, IdleCellShowsItsPost, Within
<1>2. ASSUME NEW p \in Post, ReuseCell(p) \/ ReopenCell(p)
      PROVE  OnlyItsOwn' /\ IdleCellShowsItsPost'
  <2>1. postID' = p /\ met' = FALSE /\ told' = FALSE
    BY <1>2 DEF ReuseCell, ReopenCell, Reuse, Reopen
  <2>2. p \in HasPicture => Within(picture, p)'
    BY <1>2, <2>1 DEF ReuseCell, ReopenCell, Download
  <2>3. ASSUME idle'
        PROVE  /\ Within(picture, p)'
               /\ avatar'.loading \in {Nothing, p}
               /\ \A q \in Post : visiting'[q] > 0 => q = p
               /\ mainQueue' = <<>>
    <3>1. CASE ReopenCell(p)
      BY <2>2, <3>1 DEF ReopenCell, Reopen, Empty, Download
    <3>2. CASE ReuseCell(p)
      <4>1. IsIdle
        BY <2>3, <3>2 DEF ReuseCell
      <4>2. Within(picture, p)'
        BY <1>1, <2>2, <3>2, <4>1 DEF ReuseCell, IsIdle, Clear
      <4> QED BY <1>1, <3>2, <4>1, <4>2 DEF ReuseCell, Reuse, IsIdle
    <3> QED BY <1>2, <3>1, <3>2
  <2>4. idle' => DOMAIN mainQueue' = {}
    BY <2>3
  <2> QED BY <2>1, <2>2, <2>3, <2>4
<1>3. ASSUME NEW p \in Post, ShowAuthorCell(p) \/ FailAuthorCell(p)
      PROVE  OnlyItsOwn' /\ IdleCellShowsItsPost'
  <2>1. /\ UNCHANGED <<postID, mainQueue, wanted, filled, picture, idle, told>>
        /\ visiting[p] > 0
        /\ visiting' = [visiting EXCEPT ![p] = @ - 1]
    BY <1>3 DEF ShowAuthorCell, FailAuthorCell, ShowAuthor, FailAuthor, button,
                history
  <2>2. idle => p = postID
    BY <1>0, <2>1
  <2>3. \A q \in Post : visiting'[q] > 0 => visiting[q] > 0
    BY <1>1, <2>1
  <2>4. CASE FailAuthorCell(p)
    BY <1>0, <2>1, <2>3, <2>4 DEF FailAuthorCell, history
  <2>5. CASE ShowAuthorCell(p)
    <3>1. idle => avatar'.shown \in {Nothing, postID}
                  /\ avatar'.loading \in {Nothing, postID}
      BY <1>0, <1>1, <2>2, <2>5 DEF ShowAuthorCell, Download, Clear
    <3>2. met' = idle
      BY <2>5 DEF ShowAuthorCell
    <3> QED BY <1>0, <2>1, <2>3, <3>1, <3>2
  <2> QED BY <1>3, <2>4, <2>5
<1>4. CASE PressCell
  BY <1>0, <1>4 DEF PressCell, PressSave, PressUnsave, Press
<1>5. CASE ShowSavedCell
  <2>1. /\ mainQueue # <<>> /\ Len(mainQueue) \in Nat /\ Len(mainQueue) >= 1
        /\ filled' = (postID \in mainQueue[1])
        /\ DOMAIN mainQueue = 1 .. Len(mainQueue)
        /\ DOMAIN mainQueue' = 1 .. Len(mainQueue) - 1
        /\ \A k \in DOMAIN mainQueue' : mainQueue'[k] = mainQueue[k + 1]
    BY <1>1, <1>5, HeadTailProperties DEF ShowSavedCell, ShowSaved
  <2>2. /\ UNCHANGED <<postID, visiting, wanted, picture, avatar, idle, met>>
        /\ told' = idle
    BY <1>5 DEF ShowSavedCell, ShowSaved
  <2>3. ASSUME idle, postID \notin Refusable
        PROVE  /\ \A k \in DOMAIN mainQueue' :
                     postID \in mainQueue'[k] <=> postID \in wanted
               /\ filled' <=> postID \in wanted
    <3>1. \A k \in DOMAIN mainQueue : postID \in mainQueue[k] <=> postID \in wanted
      BY <1>0, <2>3
    <3>2. 1 \in DOMAIN mainQueue
          /\ \A k \in DOMAIN mainQueue' : k + 1 \in DOMAIN mainQueue
      BY <2>1
    <3>3. filled' <=> postID \in wanted
      BY <2>1, <3>1, <3>2, Zenon
    <3> QED BY <2>1, <3>1, <3>2, <3>3
  <2> QED BY <1>0, <2>2, <2>3
<1>6. CASE PictureLoads
  <2>1. UNCHANGED <<postID, filled, visiting, mainQueue, wanted, avatar,
                    idle, met, told>>
    BY <1>6, Zenon DEF PictureLoads, vars, button, reads, history
  <2>2. /\ picture'.shown = picture.shown \/ picture'.shown = picture.loading
        /\ picture'.loading = Nothing
    BY <1>1, <1>6 DEF PictureLoads, Arrived, Failed, View
  <2>3. /\ postID \in HasPicture => Within(picture, postID)'
        /\ idle => Within(picture, postID)'
        /\ idle => avatar'.loading \in {Nothing, postID}
        /\ met => avatar'.shown \in {Nothing, postID}
    BY <1>0, <2>1, <2>2
  <2> QED BY <1>0, <2>1, <2>3
<1>7. CASE AvatarLoads
  <2>1. UNCHANGED <<postID, filled, visiting, mainQueue, wanted, picture,
                    idle, met, told>>
    BY <1>7, Zenon DEF AvatarLoads, vars, button, reads, history
  <2>2. /\ avatar'.shown = avatar.shown \/ avatar'.shown = avatar.loading
        /\ avatar'.loading = Nothing
    BY <1>1, <1>7 DEF AvatarLoads, Arrived, Failed, View
  <2>3. /\ postID \in HasPicture => Within(picture, postID)'
        /\ idle => Within(picture, postID)'
        /\ idle => avatar'.loading \in {Nothing, postID}
        /\ met => avatar'.shown \in {Nothing, postID}
    BY <1>0, <2>1, <2>2
  <2> QED BY <1>0, <2>1, <2>3
<1>8. CASE Behind
  <2>1. UNCHANGED <<postID, filled, visiting, wanted, picture, avatar,
                    idle, met, told>>
    BY <1>8 DEF Behind, AnswerSaved, FailSaved, CommitUpdate, RefuseUpdate,
                Rule, LoseResult, Settle, button, reads, history
  <2>2. mainQueue' = mainQueue \/ mainQueue' = Append(mainQueue, SavedHere)
    BY <1>8 DEF Behind, AnswerSaved, FailSaved, CommitUpdate, RefuseUpdate,
                Rule, LoseResult, Settle, button, reads
  <2>3. postID \notin Refusable => (postID \in SavedHere <=> postID \in wanted)
    BY <1>0, <1>1 DEF SavedAsPressed
  <2>4. SavedHere \in SUBSET Post
    BY DEF SavedHere
  <2>5. ASSUME idle, postID \notin Refusable, NEW k \in DOMAIN mainQueue'
        PROVE  postID \in mainQueue'[k] <=> postID \in wanted
    <3>1. CASE mainQueue' = mainQueue
      BY <1>0, <2>5, <3>1
    <3>2. CASE mainQueue' = Append(mainQueue, SavedHere)
      <4>1. \/ mainQueue'[k] = SavedHere
            \/ k \in DOMAIN mainQueue /\ mainQueue'[k] = mainQueue[k]
        <5>1. /\ DOMAIN mainQueue = 1 .. Len(mainQueue) /\ Len(mainQueue) \in Nat
              /\ DOMAIN mainQueue' = 1 .. Len(mainQueue) + 1
              /\ mainQueue'[Len(mainQueue) + 1] = SavedHere
              /\ \A j \in 1 .. Len(mainQueue) : mainQueue'[j] = mainQueue[j]
          <6> DEFINE here == SavedHere
          <6>1. here \in SUBSET Post /\ mainQueue' = Append(mainQueue, here)
            BY <2>4, <3>2
          <6> HIDE DEF here
          <6>2. /\ DOMAIN mainQueue = 1 .. Len(mainQueue)
                /\ Len(mainQueue) \in Nat
                /\ DOMAIN mainQueue' = 1 .. Len(mainQueue) + 1
                /\ mainQueue'[Len(mainQueue) + 1] = here
                /\ \A j \in 1 .. Len(mainQueue) : mainQueue'[j] = mainQueue[j]
            BY <1>1, <6>1, AppendProperties
          <6> QED BY <6>2 DEF here
        <5> QED BY <2>5, <5>1
      <4> QED BY <1>0, <2>3, <2>5, <4>1
    <3> QED BY <2>2, <3>1, <3>2
  <2> QED BY <1>0, <2>1, <2>5
<1>9. CASE UNCHANGED cellVars
  BY <1>0, <1>9 DEF cellVars, vars, button, reads, history
<1> QED
  BY <1>2, <1>3, <1>4, <1>5, <1>6, <1>7, <1>8, <1>9 DEF CellNext

LEMMA CellInvariant == CellSpec => []CellInv
<1>1. CellInit => CellInv
  <2> SUFFICES ASSUME CellInit PROVE CellInv
    OBVIOUS
  <2>1. Inv
    BY InitInv DEF CellInit
  <2>2. CellTypeOK
    <3>1. Download(postID) \in View /\ Empty \in View
      BY DEF CellInit, Init, Download, Empty, View
    <3>2. picture \in View /\ avatar \in View
      BY <3>1 DEF CellInit
    <3>3. idle \in BOOLEAN /\ met \in BOOLEAN /\ told \in BOOLEAN
      BY DEF CellInit
    <3> QED BY <2>1, <3>2, <3>3 DEF CellTypeOK, Inv
  <2>3. OnlyItsOwn /\ IdleCellShowsItsPost
    <3>1. Within(picture, postID) /\ Within(avatar, postID)
      BY DEF CellInit, Within, Download, Empty
    <3>2. DOMAIN mainQueue = {}
      BY DEF CellInit, Init
    <3>3. \A p \in Post : visiting[p] > 0 => p = postID
      BY DEF CellInit, Init
    <3>4. ~ met /\ ~ told
      BY DEF CellInit
    <3> QED BY <3>1, <3>2, <3>3, <3>4
            DEF OnlyItsOwn, IdleCellShowsItsPost, Within
  <2> QED BY <2>1, <2>2, <2>3 DEF CellInv
<1>2. CellInv /\ [CellNext]_cellVars => CellInv'
  <2> SUFFICES ASSUME CellInv, [CellNext]_cellVars PROVE CellInv'
    OBVIOUS
  <2>1. Inv /\ [Next]_vars
    BY CellStepIsButtonStep DEF CellInv
  <2>2. Inv'
    BY <2>1, NextInv
  <2> QED BY <2>2, CellTypeStep, OnlyItsOwnStep DEF CellInv
<1> QED BY <1>1, <1>2, PTL DEF CellSpec

\* A post with a picture never shows another post's.
THEOREM PictureIsRight == CellSpec => []PictureIsOfPost
<1>1. CellInv => PictureIsOfPost
  BY DEF CellInv, OnlyItsOwn, Within, PictureIsOfPost
<1> QED BY <1>1, CellInvariant, PTL

\* A cell that had nothing under way when it was given its post shows nothing
\* of another: no picture, no avatar, no bookmark.
THEOREM IdleCellIsRight == CellSpec => []IdleCellShowsItsPost
<1>1. CellInv => IdleCellShowsItsPost
  BY DEF CellInv
<1> QED BY <1>1, CellInvariant, PTL
==============================================================================
