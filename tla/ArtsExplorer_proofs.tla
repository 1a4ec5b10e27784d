-------------------------- MODULE ArtsExplorer_proofs --------------------------
(***************************************************************************)
(* Proofs about the moderation centre, and about the whole system with the *)
(* author's phone in it, for every set of phones, posts and comments, all  *)
(* limits, every set of writes the server may refuse a moderator, and      *)
(* whatever an author can write, draw and choose.                          *)
(*                                                                         *)
(* The first part is about Spec, the moderation centre on its own; the     *)
(* second, from "The author's phone" on, about SystemSpec.                 *)
(***************************************************************************)
EXTENDS ArtsExplorer, QueueLemmas, SequenceTheorems, TLAPS

------------------------------------------------------------------------------
(* Types.                                                                  *)

LEMMA MembersAreItems == \A c \in Collection : Members(c) \subseteq Item
  BY DEF Members, Item

\* A write sent again is a write.
LEMMA QueuedIsWrite ==
    \A w \in Write : [w EXCEPT !.status = "queued"] \in Write
  BY DEF Write, Status

\* A restarted client still has a queue of writes.
LEMMA StopType ==
    ASSUME TypeOK, NEW d \in Device, NEW how \in {"closed", "trapped"},
           Stop(d, how)
    PROVE  TypeOK'
<1> DEFINE v == [k \in DOMAIN outbox[d] |-> [outbox[d][k] EXCEPT !.row = 0]]
           w == Resent(v)
<1>1. outbox[d] \in Seq(Write)
  BY DEF TypeOK
<1>2. ASSUME NEW k \in DOMAIN outbox[d]
      PROVE  v[k] \in Write
  <2>1. outbox[d][k] \in Write
    BY <1>1
  <2> QED BY <2>1 DEF Write
<1>3. w \in Seq(Write)
  <2>1. Len(outbox[d]) \in Nat /\ DOMAIN outbox[d] = 1 .. Len(outbox[d])
    BY <1>1
  <2>2. v \in [1 .. Len(outbox[d]) -> Write]
    BY <1>2, <2>1, Zenon
  <2> HIDE DEF v
  <2>3. v \in Seq(Write)
    BY <2>1, <2>2
  <2> QED BY <2>3, ResentProperties, QueuedIsWrite
<1>4. outbox' = [outbox EXCEPT ![d] = w]
  BY DEF Stop
<1> HIDE DEF w
<1>5. outbox' \in [Device -> Seq(Write)]
  BY <1>3, <1>4 DEF TypeOK
<1>6. toShow' \in [Device -> [Collection -> Seq(Item)]]
  <2>1. NoRows \in [Collection -> Seq(Item)]
    BY DEF NoRows
  <2> QED BY <2>1 DEF TypeOK, Stop
<1>7. /\ docs' = docs
      /\ phase' \in [Device -> {"running", "closed", "trapped"}]
      /\ asked' \in [Device -> [Collection -> Nat]]
      /\ mainQueue' \in [Device -> Seq(Block)]
      /\ approvals' = approvals
      /\ denials' = denials
  <2>1. NoneAsked \in [Collection -> Nat]
    BY DEF NoneAsked
  <2>2. /\ phase' = [phase EXCEPT ![d] = how]
        /\ asked' = [asked EXCEPT ![d] = NoneAsked]
        /\ mainQueue' = [mainQueue EXCEPT ![d] = <<>>]
        /\ UNCHANGED <<docs, approvals, denials>>
    BY DEF Stop, history
  <2>3. <<>> \in Seq(Block)
    OBVIOUS
  <2> QED BY <2>1, <2>2, <2>3 DEF TypeOK
<1> QED BY <1>5, <1>6, <1>7 DEF TypeOK

\* Every action of a screen keeps the types.
LEMMA ScreenType ==
    ASSUME TypeOK, NEW d \in Device, NEW c \in Collection, Screen(d, c)
    PROVE  TypeOK'
<1>1. CASE LoadPending(d, c)
  BY <1>1 DEF LoadPending, TypeOK, clientVars, history
<1>2. ASSUME NEW r \in DOMAIN toShow[d][c], PressApprove(d, c, r)
      PROVE  TypeOK'
  <2>1. toShow[d][c] \in Seq(Item) /\ toShow[d][c][r] \in Item
    BY DEF TypeOK
  <2>2. [op |-> "approve", item |-> toShow[d][c][r], on |-> c,
         row |-> 0, status |-> "queued"] \in Write
    BY <2>1 DEF Write, Status
  <2>3. RemoveAt(toShow[d][c], r) \in Seq(Item)
    BY <2>1, RemoveAtProperties
  <2>4. outbox' \in [Device -> Seq(Write)]
    BY <1>2, <2>2 DEF PressApprove, TypeOK
  <2>5. toShow' \in [Device -> [Collection -> Seq(Item)]]
    BY <1>2, <2>3 DEF PressApprove, TypeOK
  <2> QED BY <1>2, <2>1, <2>4, <2>5 DEF PressApprove, TypeOK
<1>3. ASSUME NEW r \in DOMAIN toShow[d][c], PressDeny(d, c, r)
      PROVE  TypeOK'
  <2>1. toShow[d][c] \in Seq(Item) /\ toShow[d][c][r] \in Item /\ r \in Nat
    BY DEF TypeOK
  <2>2. [op |-> "delete", item |-> toShow[d][c][r], on |-> c,
         row |-> r, status |-> "queued"] \in Write
    BY <2>1 DEF Write, Status
  <2>3. outbox' \in [Device -> Seq(Write)]
    BY <1>3, <2>2 DEF PressDeny, TypeOK
  <2> QED BY <1>3, <2>1, <2>3 DEF PressDeny, TypeOK, screenVars
<1>4. CASE ShowAnswer(d, c)
  <2>1. mainQueue[d] \in Seq(Block) /\ mainQueue[d] # <<>>
    BY <1>4 DEF ShowAnswer, TypeOK
  <2>2. Head(mainQueue[d]) \in Block /\ Tail(mainQueue[d]) \in Seq(Block)
    BY <2>1
  <2>3. Head(mainQueue[d]).rows \in Seq(Item)
    BY <1>4, <2>2 DEF ShowAnswer, Block
  <2>4. toShow' \in [Device -> [Collection -> Seq(Item)]]
    BY <1>4, <2>3 DEF ShowAnswer, TypeOK
  <2>5. mainQueue' \in [Device -> Seq(Block)]
    BY <1>4, <2>2 DEF ShowAnswer, TypeOK
  <2> QED BY <1>4, <2>4, <2>5 DEF ShowAnswer, TypeOK, history
<1>5. CASE RemoveRow(d, c)
  <2>1. mainQueue[d] \in Seq(Block) /\ mainQueue[d] # <<>>
    BY <1>5 DEF RemoveRow, RemovedIs, TypeOK
  <2>2. Tail(mainQueue[d]) \in Seq(Block)
    BY <2>1
  <2>3. toShow[d][c] \in Seq(Item)
    BY DEF TypeOK
  <2>4. RemoveAt(toShow[d][c], Head(mainQueue[d]).row) \in Seq(Item)
    BY <1>5, <2>3, RemoveAtProperties DEF RemoveRow
  <2>5. toShow' \in [Device -> [Collection -> Seq(Item)]]
    BY <1>5, <2>4 DEF RemoveRow, TypeOK
  <2>6. mainQueue' \in [Device -> Seq(Block)]
    BY <1>5, <2>2 DEF RemoveRow, TypeOK
  <2> QED BY <1>5, <2>5, <2>6 DEF RemoveRow, TypeOK, history
<1>6. CASE ReportFailedRemoval(d, c)
  <2>1. mainQueue[d] \in Seq(Block) /\ mainQueue[d] # <<>>
    BY <1>6 DEF ReportFailedRemoval, RemovedIs, TypeOK
  <2>2. Tail(mainQueue[d]) \in Seq(Block)
    BY <2>1
  <2> QED BY <1>6, <2>2
          DEF ReportFailedRemoval, TypeOK, screenVars, history
<1>7. CASE RemoveMissingRow(d, c)
  BY <1>7, StopType DEF RemoveMissingRow
<1> QED BY <1>1, <1>2, <1>3, <1>4, <1>5, <1>6, <1>7 DEF Screen

\* Every action of the client keeps the types.
LEMMA ClientType ==
    ASSUME TypeOK, NEW d \in Device, Client(d)
    PROVE  TypeOK'
<1>1. ASSUME NEW c \in Collection, AnswerLoad(d, c) \/ AnswerFromCache(d, c)
      PROVE  TypeOK'
  <2>1. PICK s \in BoundedSeq(Members(c), Limit(c)) : Deliver(d, c, s)
    BY <1>1 DEF AnswerLoad, AnswerFromCache
  <2>2. Limit(c) \in Nat
    BY LimitAssumption DEF Limit
  <2>3. s \in Seq(Members(c))
    BY <2>2, BoundedSeqIsSeq
  <2>4. s \in Seq(Item)
    BY <2>3, MembersAreItems
  <2>5. Answer(c, s) \in Block
    BY <2>4 DEF Answer, Block
  <2>6. mainQueue' \in [Device -> Seq(Block)]
    BY <2>1, <2>5 DEF Deliver, TypeOK
  <2>7. asked' \in [Device -> [Collection -> Nat]]
    BY <2>1 DEF Deliver, TypeOK
  <2> QED BY <2>1, <2>6, <2>7 DEF Deliver, TypeOK, history
<1>2. ASSUME NEW c \in Collection, FailLoad(d, c)
      PROVE  TypeOK'
  BY <1>2 DEF FailLoad, TypeOK, clientVars, history
<1>3. ASSUME NEW st \in Status, NEW k \in DOMAIN outbox[d],
             outbox' = [outbox EXCEPT ![d] = Ruled(@, k, st)],
             docs' \in [Item -> {"absent", "pending", "approved", "deleted"}],
             UNCHANGED <<screenVars, mainQueue, history>>
      PROVE  TypeOK'
  <2>1. outbox[d] \in Seq(Write)
    BY DEF TypeOK
  <2>2. [outbox[d][k] EXCEPT !.status = st] \in Write
    <3>1. outbox[d][k] \in Write
      BY <2>1
    <3> QED BY <3>1 DEF Write
  <2>3. Ruled(outbox[d], k, st) \in Seq(Write)
    BY <2>1, <2>2, RuledProperties
  <2>4. outbox' \in [Device -> Seq(Write)]
    BY <1>3, <2>3 DEF TypeOK
  <2> QED BY <1>3, <2>4 DEF TypeOK, screenVars, history
<1>4. ASSUME NEW k \in DOMAIN outbox[d], Rule(d, k) \/ Refuse(d, k)
      PROVE  TypeOK'
  <2>1. CASE CommitApprove(d, k)
    BY <1>3, <2>1 DEF CommitApprove, TypeOK, Status
  <2>2. CASE RejectApprove(d, k)
    BY <1>3, <2>2 DEF RejectApprove, TypeOK, Status
  <2>3. CASE CommitDelete(d, k)
    BY <1>3, <2>3 DEF CommitDelete, TypeOK, Status
  <2>4. CASE Refuse(d, k)
    BY <1>3, <2>4 DEF Refuse, TypeOK, Status
  <2> QED BY <1>4, <2>1, <2>2, <2>3, <2>4 DEF Rule
<1>8. CASE LoseResult(d)
  <2>1. outbox[d] \in Seq(Write)
    BY DEF TypeOK
  <2>2. Resent(outbox[d]) \in Seq(Write)
    BY <2>1, ResentProperties, QueuedIsWrite
  <2>3. outbox' \in [Device -> Seq(Write)]
    BY <1>8, <2>2 DEF LoseResult, TypeOK
  <2> QED BY <1>8, <2>3 DEF LoseResult, TypeOK, screenVars, history
<1>9. CASE Settle(d)
  <2>1. outbox[d] \in Seq(Write) /\ outbox[d] # <<>>
    BY <1>9 DEF Settle, HasResult, TypeOK
  <2>2. Head(outbox[d]) \in Write /\ Tail(outbox[d]) \in Seq(Write)
    BY <2>1
  <2> DEFINE w == Head(outbox[d])
             b == Removed(w.on, w.row, w.status = "committed")
  <2>3. w.row # 0 => b \in Block
    BY <2>2 DEF Write, Block, Removed
  <2>4. mainQueue' = IF w.row = 0 THEN mainQueue
                     ELSE [mainQueue EXCEPT ![d] = Append(@, b)]
    BY <1>9 DEF Settle
  <2> HIDE DEF w, b
  <2>5. mainQueue' \in [Device -> Seq(Block)]
    BY <2>3, <2>4 DEF TypeOK
  <2>6. outbox' \in [Device -> Seq(Write)]
    BY <1>9, <2>2 DEF Settle, TypeOK
  <2> QED BY <1>9, <2>5, <2>6 DEF Settle, TypeOK, screenVars, history
<1> QED BY <1>1, <1>2, <1>4, <1>8, <1>9 DEF Client

LEMMA InitType == Init => TypeOK
<1> SUFFICES ASSUME Init PROVE TypeOK
  OBVIOUS
<1>1. NoRows \in [Collection -> Seq(Item)]
  BY DEF NoRows
<1> QED BY <1>1 DEF Init, TypeOK, NoneAsked

LEMMA NextType == TypeOK /\ [Next]_vars => TypeOK'
<1> SUFFICES ASSUME TypeOK, [Next]_vars PROVE TypeOK'
  OBVIOUS
<1>1. ASSUME NEW i \in Item, Submit(i)
      PROVE  TypeOK'
  BY <1>1 DEF Submit, TypeOK, screenVars, clientVars, history
<1>2. ASSUME NEW d \in Device, PostScreen(d) \/ CommentScreen(d)
      PROVE  TypeOK'
  BY <1>2, ScreenType DEF PostScreen, CommentScreen, Collection
<1>3. ASSUME NEW d \in Device, Kill(d)
      PROVE  TypeOK'
  BY <1>3, StopType DEF Kill
<1>4. ASSUME NEW d \in Device, Launch(d)
      PROVE  TypeOK'
  BY <1>4 DEF Launch, TypeOK, clientVars, history
<1>5. ASSUME NEW d \in Device, Client(d)
      PROVE  TypeOK'
  BY <1>5, ClientType
<1>6. CASE UNCHANGED vars
  BY <1>6 DEF vars, TypeOK, screenVars, clientVars, history
<1> QED BY <1>1, <1>2, <1>3, <1>4, <1>5, <1>6 DEF Next

\* Every reachable state is well typed, whatever the number of phones.
THEOREM TypeCorrect == Spec => []TypeOK
<1>1. Init => TypeOK
  BY InitType
<1>2. TypeOK /\ [Next]_vars => TypeOK'
  BY NextType
<1> QED BY <1>1, <1>2, PTL DEF Spec
------------------------------------------------------------------------------
(* What a step can do to each part of the state.                           *)

\* The steps that touch the documents or the history.
LEMMA StepKinds ==
    ASSUME [Next]_vars
    PROVE  \/ UNCHANGED <<docs, approvals, denials>>
           \/ \E i \in Item : Submit(i)
           \/ \E d \in Device, c \in Collection :
                 \E r \in DOMAIN toShow[d][c] :
                    PressApprove(d, c, r) \/ PressDeny(d, c, r)
           \/ \E d \in Device : \E k \in DOMAIN outbox[d] :
                 CommitApprove(d, k) \/ CommitDelete(d, k)
<1>1. ASSUME NEW d \in Device, NEW c \in Collection, Screen(d, c)
      PROVE  \/ UNCHANGED <<docs, approvals, denials>>
             \/ \E r \in DOMAIN toShow[d][c] :
                   PressApprove(d, c, r) \/ PressDeny(d, c, r)
  BY <1>1 DEF Screen, LoadPending, ShowAnswer, RemoveRow, ReportFailedRemoval,
              RemoveMissingRow, Stop, history
<1>2. ASSUME NEW d \in Device, Kill(d) \/ Launch(d)
      PROVE  UNCHANGED <<docs, approvals, denials>>
  BY <1>2 DEF Kill, Stop, Launch, history
<1>3. ASSUME NEW d \in Device, Client(d)
      PROVE  \/ UNCHANGED <<docs, approvals, denials>>
             \/ \E k \in DOMAIN outbox[d] :
                   CommitApprove(d, k) \/ CommitDelete(d, k)
  BY <1>3 DEF Client, Rule, AnswerLoad, AnswerFromCache, Deliver, FailLoad,
              RejectApprove, Refuse, LoseResult, Settle, history
<1>4. CASE UNCHANGED vars
  BY <1>4 DEF vars, history
<1> QED BY <1>1, <1>2, <1>3, <1>4
        DEF Next, PostScreen, CommentScreen, Collection

\* A document only moves forward, and the history only grows.
LEMMA DocsOnlyAdvance ==
    ASSUME TypeOK, [Next]_vars
    PROVE  /\ approvals \subseteq approvals'
           /\ denials \subseteq denials'
           /\ \A i \in Item :
                 /\ docs[i] # "absent" => docs'[i] # "absent"
                 /\ docs[i] = "approved" => docs'[i] \in {"approved", "deleted"}
                 /\ docs[i] = "deleted" => docs'[i] = "deleted"
<1>1. CASE UNCHANGED <<docs, approvals, denials>>
  BY <1>1
<1>2. ASSUME NEW i \in Item, Submit(i)
      PROVE  UNCHANGED history /\ docs' = [docs EXCEPT ![i] = "pending"]
             /\ docs[i] = "absent"
  BY <1>2 DEF Submit
<1>3. ASSUME NEW d \in Device, NEW c \in Collection,
             NEW r \in DOMAIN toShow[d][c],
             PressApprove(d, c, r) \/ PressDeny(d, c, r)
      PROVE  /\ docs' = docs
             /\ approvals \subseteq approvals' /\ denials \subseteq denials'
  BY <1>3 DEF PressApprove, PressDeny
<1>4. ASSUME NEW d \in Device, NEW k \in DOMAIN outbox[d],
             CommitApprove(d, k)
      PROVE  \E i : /\ UNCHANGED history
                    /\ docs' = [docs EXCEPT ![i] = "approved"]
                    /\ docs[i] \in {"pending", "approved"}
  BY <1>4 DEF CommitApprove
<1>5. ASSUME NEW d \in Device, NEW k \in DOMAIN outbox[d],
             CommitDelete(d, k)
      PROVE  \E i : /\ UNCHANGED history
                    /\ docs' = [docs EXCEPT ![i] = "deleted"]
  BY <1>5 DEF CommitDelete
<1> QED BY <1>1, <1>2, <1>3, <1>4, <1>5, StepKinds DEF history, TypeOK

\* The rows of a screen: unchanged, cleared by a stop, one row shorter, or an
\* answer's.
LEMMA RowsChange ==
    ASSUME TypeOK, [Next]_vars, NEW d \in Device, NEW c \in Collection
    PROVE  \/ toShow'[d][c] = toShow[d][c]
           \/ toShow'[d][c] = <<>>
           \/ \E r \in DOMAIN toShow[d][c] :
                 toShow'[d][c] = RemoveAt(toShow[d][c], r)
           \/ /\ mainQueue[d] # <<>>
              /\ Head(mainQueue[d]).kind = "answer"
              /\ Head(mainQueue[d]).on = c
              /\ toShow'[d][c] = Head(mainQueue[d]).rows
<1> USE DEF TypeOK
<1>1. CASE UNCHANGED toShow
  BY <1>1
<1>2. ASSUME NEW e \in Device, toShow' = [toShow EXCEPT ![e] = NoRows]
      PROVE  toShow'[d][c] \in {toShow[d][c], <<>>}
  BY <1>2 DEF NoRows
<1>3. ASSUME NEW e \in Device, NEW b \in Collection,
             NEW r \in DOMAIN toShow[e][b],
             toShow' = [toShow EXCEPT ![e][b] = RemoveAt(@, r)]
      PROVE  \/ toShow'[d][c] = toShow[d][c]
             \/ d = e /\ c = b /\ toShow'[d][c] = RemoveAt(toShow[d][c], r)
  BY <1>3
<1>4. ASSUME NEW e \in Device, NEW b \in Collection, ShowAnswer(e, b)
      PROVE  \/ toShow'[d][c] = toShow[d][c]
             \/ /\ d = e /\ c = b
                /\ mainQueue[d] # <<>>
                /\ Head(mainQueue[d]).kind = "answer"
                /\ Head(mainQueue[d]).on = c
                /\ toShow'[d][c] = Head(mainQueue[d]).rows
  BY <1>4 DEF ShowAnswer
<1> USE DEF screenVars
<1>5. ASSUME NEW e \in Device, NEW b \in Collection, Screen(e, b)
      PROVE  \/ UNCHANGED toShow
             \/ \E r \in DOMAIN toShow[e][b] :
                   toShow' = [toShow EXCEPT ![e][b] = RemoveAt(@, r)]
             \/ ShowAnswer(e, b)
             \/ toShow' = [toShow EXCEPT ![e] = NoRows]
  BY <1>5 DEF Screen, LoadPending, PressApprove, PressDeny, RemoveRow,
              ReportFailedRemoval, RemoveMissingRow, Stop
<1>6. \/ UNCHANGED toShow
      \/ \E e \in Device, b \in Collection : Screen(e, b)
      \/ \E e \in Device : toShow' = [toShow EXCEPT ![e] = NoRows]
  BY DEF Next, Submit, PostScreen, CommentScreen, Collection, Kill, Stop,
         Launch, Client, AnswerLoad, AnswerFromCache, Deliver, FailLoad,
         Rule, CommitApprove, RejectApprove, CommitDelete, Refuse, LoseResult,
         Settle, vars
<1> QED BY <1>1, <1>2, <1>3, <1>4, <1>5, <1>6

\* The main queue: unchanged, cleared by a stop, one block shorter, or longer
\* by a list of documents or by the completion of a delete.
LEMMA MainQueueChange ==
    ASSUME TypeOK, [Next]_vars, NEW d \in Device
    PROVE  \/ mainQueue'[d] = mainQueue[d]
           \/ mainQueue'[d] = <<>>
           \/ mainQueue[d] # <<>> /\ mainQueue'[d] = Tail(mainQueue[d])
           \/ \E c \in Collection : \E s \in Seq(Members(c)) :
                 /\ docs' = docs
                 /\ IsListOf(d, c, s)
                 /\ mainQueue'[d] = Append(mainQueue[d], Answer(c, s))
           \/ /\ outbox[d] # <<>> /\ Head(outbox[d]).row # 0
              /\ mainQueue'[d] =
                    Append(mainQueue[d],
                           Removed(Head(outbox[d]).on, Head(outbox[d]).row,
                                   Head(outbox[d]).status = "committed"))
<1> DEFINE Result(e) == Removed(Head(outbox[e]).on, Head(outbox[e]).row,
                                Head(outbox[e]).status = "committed")
<1> HIDE DEF Result
<1> USE DEF TypeOK
<1>1. CASE UNCHANGED mainQueue
  BY <1>1
<1>2. ASSUME NEW e \in Device, mainQueue' = [mainQueue EXCEPT ![e] = <<>>]
      PROVE  mainQueue'[d] \in {mainQueue[d], <<>>}
  BY <1>2
<1>3. ASSUME NEW e \in Device, mainQueue[e] # <<>>,
             mainQueue' = [mainQueue EXCEPT ![e] = Tail(@)]
      PROVE  \/ mainQueue'[d] = mainQueue[d]
             \/ mainQueue[d] # <<>> /\ mainQueue'[d] = Tail(mainQueue[d])
  BY <1>3
<1>4. ASSUME NEW e \in Device, NEW c \in Collection,
             AnswerLoad(e, c) \/ AnswerFromCache(e, c)
      PROVE  \/ mainQueue'[d] = mainQueue[d]
             \/ \E s \in Seq(Members(c)) :
                   /\ docs' = docs
                   /\ IsListOf(d, c, s)
                   /\ mainQueue'[d] = Append(mainQueue[d], Answer(c, s))
  <2>1. PICK s \in BoundedSeq(Members(c), Limit(c)) :
          IsListOf(e, c, s) /\ Deliver(e, c, s)
    BY <1>4 DEF AnswerLoad, AnswerFromCache, IsPendingList
  <2>2. s \in Seq(Members(c))
    BY LimitAssumption, BoundedSeqIsSeq DEF Limit
  <2>3. docs' = docs
    BY <2>1 DEF Deliver
  <2> QED BY <2>1, <2>2, <2>3 DEF Deliver
<1>5. ASSUME NEW e \in Device, outbox[e] # <<>>, Head(outbox[e]).row # 0,
             mainQueue' = [mainQueue EXCEPT ![e] = Append(@, Result(e))]
      PROVE  \/ mainQueue'[d] = mainQueue[d]
             \/ d = e /\ mainQueue'[d] = Append(mainQueue[d], Result(d))
  BY <1>5
<1> USE DEF clientVars
<1>6. ASSUME NEW e \in Device, NEW c \in Collection, Screen(e, c)
      PROVE  \/ UNCHANGED mainQueue
             \/ /\ mainQueue[e] # <<>>
                /\ mainQueue' = [mainQueue EXCEPT ![e] = Tail(@)]
             \/ mainQueue' = [mainQueue EXCEPT ![e] = <<>>]
  BY <1>6 DEF Screen, LoadPending, PressApprove, PressDeny, ShowAnswer,
              RemoveRow, ReportFailedRemoval, RemoveMissingRow, RemovedIs, Stop
<1>7. ASSUME NEW e \in Device, Client(e)
      PROVE  \/ UNCHANGED mainQueue
             \/ \E c \in Collection : AnswerLoad(e, c) \/ AnswerFromCache(e, c)
             \/ /\ outbox[e] # <<>> /\ Head(outbox[e]).row # 0
                /\ mainQueue' = [mainQueue EXCEPT ![e] = Append(@, Result(e))]
  BY <1>7 DEF Client, FailLoad, Rule, CommitApprove, RejectApprove,
              CommitDelete, Refuse, LoseResult, Settle, HasResult, Result
<1>8. \/ UNCHANGED mainQueue
      \/ \E e \in Device, c \in Collection : Screen(e, c)
      \/ \E e \in Device : mainQueue' = [mainQueue EXCEPT ![e] = <<>>]
      \/ \E e \in Device : Client(e)
  BY DEF Next, Submit, PostScreen, CommentScreen, Collection, Kill, Stop,
         Launch, vars
<1>9. \/ mainQueue'[d] = mainQueue[d]
      \/ mainQueue'[d] = <<>>
      \/ mainQueue[d] # <<>> /\ mainQueue'[d] = Tail(mainQueue[d])
      \/ \E c \in Collection : \E s \in Seq(Members(c)) :
            /\ docs' = docs
            /\ IsListOf(d, c, s)
            /\ mainQueue'[d] = Append(mainQueue[d], Answer(c, s))
      \/ /\ outbox[d] # <<>> /\ Head(outbox[d]).row # 0
         /\ mainQueue'[d] = Append(mainQueue[d], Result(d))
  BY <1>1, <1>2, <1>3, <1>4, <1>5, <1>6, <1>7, <1>8
<1> QED BY <1>9 DEF Result

\* d's queue of writes has become q, and every write in it waits.
Restored(d, q) ==
    /\ DOMAIN q = DOMAIN outbox[d]
    /\ \A k \in DOMAIN q : /\ q[k].op = outbox[d][k].op
                          /\ q[k].item = outbox[d][k].item
                          /\ q[k].status = "queued"

\* The queue of writes: unchanged, one decision longer, one write ruled on, its
\* ruled head gone, or all of it to be sent again.
LEMMA OutboxChange ==
    ASSUME TypeOK, DecisionsAreKnown, WritesAreDecisions, [Next]_vars,
           NEW d \in Device
    PROVE  \/ outbox'[d] = outbox[d]
           \/ \E w \in Write :
                 /\ outbox'[d] = Append(outbox[d], w)
                 /\ w.status = "queued"
                 /\ w.op = "approve" => w.item \in approvals'
                 /\ w.op = "delete" => w.item \in denials'
           \/ \E k \in DOMAIN outbox[d], w \in Write :
                 /\ outbox'[d] = [outbox[d] EXCEPT ![k] = w]
                 /\ w.op = outbox[d][k].op /\ w.item = outbox[d][k].item
                 /\ RulingStands(w, docs')
           \/ /\ outbox[d] # <<>> /\ Head(outbox[d]).status # "queued"
              /\ outbox'[d] = Tail(outbox[d])
           \/ Restored(d, outbox'[d])
<1> DEFINE
      Pressed(w) ==
        /\ outbox'[d] = Append(outbox[d], w)
        /\ w.status = "queued"
        /\ w.op = "approve" => w.item \in approvals'
        /\ w.op = "delete" => w.item \in denials'
      RuledOn(k, w) ==
        /\ outbox'[d] = [outbox[d] EXCEPT ![k] = w]
        /\ w.op = outbox[d][k].op /\ w.item = outbox[d][k].item
        /\ RulingStands(w, docs')
      Left ==
        /\ outbox[d] # <<>> /\ Head(outbox[d]).status # "queued"
        /\ outbox'[d] = Tail(outbox[d])
      Back == Restored(d, outbox'[d])
<1>0. Stop(d, "closed") \/ Stop(d, "trapped") => Back
  <2> DEFINE v == [k \in DOMAIN outbox[d] |-> [outbox[d][k] EXCEPT !.row = 0]]
  <2>1. Stop(d, "closed") \/ Stop(d, "trapped") => outbox'[d] = Resent(v)
    BY DEF Stop, TypeOK
  <2>2. \A k \in DOMAIN outbox[d] : outbox[d][k] \in Write
    BY DEF TypeOK
  <2>3. \A k \in DOMAIN outbox[d] :
           /\ v[k].op = outbox[d][k].op
           /\ v[k].item = outbox[d][k].item
           /\ v[k] \in Write
    BY <2>2 DEF Write
  <2>4. DOMAIN v = DOMAIN outbox[d]
    OBVIOUS
  <2> HIDE DEF v
  <2>5. DOMAIN Resent(v) = DOMAIN v
    BY DEF Resent
  <2>6. ASSUME NEW k \in DOMAIN v
        PROVE  /\ Resent(v)[k].op = v[k].op
               /\ Resent(v)[k].item = v[k].item
               /\ Resent(v)[k].status = "queued"
    <3>1. Resent(v)[k] = [v[k] EXCEPT !.status = "queued"]
      BY Zenon DEF Resent
    <3> QED BY <2>3, <2>4, <3>1 DEF Write
  <2> QED BY <2>1, <2>3, <2>4, <2>5, <2>6 DEF Restored
<1>1. ASSUME NEW c \in Collection, Screen(d, c)
      PROVE  \/ outbox'[d] = outbox[d]
             \/ \E w \in Write : Pressed(w)
             \/ Back
  <2>1. ASSUME NEW r \in DOMAIN toShow[d][c], PressApprove(d, c, r)
        PROVE  \E w \in Write : Pressed(w)
    <3>1. toShow[d][c] \in Seq(Item) /\ toShow[d][c][r] \in Item
      BY DEF TypeOK
    <3> DEFINE w == [op |-> "approve", item |-> toShow[d][c][r], on |-> c,
                     row |-> 0, status |-> "queued"]
    <3>2. w \in Write
      BY <3>1 DEF Write, Status
    <3>3. Pressed(w)
      BY <2>1 DEF PressApprove, TypeOK
    <3> QED BY <3>2, <3>3
  <2>2. ASSUME NEW r \in DOMAIN toShow[d][c], PressDeny(d, c, r)
        PROVE  \E w \in Write : Pressed(w)
    <3>1. toShow[d][c] \in Seq(Item) /\ toShow[d][c][r] \in Item /\ r \in Nat
      BY DEF TypeOK
    <3> DEFINE w == [op |-> "delete", item |-> toShow[d][c][r], on |-> c,
                     row |-> r, status |-> "queued"]
    <3>2. w \in Write
      BY <3>1 DEF Write, Status
    <3>3. Pressed(w)
      BY <2>2 DEF PressDeny, TypeOK
    <3> QED BY <3>2, <3>3
  <2>3. CASE RemoveMissingRow(d, c)
    BY <1>0, <2>3 DEF RemoveMissingRow
  <2>4. CASE UNCHANGED outbox
    BY <2>4
  <2> QED BY <1>1, <2>1, <2>2, <2>3, <2>4
          DEF Screen, LoadPending, ShowAnswer, RemoveRow, ReportFailedRemoval,
              clientVars
<1>2. ASSUME NEW k \in DOMAIN outbox[d], NEW st \in Status,
             outbox' = [outbox EXCEPT ![d] = Ruled(@, k, st)],
             RulingStands([outbox[d][k] EXCEPT !.status = st], docs')
      PROVE  \E w \in Write : RuledOn(k, w)
  <2> DEFINE w == [outbox[d][k] EXCEPT !.status = st]
  <2>1. outbox[d] \in Seq(Write)
    BY DEF TypeOK
  <2>2. outbox[d][k] \in Write
    BY <2>1
  <2>3. w \in Write /\ w.op = outbox[d][k].op /\ w.item = outbox[d][k].item
    BY <2>2 DEF Write
  <2>4. outbox'[d] = [outbox[d] EXCEPT ![k] = w]
    BY <1>2 DEF TypeOK, Ruled
  <2> HIDE DEF w
  <2>5. RulingStands(w, docs')
    BY <1>2 DEF w
  <2> QED BY <2>3, <2>4, <2>5
<1>3. ASSUME NEW k \in DOMAIN outbox[d], Rule(d, k) \/ Refuse(d, k)
      PROVE  \E w \in Write : RuledOn(k, w)
  <2> DEFINE w(st) == [outbox[d][k] EXCEPT !.status = st]
  <2>1. /\ outbox[d][k] \in Write
        /\ outbox[d][k].item \in Item
        /\ \A st \in Status :
              /\ w(st).status = st
              /\ w(st).op = outbox[d][k].op
              /\ w(st).item = outbox[d][k].item
        /\ docs[outbox[d][k].item] # "absent"
    <3>1. outbox[d] \in Seq(Write)
      BY DEF TypeOK
    <3>2. outbox[d][k] \in Write
      BY <3>1
    <3>3. IsDecision(outbox[d][k])
      BY DEF WritesAreDecisions
    <3>4. docs[outbox[d][k].item] # "absent"
      BY <3>2, <3>3 DEF IsDecision, DecisionsAreKnown, Write
    <3> QED BY <3>2, <3>4 DEF Write
  <2>0. {"committed", "rejected"} \subseteq Status
    BY DEF Status
  <2> HIDE DEF w
  <2>2. CASE CommitApprove(d, k)
    <3>1. /\ outbox[d][k].op = "approve"
          /\ docs'[outbox[d][k].item] = "approved"
          /\ outbox' = [outbox EXCEPT ![d] = Ruled(@, k, "committed")]
      BY <2>1, <2>2 DEF CommitApprove, TypeOK
    <3>2. RulingStands(w("committed"), docs')
      BY <2>0, <2>1, <3>1 DEF RulingStands
    <3> QED BY <1>2, <2>0, <3>1, <3>2 DEF w
  <2>3. CASE RejectApprove(d, k)
    <3>1. /\ outbox[d][k].op = "approve"
          /\ docs'[outbox[d][k].item] = "deleted"
          /\ outbox' = [outbox EXCEPT ![d] = Ruled(@, k, "rejected")]
      BY <2>1, <2>3 DEF RejectApprove, TypeOK
    <3>2. RulingStands(w("rejected"), docs')
      BY <2>0, <2>1, <3>1 DEF RulingStands
    <3> QED BY <1>2, <2>0, <3>1, <3>2 DEF w
  <2>4. CASE CommitDelete(d, k)
    <3>1. /\ outbox[d][k].op = "delete"
          /\ docs'[outbox[d][k].item] = "deleted"
          /\ outbox' = [outbox EXCEPT ![d] = Ruled(@, k, "committed")]
      BY <2>1, <2>4 DEF CommitDelete, TypeOK
    <3>2. RulingStands(w("committed"), docs')
      BY <2>0, <2>1, <3>1 DEF RulingStands
    <3> QED BY <1>2, <2>0, <3>1, <3>2 DEF w
  <2>5. CASE Refuse(d, k)
    <3>1. /\ <<outbox[d][k].op, outbox[d][k].item>> \in Refusable
          /\ outbox' = [outbox EXCEPT ![d] = Ruled(@, k, "rejected")]
      BY <2>5 DEF Refuse
    <3>2. RulingStands(w("rejected"), docs')
      BY <2>0, <2>1, <3>1 DEF RulingStands
    <3> QED BY <1>2, <2>0, <3>1, <3>2 DEF w
  <2> HIDE DEF RuledOn
  <2> QED BY <1>3, <2>2, <2>3, <2>4, <2>5 DEF Rule
<1>10. ASSUME Client(d)
       PROVE  \/ outbox'[d] = outbox[d]
              \/ \E k \in DOMAIN outbox[d], w \in Write : RuledOn(k, w)
              \/ Left
              \/ Back
  <2>1. CASE LoseResult(d)
    <3>1. outbox'[d] = Resent(outbox[d]) /\ outbox[d] \in Seq(Write)
      BY <2>1 DEF LoseResult, TypeOK
    <3>2. /\ DOMAIN Resent(outbox[d]) = DOMAIN outbox[d]
          /\ \A k \in DOMAIN outbox[d] :
                Resent(outbox[d])[k] = [outbox[d][k] EXCEPT !.status = "queued"]
      BY <3>1, ResentProperties, QueuedIsWrite
    <3>3. \A k \in DOMAIN outbox[d] : outbox[d][k] \in Write
      BY <3>1
    <3>4. \A k \in DOMAIN outbox[d] :
             /\ outbox'[d][k].op = outbox[d][k].op
             /\ outbox'[d][k].item = outbox[d][k].item
             /\ outbox'[d][k].status = "queued"
      <4> SUFFICES ASSUME NEW k \in DOMAIN outbox[d]
                   PROVE  /\ outbox'[d][k].op = outbox[d][k].op
                          /\ outbox'[d][k].item = outbox[d][k].item
                          /\ outbox'[d][k].status = "queued"
        OBVIOUS
      <4>1. outbox'[d][k] = [outbox[d][k] EXCEPT !.status = "queued"]
        BY <3>1, <3>2, Zenon
      <4> QED BY <3>3, <4>1 DEF Write
    <3>5. DOMAIN outbox'[d] = DOMAIN outbox[d]
      BY <3>1, <3>2, Zenon
    <3>6. Back
      BY <3>4, <3>5, Zenon DEF Restored
    <3> QED BY <3>6
  <2>2. CASE Settle(d)
    BY <2>2 DEF Settle, HasResult, TypeOK
  <2>3. CASE UNCHANGED outbox
    BY <2>3
  <2> HIDE DEF RuledOn, Left, Back
  <2> QED BY <1>3, <1>10, <2>1, <2>2, <2>3
          DEF Client, AnswerLoad, AnswerFromCache, Deliver, FailLoad, clientVars
<1>4. ASSUME Kill(d) PROVE Back
  BY <1>0, <1>4 DEF Kill
<1>5. ASSUME NEW e \in Device \ {d},
             \/ \E c \in Collection : Screen(e, c)
             \/ Kill(e)
             \/ Client(e)
      PROVE  outbox'[d] = outbox[d]
  BY <1>5 DEF Screen, LoadPending, PressApprove, PressDeny, ShowAnswer,
              RemoveRow, ReportFailedRemoval, RemoveMissingRow, Stop, Kill,
              Client, AnswerLoad, AnswerFromCache, Deliver, FailLoad,
              Rule, CommitApprove, RejectApprove,
              CommitDelete, Refuse, LoseResult, Settle, clientVars, TypeOK
<1>6. \/ UNCHANGED outbox
      \/ \E e \in Device :
            \/ \E c \in Collection : Screen(e, c)
            \/ Kill(e)
            \/ Client(e)
  BY DEF Next, Submit, PostScreen, CommentScreen, Collection, Launch, vars,
         clientVars
<1> HIDE DEF Pressed, RuledOn, Left, Back
<1>7. \/ outbox'[d] = outbox[d]
      \/ \E w \in Write : Pressed(w)
      \/ \E k \in DOMAIN outbox[d], w \in Write : RuledOn(k, w)
      \/ Left
      \/ Back
  <2>1. CASE UNCHANGED outbox
    BY <2>1
  <2>2. ASSUME NEW e \in Device,
               \/ \E c \in Collection : Screen(e, c)
               \/ Kill(e)
               \/ Client(e)
        PROVE  \/ outbox'[d] = outbox[d]
               \/ \E w \in Write : Pressed(w)
               \/ \E k \in DOMAIN outbox[d], w \in Write : RuledOn(k, w)
               \/ Left
               \/ Back
    <3>1. CASE e = d
      BY <1>1, <1>10, <1>4, <2>2, <3>1
    <3>2. CASE e # d
      BY <1>5, <2>2, <3>2
    <3> QED BY <3>1, <3>2
  <2> QED BY <1>6, <2>1, <2>2
<1> QED BY <1>7 DEF Pressed, RuledOn, Left, Back
------------------------------------------------------------------------------
(* The inductive invariant, conjunct by conjunct.                          *)

\* The items a moderator's press adds to the history were on a row, and the
\* write that carries the decision is in the queue.
LEMMA HistoryChange ==
    ASSUME TypeOK, RowsAreKnown, [Next]_vars, NEW i \in Item
    PROVE  /\ i \in approvals' \ approvals =>
                 docs'[i] # "absent" /\ \E d \in Device : Owes(d, "approve", i)'
           /\ i \in denials' \ denials =>
                 docs'[i] # "absent" /\ \E d \in Device : Owes(d, "delete", i)'
<1>1. CASE UNCHANGED history
  BY <1>1 DEF history
<1>2. ASSUME NEW d \in Device, NEW c \in Collection,
             NEW r \in DOMAIN toShow[d][c],
             PressApprove(d, c, r)
      PROVE  /\ denials' = denials
             /\ i \in approvals' \ approvals =>
                   docs'[i] # "absent" /\ Owes(d, "approve", i)'
  <2> DEFINE w == [op |-> "approve", item |-> toShow[d][c][r], on |-> c,
                   row |-> 0, status |-> "queued"]
             k == Len(outbox[d]) + 1
  <2>1. /\ outbox[d] \in Seq(Write) /\ outbox'[d] = Append(outbox[d], w)
        /\ denials' = denials /\ docs' = docs
        /\ approvals' = approvals \union {toShow[d][c][r]}
    BY <1>2 DEF PressApprove, TypeOK
  <2>2. k \in DOMAIN outbox'[d] /\ outbox'[d][k] = w
    BY <2>1
  <2>3. docs[toShow[d][c][r]] # "absent"
    BY DEF RowsAreKnown, Known
  <2> QED BY <2>1, <2>2, <2>3 DEF Owes
<1>3. ASSUME NEW d \in Device, NEW c \in Collection,
             NEW r \in DOMAIN toShow[d][c],
             PressDeny(d, c, r)
      PROVE  /\ approvals' = approvals
             /\ i \in denials' \ denials =>
                   docs'[i] # "absent" /\ Owes(d, "delete", i)'
  <2> DEFINE w == [op |-> "delete", item |-> toShow[d][c][r], on |-> c,
                   row |-> r, status |-> "queued"]
             k == Len(outbox[d]) + 1
  <2>1. /\ outbox[d] \in Seq(Write) /\ outbox'[d] = Append(outbox[d], w)
        /\ approvals' = approvals /\ docs' = docs
        /\ denials' = denials \union {toShow[d][c][r]}
    BY <1>3 DEF PressDeny, TypeOK
  <2>2. k \in DOMAIN outbox'[d] /\ outbox'[d][k] = w
    BY <2>1
  <2>3. docs[toShow[d][c][r]] # "absent"
    BY DEF RowsAreKnown, Known
  <2> QED BY <2>1, <2>2, <2>3 DEF Owes
<1>4. \/ UNCHANGED history
      \/ \E d \in Device, c \in Collection : \E r \in DOMAIN toShow[d][c] :
            PressApprove(d, c, r) \/ PressDeny(d, c, r)
  BY StepKinds DEF Submit, CommitApprove, CommitDelete, history
<1> QED BY <1>1, <1>2, <1>3, <1>4

LEMMA DecisionsAreKnownStep ==
    ASSUME TypeOK, DecisionsAreKnown, RowsAreKnown, [Next]_vars
    PROVE  DecisionsAreKnown'
<1> SUFFICES ASSUME NEW i \in approvals' \union denials'
             PROVE  docs'[i] # "absent"
  BY DEF DecisionsAreKnown
<1>1. i \in Item
  BY NextType DEF TypeOK
<1>2. CASE i \in approvals \union denials
  BY <1>1, <1>2, DocsOnlyAdvance DEF DecisionsAreKnown
<1>3. CASE i \notin approvals \union denials
  BY <1>1, <1>3, HistoryChange
<1> QED BY <1>2, <1>3

LEMMA RowsAreKnownStep ==
    ASSUME TypeOK, RowsAreKnown, AnswersAreKnown, [Next]_vars
    PROVE  RowsAreKnown'
<1> SUFFICES ASSUME NEW d \in Device, NEW c \in Collection,
                    NEW k \in DOMAIN toShow'[d][c]
             PROVE  docs'[toShow'[d][c][k]] # "absent"
  BY DEF RowsAreKnown, Known
<1>1. toShow'[d][c] \in Seq(Item) /\ toShow'[d][c][k] \in Item
  BY NextType DEF TypeOK
<1>2. SUFFICES docs[toShow'[d][c][k]] # "absent"
  BY <1>1, DocsOnlyAdvance
<1>3. toShow[d][c] \in Seq(Item)
  BY DEF TypeOK
<1>4. CASE toShow'[d][c] = toShow[d][c]
  BY <1>4 DEF RowsAreKnown, Known
<1>5. CASE toShow'[d][c] = <<>>
  BY <1>5
<1>6. ASSUME NEW r \in DOMAIN toShow[d][c],
             toShow'[d][c] = RemoveAt(toShow[d][c], r)
      PROVE  docs[toShow'[d][c][k]] # "absent"
  <2>1. /\ Len(toShow'[d][c]) = Len(toShow[d][c]) - 1
        /\ \A j \in 1 .. Len(toShow[d][c]) - 1 :
              toShow'[d][c][j] = IF j < r THEN toShow[d][c][j]
                                 ELSE toShow[d][c][j + 1]
    BY <1>3, <1>6, RemoveAtProperties
  <2>2. k \in 1 .. Len(toShow[d][c]) - 1
    BY <1>1, <2>1
  <2>3. \/ k \in DOMAIN toShow[d][c] /\ toShow'[d][c][k] = toShow[d][c][k]
        \/ /\ k + 1 \in DOMAIN toShow[d][c]
           /\ toShow'[d][c][k] = toShow[d][c][k + 1]
    BY <1>3, <2>1, <2>2
  <2> QED BY <2>3 DEF RowsAreKnown, Known
<1>7. CASE /\ mainQueue[d] # <<>>
           /\ Head(mainQueue[d]).kind = "answer"
           /\ toShow'[d][c] = Head(mainQueue[d]).rows
  <2>1. mainQueue[d] \in Seq(Block) /\ 1 \in DOMAIN mainQueue[d]
    BY <1>7 DEF TypeOK
  <2>2. Head(mainQueue[d]) = mainQueue[d][1]
    BY <2>1, <1>7
  <2> QED BY <1>7, <2>1, <2>2 DEF AnswersAreKnown, Known
<1> QED BY <1>4, <1>5, <1>6, <1>7, RowsChange

LEMMA AnswersAreKnownStep ==
    ASSUME TypeOK, AnswersAreKnown, [Next]_vars
    PROVE  AnswersAreKnown'
<1> SUFFICES ASSUME NEW d \in Device, NEW k \in DOMAIN mainQueue'[d],
                    mainQueue'[d][k].kind = "answer",
                    NEW r \in DOMAIN mainQueue'[d][k].rows
             PROVE  docs'[mainQueue'[d][k].rows[r]] # "absent"
  BY DEF AnswersAreKnown, Known
<1> DEFINE b == mainQueue'[d][k]
<1>1. mainQueue[d] \in Seq(Block) /\ mainQueue'[d] \in Seq(Block)
  BY NextType DEF TypeOK
<1>2. b \in Block
  BY <1>1
<1>3. b.rows[r] \in Item
  <2>1. b.rows \in Seq(Item)
    BY <1>2 DEF Block
  <2> QED BY <2>1
<1>4. SUFFICES docs[b.rows[r]] # "absent"
  BY <1>3, DocsOnlyAdvance
<1>5. ASSUME NEW j \in DOMAIN mainQueue[d], b = mainQueue[d][j]
      PROVE  docs[b.rows[r]] # "absent"
  BY <1>5 DEF AnswersAreKnown, Known
<1>6. CASE mainQueue'[d] = mainQueue[d]
  BY <1>5, <1>6
<1>7. CASE mainQueue'[d] = <<>>
  BY <1>7
<1>8. CASE mainQueue[d] # <<>> /\ mainQueue'[d] = Tail(mainQueue[d])
  <2>1. k + 1 \in DOMAIN mainQueue[d] /\ b = mainQueue[d][k + 1]
    BY <1>1, <1>8
  <2> QED BY <1>5, <2>1
<1>9. ASSUME NEW c \in Collection, NEW s \in Seq(Members(c)),
             IsListOf(d, c, s),
             mainQueue'[d] = Append(mainQueue[d], Answer(c, s))
      PROVE  docs[b.rows[r]] # "absent"
  <2>1. CASE k \in DOMAIN mainQueue[d]
    BY <1>1, <1>5, <1>9, <2>1
  <2>2. CASE k \notin DOMAIN mainQueue[d]
    <3>1. b = Answer(c, s)
      BY <1>1, <1>9, <2>2
    <3>2. b.rows = s
      BY <3>1 DEF Answer
    <3>3. s[r] \in ToSet(s)
      BY <3>2 DEF ToSet
    <3>4. docs[s[r]] # "absent"
      BY <1>9, <3>3 DEF IsListOf
    <3> QED BY <3>2, <3>4
  <2> QED BY <2>1, <2>2
<1> DEFINE e == Removed(Head(outbox[d]).on, Head(outbox[d]).row,
                        Head(outbox[d]).status = "committed")
<1>10. CASE mainQueue'[d] = Append(mainQueue[d], e)
  <2> e.kind = "removed"
    BY DEF Removed
  <2> HIDE DEF e
  <2>1. k \in DOMAIN mainQueue[d] \/ b = e
    BY <1>1, <1>10
  <2>2. b # e
    BY <1>10
  <2> QED BY <1>1, <1>5, <1>10, <2>1, <2>2
<1> QED BY <1>6, <1>7, <1>8, <1>9, <1>10, MainQueueChange

LEMMA WritesAreDecisionsStep ==
    ASSUME TypeOK, DecisionsAreKnown, WritesAreDecisions, [Next]_vars
    PROVE  WritesAreDecisions'
<1> DEFINE Decided(w) == /\ w.op = "approve" => w.item \in approvals'
                         /\ w.op = "delete" => w.item \in denials'
<1> SUFFICES ASSUME NEW d \in Device, NEW k \in DOMAIN outbox'[d]
             PROVE  Decided(outbox'[d][k])
  BY DEF WritesAreDecisions, IsDecision
<1>1. outbox[d] \in Seq(Write)
  BY DEF TypeOK
<1>2. \A j \in DOMAIN outbox[d] : Decided(outbox[d][j])
  BY DocsOnlyAdvance DEF WritesAreDecisions, IsDecision
<1>3. \/ outbox'[d][k] = outbox[d][k] /\ k \in DOMAIN outbox[d]
      \/ Decided(outbox'[d][k])
      \/ \E j \in DOMAIN outbox[d] : /\ outbox'[d][k].op = outbox[d][j].op
                                    /\ outbox'[d][k].item = outbox[d][j].item
  <2>1. CASE outbox'[d] = outbox[d]
    BY <2>1
  <2>2. ASSUME NEW w \in Write, outbox'[d] = Append(outbox[d], w), Decided(w)
        PROVE  \/ outbox'[d][k] = outbox[d][k] /\ k \in DOMAIN outbox[d]
               \/ Decided(outbox'[d][k])
    BY <1>1, <2>2
  <2>3. ASSUME NEW n \in DOMAIN outbox[d], NEW w \in Write,
               outbox'[d] = [outbox[d] EXCEPT ![n] = w],
               w.op = outbox[d][n].op, w.item = outbox[d][n].item
        PROVE  \/ outbox'[d][k] = outbox[d][k] /\ k \in DOMAIN outbox[d]
               \/ \E j \in DOMAIN outbox[d] :
                     /\ outbox'[d][k].op = outbox[d][j].op
                     /\ outbox'[d][k].item = outbox[d][j].item
    BY <1>1, <2>3
  <2>4. CASE outbox[d] # <<>> /\ outbox'[d] = Tail(outbox[d])
    <3>1. k + 1 \in DOMAIN outbox[d] /\ outbox'[d][k] = outbox[d][k + 1]
      BY <1>1, <2>4
    <3> QED BY <3>1
  <2>5. CASE Restored(d, outbox'[d])
    BY <2>5 DEF Restored
  <2> QED BY <2>1, <2>2, <2>3, <2>4, <2>5, OutboxChange
<1> QED BY <1>2, <1>3

LEMMA SoundAreDecisions == WritesAreSound => WritesAreDecisions
  BY DEF WritesAreSound, WritesAreDecisions

LEMMA WritesAreSoundStep ==
    ASSUME TypeOK, DecisionsAreKnown, WritesAreSound, [Next]_vars
    PROVE  WritesAreSound'
<1> DEFINE
      Sound(w) ==
        /\ w.op = "approve" => w.item \in approvals'
        /\ w.op = "delete" => w.item \in denials'
        /\ RulingStands(w, docs')
<1> SUFFICES ASSUME NEW d \in Device, NEW k \in DOMAIN outbox'[d]
             PROVE  Sound(outbox'[d][k])
  BY DEF WritesAreSound, IsDecision
<1>1. outbox[d] \in Seq(Write)
  BY DEF TypeOK
<1>2. ASSUME NEW j \in DOMAIN outbox[d]
      PROVE  Sound(outbox[d][j])
  <2>1. outbox[d][j] \in Write
    BY <1>1
  <2>2. outbox[d][j].item \in Item
    BY <2>1 DEF Write
  <2>3. IsDecision(outbox[d][j]) /\ RulingStands(outbox[d][j], docs)
    BY DEF WritesAreSound
  <2>4. RulingStands(outbox[d][j], docs')
    BY <2>2, <2>3, DocsOnlyAdvance DEF RulingStands
  <2> QED BY <2>3, <2>4, DocsOnlyAdvance DEF IsDecision
<1>3. CASE outbox'[d] = outbox[d]
  BY <1>2, <1>3
<1>4. ASSUME NEW w \in Write,
             outbox'[d] = Append(outbox[d], w),
             w.status = "queued",
             w.op = "approve" => w.item \in approvals',
             w.op = "delete" => w.item \in denials'
      PROVE  Sound(outbox'[d][k])
  <2>1. Sound(w)
    BY <1>4 DEF RulingStands
  <2>2. \/ k \in DOMAIN outbox[d] /\ outbox'[d][k] = outbox[d][k]
        \/ outbox'[d][k] = w
    BY <1>1, <1>4
  <2> HIDE DEF Sound
  <2> QED BY <1>2, <2>1, <2>2
<1>5. ASSUME NEW n \in DOMAIN outbox[d], NEW w \in Write,
             outbox'[d] = [outbox[d] EXCEPT ![n] = w],
             w.op = outbox[d][n].op, w.item = outbox[d][n].item,
             RulingStands(w, docs')
      PROVE  Sound(outbox'[d][k])
  <2>1. Sound(outbox[d][n])
    BY <1>2
  <2>2. Sound(w)
    BY <1>5, <2>1
  <2>3. \/ k \in DOMAIN outbox[d] /\ outbox'[d][k] = outbox[d][k]
        \/ outbox'[d][k] = w
    BY <1>1, <1>5
  <2> HIDE DEF Sound
  <2> QED BY <1>2, <2>2, <2>3
<1>6. CASE outbox[d] # <<>> /\ outbox'[d] = Tail(outbox[d])
  <2>1. k + 1 \in DOMAIN outbox[d] /\ outbox'[d][k] = outbox[d][k + 1]
    BY <1>1, <1>6
  <2> HIDE DEF Sound
  <2> QED BY <1>2, <2>1
<1>7. CASE Restored(d, outbox'[d])
  <2>1. k \in DOMAIN outbox[d]
    BY <1>7 DEF Restored
  <2>2. Sound(outbox[d][k])
    BY <1>2, <2>1
  <2> HIDE DEF Sound
  <2>3. /\ outbox'[d][k].op = outbox[d][k].op
        /\ outbox'[d][k].item = outbox[d][k].item
        /\ outbox'[d][k].status = "queued"
    BY <1>7 DEF Restored
  <2> QED BY <2>2, <2>3 DEF Sound, RulingStands
<1> HIDE DEF Sound
<1> QED BY <1>3, <1>4, <1>5, <1>6, <1>7, OutboxChange, SoundAreDecisions

\* How a document changes: its author submits it, or the server rules on a
\* write of some phone.
LEMMA DocsChange ==
    ASSUME TypeOK, [Next]_vars, NEW i \in Item, docs'[i] # docs[i]
    PROVE  \/ docs[i] = "absent" /\ docs'[i] = "pending"
           \/ \E d \in Device : \E k \in DOMAIN outbox[d] :
                 /\ outbox[d][k].item = i
                 /\ \/ /\ outbox[d][k].op = "approve"
                       /\ docs[i] = "pending" /\ docs'[i] = "approved"
                    \/ /\ outbox[d][k].op = "delete"
                       /\ docs'[i] = "deleted"
<1>1. ASSUME NEW j \in Item, Submit(j)
      PROVE  docs[i] = "absent" /\ docs'[i] = "pending"
  BY <1>1 DEF Submit, TypeOK
<1>2. ASSUME NEW d \in Device, NEW k \in DOMAIN outbox[d],
             CommitApprove(d, k)
      PROVE  /\ outbox[d][k].item = i
             /\ outbox[d][k].op = "approve"
             /\ docs[i] = "pending" /\ docs'[i] = "approved"
  BY <1>2 DEF CommitApprove, TypeOK
<1>3. ASSUME NEW d \in Device, NEW k \in DOMAIN outbox[d],
             CommitDelete(d, k)
      PROVE  /\ outbox[d][k].item = i
             /\ outbox[d][k].op = "delete" /\ docs'[i] = "deleted"
  BY <1>3 DEF CommitDelete, TypeOK
<1>4. \/ UNCHANGED docs
      \/ \E j \in Item : Submit(j)
      \/ \E d \in Device : \E k \in DOMAIN outbox[d] :
            CommitApprove(d, k) \/ CommitDelete(d, k)
  BY StepKinds DEF PressApprove, PressDeny
<1> QED BY <1>1, <1>2, <1>3, <1>4

\* Every write of a phone carries a decision.
LEMMA WriteIsDecision ==
    ASSUME TypeOK, WritesAreDecisions, NEW d \in Device, NEW k \in DOMAIN outbox[d]
    PROVE  IsDecision(outbox[d][k]) /\ outbox[d][k].item \in Item
<1>1. outbox[d][k] \in Write
  BY DEF TypeOK
<1> QED BY <1>1 DEF WritesAreDecisions, Write

LEMMA DecidedOnlyByModeratorsStep ==
    ASSUME TypeOK, WritesAreDecisions, DecidedOnlyByModerators, [Next]_vars
    PROVE  DecidedOnlyByModerators'
<1> SUFFICES ASSUME NEW i \in Item
             PROVE  /\ docs'[i] = "approved" => i \in approvals'
                    /\ docs'[i] = "deleted" => i \in denials'
  BY DEF DecidedOnlyByModerators
<1>1. approvals \subseteq approvals' /\ denials \subseteq denials'
  BY DocsOnlyAdvance
<1>2. CASE docs'[i] = docs[i]
  BY <1>1, <1>2 DEF DecidedOnlyByModerators
<1>3. CASE docs'[i] # docs[i]
  BY <1>1, <1>3, DocsChange, WriteIsDecision DEF IsDecision
<1> QED BY <1>2, <1>3

\* A decision that is owed stays owed until the server has ruled on it.
LEMMA OwedUntilRuled ==
    ASSUME TypeOK, DecisionsAreKnown, WritesAreDecisions, [Next]_vars,
           NEW d \in Device, NEW op \in {"approve", "delete"}, NEW i \in Item,
           Owes(d, op, i)
    PROVE  \/ Owes(d, op, i)'
           \/ <<op, i>> \in Refusable
           \/ op = "approve" /\ docs'[i] \in {"approved", "deleted"}
           \/ op = "delete" /\ docs'[i] = "deleted"
<1>1. PICK k \in DOMAIN outbox[d] :
        /\ outbox[d][k].op = op
        /\ outbox[d][k].item = i
        /\ outbox[d][k].status = "queued"
  BY DEF Owes
<1>2. outbox[d] \in Seq(Write) /\ outbox[d][k] \in Write
  BY DEF TypeOK
<1>3. ASSUME NEW j \in DOMAIN outbox'[d],
             outbox'[d][j].op = op,
             outbox'[d][j].item = i,
             outbox'[d][j].status = "queued"
      PROVE  Owes(d, op, i)'
  BY <1>3 DEF Owes
<1>4. CASE outbox'[d] = outbox[d]
  BY <1>1, <1>3, <1>4
<1>5. ASSUME NEW w \in Write, outbox'[d] = Append(outbox[d], w)
      PROVE  Owes(d, op, i)'
  <2>1. k \in DOMAIN outbox'[d] /\ outbox'[d][k] = outbox[d][k]
    BY <1>2, <1>5
  <2> QED BY <1>1, <1>3, <2>1
<1>6. ASSUME NEW n \in DOMAIN outbox[d], NEW w \in Write,
             outbox'[d] = [outbox[d] EXCEPT ![n] = w],
             w.op = outbox[d][n].op, w.item = outbox[d][n].item,
             RulingStands(w, docs')
      PROVE  \/ Owes(d, op, i)'
             \/ <<op, i>> \in Refusable
             \/ op = "approve" /\ docs'[i] \in {"approved", "deleted"}
             \/ op = "delete" /\ docs'[i] = "deleted"
  <2>1. k \in DOMAIN outbox'[d]
    BY <1>2, <1>6
  <2>2. CASE k # n
    <3>1. outbox'[d][k] = outbox[d][k]
      BY <1>2, <1>6, <2>2
    <3> QED BY <1>1, <1>3, <2>1, <3>1
  <2>3. CASE k = n
    <3>1. outbox'[d][k] = w
      BY <1>2, <1>6, <2>3
    <3>2. w.status \in {"queued", "committed", "rejected"}
      BY DEF Write, Status
    <3>3. w.op = op /\ w.item = i
      BY <1>1, <1>6, <2>3
    <3>4. CASE w.status = "queued"
      BY <1>3, <2>1, <3>1, <3>3, <3>4
    <3>5. CASE w.status # "queued"
      BY <1>6, <3>2, <3>3, <3>5 DEF RulingStands
    <3> QED BY <3>4, <3>5
  <2> QED BY <2>2, <2>3
<1>7. CASE /\ outbox[d] # <<>> /\ Head(outbox[d]).status # "queued"
           /\ outbox'[d] = Tail(outbox[d])
  <2>1. k # 1
    BY <1>1, <1>2, <1>7
  <2>2. k - 1 \in DOMAIN outbox'[d] /\ outbox'[d][k - 1] = outbox[d][k]
    BY <1>2, <1>7, <2>1
  <2> QED BY <1>1, <1>3, <2>2
<1>8. CASE Restored(d, outbox'[d])
  <2>1. /\ k \in DOMAIN outbox'[d]
        /\ outbox'[d][k].op = outbox[d][k].op
        /\ outbox'[d][k].item = outbox[d][k].item
        /\ outbox'[d][k].status = "queued"
    BY <1>8 DEF Restored
  <2> QED BY <1>1, <1>3, <2>1
<1> QED BY <1>4, <1>5, <1>6, <1>7, <1>8, OutboxChange

\* What holds of a decision still holds after a step, a new decision's too.
LEMMA DecisionHoldsStep ==
    ASSUME TypeOK, DecisionsAreKnown, RowsAreKnown, WritesAreDecisions,
           [Next]_vars, NEW i \in Item, DecisionHolds(i)
    PROVE  DecisionHolds(i)'
<1>1. ASSUME i \in approvals'
      PROVE  \/ docs'[i] \in {"approved", "deleted"}
             \/ <<"approve", i>> \in Refusable
             \/ \E d \in Device : Owes(d, "approve", i)'
  <2>1. CASE i \notin approvals
    BY <1>1, <2>1, HistoryChange
  <2>2. CASE i \in approvals
    <3>1. CASE docs[i] \in {"approved", "deleted"}
      BY <3>1, DocsOnlyAdvance
    <3>2. ASSUME NEW d \in Device, Owes(d, "approve", i)
          PROVE  \/ Owes(d, "approve", i)'
                 \/ <<"approve", i>> \in Refusable
                 \/ docs'[i] \in {"approved", "deleted"}
      BY <3>2, OwedUntilRuled
    <3> QED BY <2>2, <3>1, <3>2 DEF DecisionHolds
  <2> QED BY <2>1, <2>2
<1>2. ASSUME i \in denials'
      PROVE  \/ docs'[i] = "deleted"
             \/ <<"delete", i>> \in Refusable
             \/ \E d \in Device : Owes(d, "delete", i)'
  <2>1. CASE i \notin denials
    BY <1>2, <2>1, HistoryChange
  <2>2. CASE i \in denials
    <3>1. CASE docs[i] = "deleted"
      BY <3>1, DocsOnlyAdvance
    <3>2. ASSUME NEW d \in Device, Owes(d, "delete", i)
          PROVE  \/ Owes(d, "delete", i)'
                 \/ <<"delete", i>> \in Refusable
                 \/ docs'[i] = "deleted"
      BY <3>2, OwedUntilRuled
    <3> QED BY <2>2, <3>1, <3>2 DEF DecisionHolds
  <2> QED BY <2>1, <2>2
<1> QED BY <1>1, <1>2 DEF DecisionHolds

------------------------------------------------------------------------------
(* The theorems.                                                           *)

LEMMA InitInv == Init => Inv
<1> SUFFICES ASSUME Init PROVE Inv
  OBVIOUS
<1>1. TypeOK
  BY InitType
<1>2. DecisionsAreKnown /\ NoDecisionLost /\ DecidedOnlyByModerators
  BY DEF Init, DecisionsAreKnown, NoDecisionLost, DecisionHolds,
         DecidedOnlyByModerators
<1>3. RowsAreKnown /\ AnswersAreKnown /\ WritesAreSound
  BY DEF Init, NoRows, RowsAreKnown, AnswersAreKnown, WritesAreSound, Known
<1> QED BY <1>1, <1>2, <1>3 DEF Inv

LEMMA NextInv == Inv /\ [Next]_vars => Inv'
<1> SUFFICES ASSUME Inv, [Next]_vars PROVE Inv'
  OBVIOUS
<1>1. TypeOK'
  BY NextType DEF Inv
<1>2. DecisionsAreKnown'
  BY DecisionsAreKnownStep DEF Inv
<1>3. RowsAreKnown'
  BY RowsAreKnownStep DEF Inv
<1>4. AnswersAreKnown'
  BY AnswersAreKnownStep DEF Inv
<1>5. WritesAreSound'
  BY WritesAreSoundStep DEF Inv
<1>6. DecidedOnlyByModerators'
  BY SoundAreDecisions, DecidedOnlyByModeratorsStep DEF Inv
<1>7. NoDecisionLost'
  BY SoundAreDecisions, DecisionHoldsStep DEF Inv, NoDecisionLost
<1> QED BY <1>1, <1>2, <1>3, <1>4, <1>5, <1>6, <1>7 DEF Inv

\* The inductive invariant holds in every reachable state.
THEOREM Invariance == Spec => []Inv
<1>1. Init => Inv
  BY InitInv
<1>2. Inv /\ [Next]_vars => Inv'
  BY NextInv
<1> QED BY <1>1, <1>2, PTL DEF Spec

\* Whatever the number of phones, however late or often a write reaches the
\* server: it approves or removes only what a moderator decided on.
THEOREM OnlyModeratorsDecide == Spec => []DecidedOnlyByModerators
<1>1. Inv => DecidedOnlyByModerators
  BY DEF Inv
<1> QED BY <1>1, Invariance, PTL

\* Neither a lost connection nor a stopped app makes a decision disappear.
THEOREM DecisionsSurvive == Spec => []NoDecisionLost
<1>1. Inv => NoDecisionLost
  BY DEF Inv
<1> QED BY <1>1, Invariance, PTL

\* Each step of the moderation centre is a step of the life of one document,
\* or none.
LEMMA StepSimulation ==
    ASSUME Inv, [Next]_vars
    PROVE  [Lifecycle!Next]_(Lifecycle!vars)
<1> USE DEF Inv, Lifecycle!Next, Lifecycle!vars, Lifecycle!Submit,
            Lifecycle!AskApproval, Lifecycle!AskRemoval, Lifecycle!Approve,
            Lifecycle!Remove
<1>1. ASSUME NEW i \in Item, Submit(i)
      PROVE  Lifecycle!Submit(i)
  BY <1>1 DEF Submit, history
<1>2. ASSUME NEW d \in Device, NEW c \in Collection,
             NEW r \in DOMAIN toShow[d][c]
      PROVE  toShow[d][c][r] \in Item /\ docs[toShow[d][c][r]] # "absent"
  <2>1. toShow[d][c] \in Seq(Item)
    BY DEF TypeOK
  <2> QED BY <2>1 DEF RowsAreKnown, Known
<1>3. ASSUME NEW d \in Device, NEW c \in Collection,
             NEW r \in DOMAIN toShow[d][c], PressApprove(d, c, r)
      PROVE  Lifecycle!AskApproval(toShow[d][c][r])
  BY <1>2, <1>3 DEF PressApprove
<1>4. ASSUME NEW d \in Device, NEW c \in Collection,
             NEW r \in DOMAIN toShow[d][c], PressDeny(d, c, r)
      PROVE  Lifecycle!AskRemoval(toShow[d][c][r])
  BY <1>2, <1>4 DEF PressDeny
<1>5. ASSUME NEW d \in Device, NEW k \in DOMAIN outbox[d],
             CommitApprove(d, k)
      PROVE  Lifecycle!Approve(outbox[d][k].item)
                \/ UNCHANGED Lifecycle!vars
  <2>1. /\ outbox[d][k].op = "approve"
        /\ docs[outbox[d][k].item] \in {"pending", "approved"}
        /\ docs' = [docs EXCEPT ![outbox[d][k].item] = "approved"]
        /\ UNCHANGED <<approvals, denials>>
    BY <1>5 DEF CommitApprove, history
  <2>2. outbox[d][k].item \in approvals \cap Item
    BY <2>1, WriteIsDecision, SoundAreDecisions DEF IsDecision
  <2> QED BY <2>1, <2>2 DEF TypeOK
<1>6. ASSUME NEW d \in Device, NEW k \in DOMAIN outbox[d],
             CommitDelete(d, k)
      PROVE  Lifecycle!Remove(outbox[d][k].item)
                \/ UNCHANGED Lifecycle!vars
  <2>1. /\ outbox[d][k].op = "delete"
        /\ docs' = [docs EXCEPT ![outbox[d][k].item] = "deleted"]
        /\ UNCHANGED <<approvals, denials>>
    BY <1>6 DEF CommitDelete, history
  <2>2. outbox[d][k].item \in denials \cap Item
    BY <2>1, WriteIsDecision, SoundAreDecisions DEF IsDecision
  <2>3. docs[outbox[d][k].item] # "absent"
    BY <2>2 DEF DecisionsAreKnown
  <2> QED BY <2>1, <2>2, <2>3 DEF TypeOK
<1>7. \/ UNCHANGED Lifecycle!vars
      \/ \E i \in Item : \/ Lifecycle!Submit(i)
                         \/ Lifecycle!AskApproval(i)
                         \/ Lifecycle!AskRemoval(i)
                         \/ Lifecycle!Approve(i)
                         \/ Lifecycle!Remove(i)
  <2>1. \A d \in Device : \A k \in DOMAIN outbox[d] :
            outbox[d][k].item \in Item
    BY WriteIsDecision, SoundAreDecisions
  <2> HIDE DEF Lifecycle!Submit, Lifecycle!AskApproval, Lifecycle!AskRemoval,
               Lifecycle!Approve, Lifecycle!Remove, Lifecycle!vars, Inv
  <2>2. UNCHANGED <<docs, approvals, denials>> => UNCHANGED Lifecycle!vars
    BY DEF Lifecycle!vars
  <2> QED BY <1>1, <1>2, <1>3, <1>4, <1>5, <1>6, <2>1, <2>2, StepKinds
<1> QED BY <1>7

\* The moderation centre implements the life cycle of a document: pending,
\* then perhaps approved, then perhaps removed, each by a moderator's decision.
THEOREM Refinement == Spec => KeepsLifecycle
<1>1. Init => Lifecycle!Init
  BY DEF Init, Lifecycle!Init
<1>2. Inv /\ [Next]_vars => [Lifecycle!Next]_(Lifecycle!vars)
  BY StepSimulation
<1> QED BY <1>1, <1>2, Invariance, PTL
        DEF Spec, KeepsLifecycle, Lifecycle!Spec

------------------------------------------------------------------------------
(* Rows without duplicates.                                                *)

LEMMA AnswersAreDistinctStep ==
    ASSUME TypeOK, AnswersAreDistinct, [Next]_vars
    PROVE  AnswersAreDistinct'
<1> DEFINE Distinct(b) == /\ IsInjective(b.rows)
                          /\ ToSet(b.rows) \subseteq Members(b.on)
<1> SUFFICES ASSUME NEW d \in Device, NEW k \in DOMAIN mainQueue'[d],
                    mainQueue'[d][k].kind = "answer"
             PROVE  Distinct(mainQueue'[d][k])
  BY DEF AnswersAreDistinct
<1>1. mainQueue[d] \in Seq(Block) /\ mainQueue'[d] \in Seq(Block)
  BY NextType DEF TypeOK
<1>2. ASSUME NEW j \in DOMAIN mainQueue[d], mainQueue'[d][k] = mainQueue[d][j]
      PROVE  Distinct(mainQueue'[d][k])
  BY <1>2 DEF AnswersAreDistinct
<1>3. CASE mainQueue'[d] = mainQueue[d]
  BY <1>2, <1>3
<1>4. CASE mainQueue'[d] = <<>>
  BY <1>4
<1>5. CASE mainQueue[d] # <<>> /\ mainQueue'[d] = Tail(mainQueue[d])
  <2>1. k + 1 \in DOMAIN mainQueue[d] /\ mainQueue'[d][k] = mainQueue[d][k + 1]
    BY <1>1, <1>5
  <2> QED BY <1>2, <2>1
<1>6. ASSUME NEW c \in Collection, NEW s \in Seq(Members(c)),
             IsListOf(d, c, s),
             mainQueue'[d] = Append(mainQueue[d], Answer(c, s))
      PROVE  Distinct(mainQueue'[d][k])
  <2>1. CASE k \in DOMAIN mainQueue[d]
    <3>1. mainQueue'[d][k] = mainQueue[d][k]
      BY <1>1, <1>6, <2>1
    <3> QED BY <1>2, <2>1, <3>1
  <2>2. CASE k \notin DOMAIN mainQueue[d]
    <3>1. mainQueue'[d][k] = Answer(c, s)
      BY <1>1, <1>6, <2>2
    <3>2. Members(c) \subseteq Nat
      BY ItemAssumption DEF Members
    <3>3. \A i, j \in DOMAIN s : i < j => s[i] < s[j]
      BY <1>6 DEF IsListOf
    <3>4. IsInjective(s)
      <4> SUFFICES ASSUME NEW i \in DOMAIN s, NEW j \in DOMAIN s, s[i] = s[j]
                   PROVE  i = j
        BY DEF IsInjective
      <4>1. i \in Nat /\ j \in Nat /\ s[i] \in Nat
        BY <3>2
      <4> QED BY <3>3, <4>1
    <3>5. ToSet(s) \subseteq Members(c)
      BY DEF ToSet
    <3> QED BY <3>1, <3>4, <3>5 DEF Answer
  <2> QED BY <2>1, <2>2
<1> DEFINE e == Removed(Head(outbox[d]).on, Head(outbox[d]).row,
                        Head(outbox[d]).status = "committed")
<1>7. CASE mainQueue'[d] = Append(mainQueue[d], e)
  <2>1. e.kind = "removed"
    BY DEF Removed
  <2> HIDE DEF e, Distinct
  <2>2. k \in DOMAIN mainQueue[d] /\ mainQueue'[d][k] = mainQueue[d][k]
    BY <1>1, <1>7, <2>1
  <2> QED BY <1>2, <2>2
<1> QED BY <1>3, <1>4, <1>5, <1>6, <1>7, MainQueueChange

LEMMA RowsAreDistinctStep ==
    ASSUME TypeOK, RowsAreDistinct, AnswersAreDistinct, [Next]_vars
    PROVE  RowsAreDistinct'
<1> SUFFICES ASSUME NEW d \in Device, NEW c \in Collection
             PROVE  /\ IsInjective(toShow'[d][c])
                    /\ ToSet(toShow'[d][c]) \subseteq Members(c)
  BY DEF RowsAreDistinct
<1>1. toShow[d][c] \in Seq(Item)
  BY DEF TypeOK
<1>2. CASE toShow'[d][c] = toShow[d][c]
  BY <1>2 DEF RowsAreDistinct
<1>3. CASE toShow'[d][c] = <<>>
  BY <1>3 DEF IsInjective, ToSet
<1>4. ASSUME NEW r \in DOMAIN toShow[d][c],
             toShow'[d][c] = RemoveAt(toShow[d][c], r)
      PROVE  /\ IsInjective(toShow'[d][c])
             /\ ToSet(toShow'[d][c]) \subseteq Members(c)
  <2> DEFINE s == toShow[d][c]
             t == toShow'[d][c]
             from(k) == IF k < r THEN k ELSE k + 1
  <2>1. /\ DOMAIN t = 1 .. Len(s) - 1
        /\ \A k \in DOMAIN t : from(k) \in DOMAIN s /\ t[k] = s[from(k)]
    <3>1. /\ t \in Seq(Item)
          /\ Len(t) = Len(s) - 1
          /\ \A k \in 1 .. Len(s) - 1 :
                t[k] = IF k < r THEN s[k] ELSE s[k + 1]
      BY <1>1, <1>4, RemoveAtProperties
    <3>2. DOMAIN t = 1 .. Len(s) - 1 /\ DOMAIN s = 1 .. Len(s)
      BY <1>1, <3>1
    <3>3. \A k \in DOMAIN t : from(k) \in DOMAIN s
      BY <1>1, <3>2
    <3> QED BY <3>1, <3>2, <3>3
  <2>2. \A i, j \in DOMAIN t : from(i) = from(j) => i = j
    BY <1>1, <2>1
  <2> HIDE DEF from
  <2>3. IsInjective(s) /\ ToSet(s) \subseteq Members(c)
    BY DEF RowsAreDistinct
  <2> QED BY <2>1, <2>2, <2>3 DEF IsInjective, ToSet
<1>5. CASE /\ mainQueue[d] # <<>>
           /\ Head(mainQueue[d]).kind = "answer"
           /\ Head(mainQueue[d]).on = c
           /\ toShow'[d][c] = Head(mainQueue[d]).rows
  <2>1. 1 \in DOMAIN mainQueue[d] /\ Head(mainQueue[d]) = mainQueue[d][1]
    BY <1>5 DEF TypeOK
  <2> QED BY <1>5, <2>1 DEF AnswersAreDistinct
<1> QED BY <1>2, <1>3, <1>4, <1>5, RowsChange

\* However refreshes, presses and completions overlap, no screen lists a
\* document twice, nor a document of the other collection.
THEOREM DistinctRows == Spec => []RowsAreDistinct
<1> DEFINE I == TypeOK /\ RowsAreDistinct /\ AnswersAreDistinct
<1>1. Init => I
  <2> SUFFICES ASSUME Init PROVE I
    OBVIOUS
  <2>1. TypeOK
    BY InitType
  <2>2. RowsAreDistinct /\ AnswersAreDistinct
    BY DEF Init, NoRows, RowsAreDistinct, AnswersAreDistinct, IsInjective, ToSet
  <2> QED BY <2>1, <2>2
<1>2. I /\ [Next]_vars => I'
  BY NextType, RowsAreDistinctStep, AnswersAreDistinctStep
<1>3. I => RowsAreDistinct
  OBVIOUS
<1> QED BY <1>1, <1>2, <1>3, PTL DEF Spec

------------------------------------------------------------------------------
(* The author's phone: the lemmas of Upload_proofs, where no rule of the   *)
(* server's refuses an author.                                             *)

Phone == INSTANCE Upload_proofs WITH Refusable <- {}

LEMMA PhoneAssumption == Phone!UploadAssumption
  BY AuthorAssumption
     DEF Author!UploadAssumption, Author!Document, Author!Pressed,
         Author!Categories, Phone!UploadAssumption, Phone!Document,
         Phone!Pressed, Phone!Categories

\* Author and Phone are the same definitions over the same state.
LEMMA PhoneIsAuthor ==
    /\ Author!Init = Phone!Init
    /\ Author!OnPhone = Phone!OnPhone
    /\ \A k : Author!CommitPost(k) = Phone!CommitPost(k)
    /\ Author!LoseResult = Phone!LoseResult
    /\ Author!Kill = Phone!Kill
    /\ Author!TypeOK = Phone!TypeOK
    /\ Author!PressInv = Phone!PressInv
    /\ Author!Write = Phone!Write
    /\ Author!Document = Phone!Document
<1> USE DEF Author!Categories, Phone!Categories,
            Author!NoCategory, Phone!NoCategory,
            Author!Draft, Phone!Draft, Author!EmptyDraft, Phone!EmptyDraft,
            Author!Document, Phone!Document, Author!Pressed, Phone!Pressed,
            Author!Status, Phone!Status, Author!Write, Phone!Write,
            Author!formVars, Phone!formVars, Author!blockVars, Phone!blockVars,
            Author!serverVars, Phone!serverVars,
            Author!IsNext, Phone!IsNext, Author!Ruled, Phone!Ruled,
            Author!Resent, Phone!Resent, Author!HasResult, Phone!HasResult,
            Author!kMaxPendingWrites, Phone!kMaxPendingWrites
<1>1. Author!Init = Phone!Init
  BY DEF Author!Init, Phone!Init
<1>2. Author!LoseResult = Phone!LoseResult
  BY DEF Author!LoseResult, Phone!LoseResult
<1>3. Author!Kill = Phone!Kill
  BY DEF Author!Kill, Phone!Kill
<1>4. \A k : Author!CommitPost(k) = Phone!CommitPost(k)
  BY DEF Author!CommitPost, Phone!CommitPost, Author!Rule, Phone!Rule
<1>5. Author!OnPhone = Phone!OnPhone
  <2>1. Author!Form = Phone!Form
    BY DEF Author!Form, Author!EditText, Author!SetPicture, Author!ChangeButton,
           Phone!Form, Phone!EditText, Phone!SetPicture, Phone!ChangeButton
  <2>2. Author!Sending = Phone!Sending
    BY DEF Author!Sending, Author!UploadPressed, Author!StoreMedia,
           Author!FailMedia, Author!AnswerName, Author!FailName, Author!Valid,
           Author!OnScreen, Author!Queue, Author!MediaID,
           Phone!Sending, Phone!UploadPressed, Phone!StoreMedia,
           Phone!FailMedia, Phone!AnswerName, Phone!FailName, Phone!Valid,
           Phone!OnScreen, Phone!Queue, Phone!MediaID
  <2>3. Author!Settling = Phone!Settling
    BY <1>2
       DEF Author!Settling, Author!RefusePost, Author!Rule, Author!SettlePosted,
           Author!SettleRefused, Author!HasResultOf, Author!Tell,
           Phone!Settling, Phone!RefusePost, Phone!Rule, Phone!SettlePosted,
           Phone!SettleRefused, Phone!HasResultOf, Phone!Tell
  <2>4. Author!Launch = Phone!Launch
    BY DEF Author!Launch, Phone!Launch
  <2> QED BY <1>3, <2>1, <2>2, <2>3, <2>4 DEF Author!OnPhone, Phone!OnPhone
<1>6. Author!TypeOK = Phone!TypeOK
  BY DEF Author!TypeOK, Phone!TypeOK
<1>7. Author!PressInv = Phone!PressInv
  BY DEF Author!PressInv, Author!PressesAreValid, Author!ReadsArePressed,
         Author!UploadsArePressed, Author!WritesAsPressed,
         Author!ServedAsPressed, Author!IsAsPressed, Author!MediaID,
         Phone!PressInv, Phone!PressesAreValid, Phone!ReadsArePressed,
         Phone!UploadsArePressed, Phone!WritesAsPressed,
         Phone!ServedAsPressed, Phone!IsAsPressed, Phone!MediaID
<1> QED BY <1>1, <1>2, <1>3, <1>4, <1>5, <1>6, <1>7

LEMMA AuthorInit == Author!Init => Author!TypeOK /\ Author!PressInv
<1> SUFFICES ASSUME Author!Init PROVE Author!TypeOK /\ Author!PressInv
  OBVIOUS
<1>1. Author!TypeOK
  BY PhoneIsAuthor, PhoneAssumption, Phone!InitType
<1>2. Author!PressInv
  BY DEF Author!Init, Author!PressInv, Author!PressesAreValid,
         Author!ReadsArePressed, Author!UploadsArePressed,
         Author!WritesAsPressed, Author!ServedAsPressed
<1> QED BY <1>1, <1>2

\* The author's phone keeps its own invariants, whatever step it takes.
LEMMA AuthorKeeps ==
    ASSUME Author!TypeOK, Author!PressInv,
           \/ Author!OnPhone
           \/ \E k \in DOMAIN saving : Author!CommitPost(k)
           \/ UNCHANGED authorVars
    PROVE  Author!TypeOK' /\ Author!PressInv'
<1>1. Phone!TypeOK /\ Phone!PressInv /\ [Phone!Next]_(Phone!vars)
  BY PhoneIsAuthor
     DEF Phone!Next, Phone!vars, Phone!formVars, Phone!blockVars,
         Phone!serverVars, authorVars, phoneVars
<1>2. Phone!TypeOK' /\ Phone!PressInv'
  BY <1>1, PhoneAssumption, Phone!NextType, Phone!PressStep
<1>3. (Author!TypeOK = Phone!TypeOK)' /\ (Author!PressInv = Phone!PressInv)'
  BY PhoneIsAuthor, PTL
<1> QED BY <1>2, <1>3
------------------------------------------------------------------------------
(* The moderation centre, with the author's phone beside it.               *)

LEMMA CentreInit == Init => CentreInv
<1> SUFFICES ASSUME Init PROVE CentreInv
  OBVIOUS
<1>1. Inv
  BY InitInv
<1> QED BY <1>1, SoundAreDecisions DEF Inv, CentreInv

LEMMA CentreStep == CentreInv /\ [Next]_vars => CentreInv'
<1> SUFFICES ASSUME CentreInv, [Next]_vars PROVE CentreInv'
  OBVIOUS
<1> USE DEF CentreInv
<1>1. TypeOK'
  BY NextType
<1>2. DecisionsAreKnown'
  BY DecisionsAreKnownStep
<1>3. RowsAreKnown'
  BY RowsAreKnownStep
<1>4. AnswersAreKnown'
  BY AnswersAreKnownStep
<1>5. WritesAreDecisions'
  BY WritesAreDecisionsStep
<1>6. DecidedOnlyByModerators'
  BY DecidedOnlyByModeratorsStep
<1> QED BY <1>1, <1>2, <1>3, <1>4, <1>5, <1>6

\* A write of an author's makes a document pending, whatever it was before.
LEMMA CentreKept ==
    ASSUME CentreInv, NEW p \in Post,
           docs' = [docs EXCEPT ![p] = "pending"],
           UNCHANGED <<screenVars, clientVars, history>>
    PROVE  CentreInv'
<1> USE DEF CentreInv, screenVars, clientVars, history
<1>1. TypeOK'
  BY DEF TypeOK
<1>2. \A i : docs'[i] = docs[i] \/ (i = p /\ docs'[i] = "pending")
  BY DEF TypeOK
<1>3. DecisionsAreKnown'
  BY <1>2 DEF DecisionsAreKnown
<1>4. RowsAreKnown'
  BY <1>2 DEF RowsAreKnown, Known
<1>5. AnswersAreKnown'
  BY <1>2 DEF AnswersAreKnown, Known
<1>6. WritesAreDecisions'
  BY DEF WritesAreDecisions, IsDecision
<1>7. DecidedOnlyByModerators'
  BY <1>2 DEF DecidedOnlyByModerators
<1> QED BY <1>1, <1>3, <1>4, <1>5, <1>6, <1>7

\* To the moderation centre, what a moderator does is one of its steps.
LEMMA ModeratorsTakeSteps ==
    ASSUME NEW d \in Device, ModeratorRemoves(d) \/ ModeratorSteps(d)
    PROVE  Next /\ UNCHANGED phoneVars
<1>1. CASE ModeratorRemoves(d)
  BY <1>1 DEF ModeratorRemoves, Next, Client, Rule
<1>2. CASE ModeratorSteps(d)
  <2>1. UNCHANGED phoneVars
    BY <1>2 DEF ModeratorSteps, authorVars
  <2>2. "posts" \in Collection
    BY DEF Collection
  <2>3. PostScreen(d) \/ Kill(d) \/ Launch(d) \/ Client(d)
    BY <1>2, <2>2 DEF ModeratorSteps, Client, Rule
  <2> QED BY <2>1, <2>3 DEF Next
<1> QED BY <1>1, <1>2

\* What they can do to a post: approve one that is there, or remove one that
\* a moderator has denied, from the server and from what its author wrote.
LEMMA ModeratorsChangePosts ==
    ASSUME CentreInv, Author!TypeOK, NEW d \in Device,
           ModeratorRemoves(d) \/ ModeratorSteps(d), NEW p \in Post
    PROVE  \/ docs'[p] = docs[p] /\ posts'[p] = posts[p]
           \/ /\ docs[p] \in {"pending", "approved"} /\ docs'[p] = "approved"
              /\ posts'[p] = posts[p]
           \/ /\ docs[p] # "absent" /\ docs'[p] = "deleted"
              /\ posts'[p] = Nothing /\ p \in denials
<1>1. docs \in [Item -> {"absent", "pending", "approved", "deleted"}] /\ p \in Item
  BY DEF CentreInv, TypeOK, Item
<1>2. CASE ModeratorRemoves(d)
  <2>1. PICK k \in DOMAIN outbox[d] :
          /\ outbox[d][k].op = "delete"
          /\ docs' = [docs EXCEPT ![outbox[d][k].item] = "deleted"]
          /\ posts' = [q \in Post |->
                         IF q = outbox[d][k].item THEN Nothing ELSE posts[q]]
    BY <1>2 DEF ModeratorRemoves, CommitDelete
  <2>2. outbox[d][k].item \in denials /\ docs[outbox[d][k].item] # "absent"
    BY <2>1, WriteIsDecision DEF CentreInv, IsDecision, DecisionsAreKnown
  <2> QED BY <1>1, <2>1, <2>2
<1>3. CASE ModeratorSteps(d)
  <2>1. posts' = posts
    BY <1>3 DEF ModeratorSteps, authorVars
  <2>2. ASSUME NEW k \in DOMAIN outbox[d], CommitApprove(d, k)
        PROVE  \/ docs'[p] = docs[p]
               \/ docs[p] \in {"pending", "approved"} /\ docs'[p] = "approved"
    BY <1>1, <2>2 DEF CommitApprove
  <2>3. docs' = docs \/ \E k \in DOMAIN outbox[d] : CommitApprove(d, k)
    <3>1. CASE PostScreen(d) \/ Kill(d) \/ Launch(d)
      BY <3>1 DEF PostScreen, Screen, LoadPending, PressApprove, PressDeny,
                  ShowAnswer, RemoveRow, ReportFailedRemoval,
                  RemoveMissingRow, Kill, Stop, Launch
    <3>2. CASE AnswerLoad(d, "posts") \/ AnswerFromCache(d, "posts")
               \/ FailLoad(d, "posts") \/ LoseResult(d) \/ Settle(d)
      BY <3>2 DEF AnswerLoad, AnswerFromCache, Deliver, FailLoad, LoseResult,
                  Settle
    <3>3. ASSUME NEW k \in DOMAIN outbox[d], RejectApprove(d, k) \/ Refuse(d, k)
          PROVE  docs' = docs
      BY <3>3 DEF RejectApprove, Refuse
    <3> QED BY <1>3, <3>1, <3>2, <3>3 DEF ModeratorSteps
  <2> QED BY <2>1, <2>2, <2>3
<1> QED BY <1>2, <1>3
------------------------------------------------------------------------------
(* The invariant of the whole system, one kind of step at a time.          *)

LEMMA SystemInitInv == SystemInit => SystemInv
<1> SUFFICES ASSUME SystemInit PROVE SystemInv
  OBVIOUS
<1>1. /\ docs = [i \in Item |-> "absent"] /\ saving = <<>>
      /\ approvals = {} /\ denials = {} /\ resent = {}
      /\ posts = [p \in Post |-> Nothing] /\ told = [p \in Post |-> "nothing"]
  BY DEF SystemInit, Init, Author!Init
<1>2. CentreInv
  BY CentreInit DEF SystemInit
<1>3. AuthorInv
  <2>1. Author!TypeOK /\ Author!PressInv
    BY AuthorInit DEF SystemInit
  <2>2. DOMAIN saving = {}
    BY <1>1
  <2>3. PostsAreWritten
    BY <1>1, <2>2 DEF PostsAreWritten, Author!Waits, Item
  <2> QED BY <1>1, <2>1, <2>2, <2>3
          DEF AuthorInv, Author!WritesAreDistinct, WritesAreFirst
<1>4. DecisionsSurviveAuthors
  BY <1>1 DEF DecisionsSurviveAuthors, DecisionHolds
<1>5. SuccessIsPosted
  BY <1>1 DEF SuccessIsPosted, Item
<1> QED BY <1>2, <1>3, <1>4, <1>5 DEF SystemInv

\* What a moderator does leaves the author's writes and alerts true.
LEMMA ModeratorsKeep ==
    ASSUME SystemInv, NEW d \in Device, ModeratorRemoves(d) \/ ModeratorSteps(d)
    PROVE  SystemInv'
<1> USE DEF SystemInv, AuthorInv
<1>1. Next /\ UNCHANGED phoneVars
  BY ModeratorsTakeSteps
<1>2. CentreInv'
  BY <1>1, CentreStep
<1>3. denials \subseteq denials'
  BY <1>1, DocsOnlyAdvance DEF CentreInv
<1>4. /\ \A p \in Post : posts'[p] \in {posts[p], Nothing}
      /\ \A p \in Post : docs'[p] = "absent" <=> docs[p] = "absent"
      /\ \A p \in Post : posts[p] # Nothing =>
            posts'[p] # Nothing \/ p \in denials
      /\ \A p \in Post : posts'[p] = posts[p] \/ docs'[p] = "deleted"
  BY ModeratorsChangePosts
<1>5. Author!TypeOK'
  <2>1. posts' \in [Post -> Author!Document \union {Nothing}]
    BY DEF ModeratorRemoves, ModeratorSteps, authorVars, Author!TypeOK
  <2> QED BY <1>1, <2>1
          DEF Author!TypeOK, Author!Categories, Author!Draft, Author!Document,
              Author!Pressed, Author!Write, Author!Status, phoneVars
<1>6. Author!PressInv'
  BY <1>1, <1>4
     DEF Author!PressInv, Author!PressesAreValid, Author!ReadsArePressed,
         Author!UploadsArePressed, Author!WritesAsPressed,
         Author!ServedAsPressed, Author!IsAsPressed, Author!MediaID, phoneVars,
         Author!NoCategory
<1>7. PostsAreWritten'
  BY <1>1, <1>4 DEF PostsAreWritten, Author!Waits, phoneVars
<1>8. WritesAreFirst'
  <2> SUFFICES ASSUME NEW k \in DOMAIN saving
               PROVE  /\ saving[k].status # "rejected"
                      /\ saving[k].status = "queued" =>
                            docs'[saving[k].post] = "absent"
                            \/ saving[k].post \in resent
                      /\ saving[k].status = "committed" =>
                            posts'[saving[k].post] # Nothing
                            \/ saving[k].post \in denials'
    BY <1>1 DEF WritesAreFirst, phoneVars
  <2>1. saving[k].post \in Post
    BY PhoneIsAuthor, PhoneAssumption, Phone!WriteTypes
  <2> QED BY <1>3, <1>4, <2>1 DEF WritesAreFirst
<1>9. AuthorInv'
  BY <1>1, <1>5, <1>6, <1>7, <1>8 DEF Author!WritesAreDistinct, phoneVars
<1>10. DecisionsSurviveAuthors'
  <2> SUFFICES ASSUME NEW p \in Post \ resent PROVE DecisionHolds(p)'
    BY <1>1 DEF DecisionsSurviveAuthors, phoneVars
  <2> QED BY <1>1, DecisionHoldsStep DEF DecisionsSurviveAuthors, CentreInv, Item
<1>11. SuccessIsPosted'
  <2> SUFFICES ASSUME NEW p \in Post
               PROVE  /\ posts'[p] # Nothing <=> docs'[p] \in {"pending", "approved"}
                      /\ told[p] = "success" /\ p \notin denials' =>
                            posts'[p] # Nothing
                      /\ docs'[p] = "approved" => posts'[p].text = pressed[p].text
    BY <1>1 DEF SuccessIsPosted, phoneVars
  <2>1. posts[p] # Nothing => posts[p].text = pressed[p].text
    BY DEF Author!PressInv, Author!ServedAsPressed, Author!IsAsPressed
  <2> QED BY <1>3, <2>1, ModeratorsChangePosts DEF SuccessIsPosted
<1> QED BY <1>2, <1>9, <1>10, <1>11

\* A write of the author's that waits.
LEMMA AuthorWrites ==
    ASSUME AuthorInv, NEW k \in DOMAIN saving
    PROVE  /\ saving \in Seq(Author!Write) /\ saving[k].post \in Post
           /\ saving[k].document \in Author!Document
           /\ Author!Waits(saving[k].post)
<1>1. Phone!TypeOK /\ Author!TypeOK
  BY PhoneIsAuthor DEF AuthorInv
<1>2. saving[k].post \in Post /\ saving[k].document \in Phone!Document
  BY <1>1, PhoneAssumption, Phone!WriteTypes
<1> QED BY <1>1, <1>2, PhoneIsAuthor DEF Author!TypeOK, Author!Waits

\* What the author does, and what becomes of the writes, but a commit.
LEMMA AuthorKeepsPosts ==
    ASSUME SystemInv, AuthorSteps
    PROVE  /\ Author!WritesAreDistinct' /\ PostsAreWritten' /\ WritesAreFirst'
           /\ SuccessIsPosted'
<1> USE DEF SystemInv, AuthorInv
<1>0. /\ UNCHANGED <<docs, approvals, denials>>
      /\ resent \subseteq resent'
      /\ Author!LoseResult \/ Author!Kill => Unconfirmed \subseteq resent'
      /\ Author!TypeOK /\ saving \in Seq(Author!Write)
      /\ told \in [Post -> {"nothing", "success", "failure"}]
      /\ reading \subseteq Post
      /\ pressed \in [Post -> Author!Pressed \union {Nothing}]
  BY DEF AuthorSteps, vars, history, Author!TypeOK
<1>1. /\ posts' = posts
      /\ \/ Author!LoseResult \/ Author!Kill
         \/ UNCHANGED <<pressed, reading, saving, told>>
         \/ \E p \in Post : /\ pressed[p] = Nothing
                           /\ pressed' = [pressed EXCEPT ![p] = Phone!OnScreen]
                           /\ reading' = reading \union {p}
                           /\ UNCHANGED <<saving, told>>
         \/ \E p \in reading, w \in Phone!Write :
               /\ w.post = p /\ w.status = "queued"
               /\ saving' = Append(saving, w)
               /\ reading' = reading \ {p}
               /\ UNCHANGED <<pressed, told>>
         \/ \E p \in reading :
               /\ reading' = reading \ {p}
               /\ told' = [told EXCEPT ![p] = "failure"]
               /\ UNCHANGED <<pressed, saving>>
         \/ \E alert \in {"success", "failure"} :
               /\ saving # <<>> /\ saving' = Tail(saving)
               /\ Phone!Tell(alert)
               /\ Head(saving).status =
                     IF alert = "success" THEN "committed" ELSE "rejected"
               /\ UNCHANGED <<pressed, reading>>
         \/ \E k \in DOMAIN saving : Phone!RefusePost(k)
  <2>1. Phone!TypeOK /\ Phone!PressInv /\ Phone!OnPhone
    BY PhoneIsAuthor DEF AuthorSteps
  <2> QED BY <2>1, PhoneIsAuthor, PhoneAssumption, Phone!PhoneSteps
<1> DEFINE Goal == /\ Author!WritesAreDistinct' /\ PostsAreWritten'
                   /\ WritesAreFirst' /\ SuccessIsPosted'
<1>2. CASE UNCHANGED <<pressed, reading, saving, told>>
  BY <1>0, <1>1, <1>2
     DEF Author!WritesAreDistinct, PostsAreWritten, Author!Waits,
         WritesAreFirst, SuccessIsPosted
<1>3. CASE Author!LoseResult \/ Author!Kill
  <2>1. /\ UNCHANGED <<pressed, told>> /\ reading' \subseteq reading
        /\ DOMAIN saving' = DOMAIN saving
        /\ \A k \in DOMAIN saving : /\ saving'[k].post = saving[k].post
                                    /\ saving'[k].status = "queued"
    BY <1>3, PhoneIsAuthor, PhoneAssumption, Phone!SentAgain
  <2>2. Author!WritesAreDistinct'
    BY <2>1 DEF Author!WritesAreDistinct
  <2>3. PostsAreWritten'
    BY <1>0, <2>1 DEF PostsAreWritten, Author!Waits
  <2>4. WritesAreFirst'
    <3> SUFFICES ASSUME NEW k \in DOMAIN saving
                 PROVE  docs[saving[k].post] = "absent"
                        \/ saving[k].post \in resent'
      BY <1>0, <2>1 DEF WritesAreFirst
    <3>1. saving[k].status = "committed" => saving[k].post \in Unconfirmed
      BY DEF Unconfirmed
    <3>2. saving[k].status \in {"queued", "committed", "rejected"}
      <4>1. saving[k] \in Author!Write
        BY <1>0
      <4> QED BY <4>1 DEF Author!Write, Author!Status
    <3> QED BY <1>0, <1>3, <3>1, <3>2 DEF WritesAreFirst
  <2>5. SuccessIsPosted'
    BY <1>0, <1>1, <2>1 DEF SuccessIsPosted
  <2> QED BY <2>2, <2>3, <2>4, <2>5
<1>4. ASSUME NEW p \in Post, pressed[p] = Nothing,
             pressed' = [pressed EXCEPT ![p] = Phone!OnScreen],
             reading' = reading \union {p}, UNCHANGED <<saving, told>>
      PROVE  Goal
  <2>1. \A q \in Post : q # p => pressed'[q] = pressed[q]
    BY <1>0, <1>4
  <2>2. docs[p] = "absent" /\ ~ Author!Waits(p)
    BY <1>4 DEF PostsAreWritten
  <2>3. Author!WritesAreDistinct' /\ WritesAreFirst'
    BY <1>0, <1>1, <1>4 DEF Author!WritesAreDistinct, WritesAreFirst
  <2>4. PostsAreWritten'
    BY <1>0, <1>4, <2>1, <2>2 DEF PostsAreWritten, Author!Waits
  <2>5. SuccessIsPosted'
    BY <1>0, <1>1, <1>4, <2>1, <2>2 DEF SuccessIsPosted
  <2> QED BY <2>3, <2>4, <2>5
<1>5. ASSUME NEW p \in reading, NEW w \in Phone!Write,
             w.post = p, w.status = "queued", saving' = Append(saving, w),
             reading' = reading \ {p}, UNCHANGED <<pressed, told>>
      PROVE  Goal
  <2>1. /\ DOMAIN saving' = DOMAIN saving \union {Len(saving) + 1}
        /\ \A k \in DOMAIN saving : saving'[k] = saving[k]
        /\ saving'[Len(saving) + 1] = w
    BY <1>0, <1>5
  <2>2. docs[p] = "absent" /\ ~ Author!Waits(p) /\ pressed[p] # Nothing
    BY <1>0, <1>5
       DEF PostsAreWritten, Author!PressInv, Author!ReadsArePressed
  <2>3. Author!WritesAreDistinct'
    BY <1>5, <2>1, <2>2 DEF Author!WritesAreDistinct, Author!Waits
  <2>4. \A q : Author!Waits(q)' => Author!Waits(q) \/ q = p
    BY <1>5, <2>1 DEF Author!Waits
  <2>5. PostsAreWritten'
    BY <1>0, <1>5, <2>2, <2>4 DEF PostsAreWritten
  <2>6. WritesAreFirst'
    BY <1>0, <1>1, <1>5, <2>1, <2>2 DEF WritesAreFirst
  <2>7. SuccessIsPosted'
    BY <1>0, <1>1, <1>5 DEF SuccessIsPosted
  <2> QED BY <2>3, <2>5, <2>6, <2>7
<1>6. ASSUME NEW p \in reading, reading' = reading \ {p},
             told' = [told EXCEPT ![p] = "failure"],
             UNCHANGED <<pressed, saving>>
      PROVE  Goal
  <2>1. \A q \in Post : told'[q] = "success" => told[q] = "success"
    BY <1>0, <1>6
  <2> QED BY <1>0, <1>1, <1>6, <2>1
          DEF Author!WritesAreDistinct, PostsAreWritten, Author!Waits,
              WritesAreFirst, SuccessIsPosted
<1>7. ASSUME NEW alert \in {"success", "failure"},
             saving # <<>>, saving' = Tail(saving), Phone!Tell(alert),
             Head(saving).status =
                IF alert = "success" THEN "committed" ELSE "rejected",
             UNCHANGED <<pressed, reading>>
      PROVE  Goal
  <2>1. /\ 1 \in DOMAIN saving /\ Head(saving) = saving[1]
        /\ \A k \in DOMAIN saving' : /\ k + 1 \in DOMAIN saving /\ k \in Nat
                                     /\ saving'[k] = saving[k + 1]
    BY <1>0, <1>7
  <2>2. /\ Head(saving).status = "committed"
        /\ posts[Head(saving).post] # Nothing \/ Head(saving).post \in denials
        /\ Head(saving).post \in Post
    BY <1>7, <2>1, AuthorWrites DEF WritesAreFirst
  <2>3. \A q \in Post : told'[q] = "success" =>
           told[q] = "success" \/ q = Head(saving).post
    BY <1>0, <1>7, <2>2 DEF Phone!Tell
  <2>4. Author!WritesAreDistinct'
    <3> SUFFICES ASSUME NEW j \in DOMAIN saving', NEW k \in DOMAIN saving',
                        saving'[j].post = saving'[k].post
                 PROVE  j = k
      BY DEF Author!WritesAreDistinct
    <3>1. j + 1 = k + 1
      BY <2>1 DEF Author!WritesAreDistinct
    <3> QED BY <2>1, <3>1
  <2>5. PostsAreWritten'
    BY <1>0, <1>7, <2>1 DEF PostsAreWritten, Author!Waits
  <2>6. WritesAreFirst'
    <3> SUFFICES ASSUME NEW k \in DOMAIN saving'
                 PROVE  LET w == saving'[k] IN
                        /\ w.status # "rejected"
                        /\ w.status = "queued" =>
                              docs[w.post] = "absent" \/ w.post \in resent'
                        /\ w.status = "committed" =>
                              posts[w.post] # Nothing \/ w.post \in denials
      BY <1>0, <1>1 DEF WritesAreFirst
    <3>1. k + 1 \in DOMAIN saving /\ saving'[k] = saving[k + 1]
      BY <2>1
    <3> QED BY <1>0, <3>1 DEF WritesAreFirst
  <2>7. SuccessIsPosted'
    BY <1>0, <1>1, <1>7, <2>2, <2>3 DEF SuccessIsPosted
  <2> QED BY <2>4, <2>5, <2>6, <2>7
<1>8. ASSUME NEW k \in DOMAIN saving, Phone!RefusePost(k)
      PROVE  Goal
  BY <1>8 DEF Phone!RefusePost
<1> HIDE DEF Goal
<1>9. Goal
  BY <1>1, <1>2, <1>3, <1>4, <1>5, <1>6, <1>7, <1>8 DEF Goal
<1> QED BY <1>9 DEF Goal

\* The server has written a post: pending, whatever was there before.
LEMMA CommitKeeps ==
    ASSUME SystemInv, AuthorCommits
    PROVE  /\ SystemInv'
           /\ resent' = {} => \E p \in Post : Submit(p)
<1> USE DEF SystemInv, AuthorInv
<1>1. PICK k \in DOMAIN saving :
        /\ Author!CommitPost(k)
        /\ docs' = [docs EXCEPT ![saving[k].post] = "pending"]
        /\ UNCHANGED <<screenVars, clientVars, history, resent>>
  BY DEF AuthorCommits
<1> DEFINE p == saving[k].post
<1>2. /\ saving[k].status = "queued" /\ saving' = Author!Ruled(saving, k, "committed")
      /\ posts' = [posts EXCEPT ![p] = saving[k].document]
      /\ UNCHANGED <<pressed, reading, told, resent>>
  BY <1>1 DEF Author!CommitPost, Author!Rule, Author!IsNext, Author!blockVars
<1>3. /\ p \in Post /\ saving[k].document \in Author!Document /\ Author!Waits(p)
      /\ saving[k].document # Nothing
  BY AuthorWrites, AuthorAssumption DEF Author!UploadAssumption
<1>4. /\ DOMAIN saving' = DOMAIN saving
      /\ \A j \in DOMAIN saving :
            /\ saving'[j].post = saving[j].post
            /\ saving'[j].status = IF j = k THEN "committed" ELSE saving[j].status
  <2>1. Phone!TypeOK /\ "committed" \in Phone!Status
    BY PhoneIsAuthor DEF Phone!Status
  <2>2. Author!Ruled(saving, k, "committed") = Phone!Ruled(saving, k, "committed")
    BY DEF Author!Ruled, Phone!Ruled
  <2> QED BY <1>2, <2>1, <2>2, PhoneAssumption, Phone!RuledTypes
<1>5. /\ docs[p] = "absent" \/ p \in resent
      /\ pressed[p] # Nothing /\ p \notin reading
      /\ \A j \in DOMAIN saving : j # k => saving[j].post # p
  BY <1>2, <1>3 DEF WritesAreFirst, PostsAreWritten, Author!WritesAreDistinct
<1> HIDE DEF p
<1>6. /\ docs'[p] = "pending" /\ posts'[p] # Nothing
      /\ \A q \in Post : q # p => docs'[q] = docs[q] /\ posts'[q] = posts[q]
  BY <1>1, <1>2, <1>3 DEF CentreInv, TypeOK, Author!TypeOK, Item, p
<1>7. CentreInv'
  BY <1>1, <1>3, CentreKept DEF p
<1>8. Author!TypeOK' /\ Author!PressInv'
  BY <1>1, AuthorKeeps
<1>9. Author!WritesAreDistinct' /\ PostsAreWritten' /\ WritesAreFirst'
  <2>1. Author!WritesAreDistinct'
    BY <1>4 DEF Author!WritesAreDistinct
  <2>2. PostsAreWritten'
    BY <1>2, <1>4, <1>5, <1>6 DEF PostsAreWritten, Author!Waits
  <2>3. WritesAreFirst'
    <3> SUFFICES ASSUME NEW j \in DOMAIN saving
                 PROVE  LET w == saving'[j] IN
                        /\ w.status # "rejected"
                        /\ w.status = "queued" =>
                              docs'[w.post] = "absent" \/ w.post \in resent
                        /\ w.status = "committed" =>
                              posts'[w.post] # Nothing \/ w.post \in denials
      BY <1>1, <1>2, <1>4 DEF WritesAreFirst, history
    <3>1. saving[j].post \in Post
      BY AuthorWrites
    <3>2. CASE j = k
      BY <1>4, <1>6, <3>2 DEF p
    <3>3. CASE j # k
      BY <1>4, <1>5, <1>6, <3>1, <3>3 DEF WritesAreFirst
    <3> QED BY <3>2, <3>3
  <2> QED BY <2>1, <2>2, <2>3
<1>10. DecisionsSurviveAuthors'
  <2> SUFFICES ASSUME NEW q \in Post \ resent PROVE DecisionHolds(q)'
    BY <1>1 DEF DecisionsSurviveAuthors
  <2>1. CASE q = p
    <3>1. q \notin approvals \union denials
      BY <1>5, <2>1 DEF CentreInv, DecisionsAreKnown
    <3> QED BY <1>1, <3>1 DEF DecisionHolds, history
  <2>2. CASE q # p
    <3>1. DecisionHolds(q) /\ docs'[q] = docs[q]
      BY <1>6, <2>2 DEF DecisionsSurviveAuthors
    <3>2. UNCHANGED <<outbox, approvals, denials>>
      BY <1>1 DEF history, clientVars
    <3> QED BY <3>1, <3>2 DEF DecisionHolds, Owes
  <2> QED BY <2>1, <2>2
<1>11. SuccessIsPosted'
  BY <1>1, <1>2, <1>6 DEF SuccessIsPosted, history
<1>12. resent' = {} => Submit(p)
  BY <1>1, <1>2, <1>5 DEF Submit, p
<1> QED BY <1>1, <1>2, <1>3, <1>7, <1>8, <1>9, <1>10, <1>11, <1>12

LEMMA SystemStep == SystemInv /\ [SystemNext]_allVars => SystemInv'
<1> SUFFICES ASSUME SystemInv, [SystemNext]_allVars PROVE SystemInv'
  OBVIOUS
<1> USE DEF SystemInv, AuthorInv
<1>1. ASSUME UNCHANGED vars, resent \subseteq resent'
      PROVE  CentreInv' /\ DecisionsSurviveAuthors'
  <2>1. CentreInv'
    BY <1>1, CentreStep
  <2>2. ASSUME NEW p \in Post \ resent PROVE DecisionHolds(p)'
    BY <1>1, DecisionHoldsStep DEF DecisionsSurviveAuthors, CentreInv, Item
  <2> QED BY <1>1, <2>1, <2>2 DEF DecisionsSurviveAuthors
<1>2. CASE AuthorSteps
  <2>1. Author!TypeOK' /\ Author!PressInv'
    BY <1>2, AuthorKeeps DEF AuthorSteps
  <2>2. resent \subseteq resent' /\ resent' \subseteq Post
    BY <1>2, AuthorWrites DEF AuthorSteps, Unconfirmed
  <2>3. UNCHANGED vars
    BY <1>2 DEF AuthorSteps
  <2> QED BY <1>1, <1>2, <2>1, <2>2, <2>3, AuthorKeepsPosts
<1>3. CASE AuthorCommits
  BY <1>3, CommitKeeps
<1>4. ASSUME NEW d \in Device, ModeratorRemoves(d) \/ ModeratorSteps(d)
      PROVE  SystemInv'
  BY <1>4, ModeratorsKeep
<1>5. CASE UNCHANGED allVars
  <2>1. UNCHANGED <<vars, authorVars, docs, approvals, denials, resent, posts,
                    pressed, reading, saving, told>>
    BY <1>5 DEF allVars, authorVars, phoneVars, vars, history
  <2>2. Author!TypeOK' /\ Author!PressInv'
    BY <2>1, AuthorKeeps
  <2>3. Author!WritesAreDistinct' /\ PostsAreWritten' /\ WritesAreFirst'
    BY <2>1 DEF Author!WritesAreDistinct, PostsAreWritten, Author!Waits,
                WritesAreFirst
  <2>4. SuccessIsPosted'
    BY <2>1 DEF SuccessIsPosted
  <2> QED BY <1>1, <2>1, <2>2, <2>3, <2>4
<1> QED BY <1>2, <1>3, <1>4, <1>5 DEF SystemNext

\* The invariant of the moderation centre, the author's phone and what links
\* them holds in every reachable state of the system.
THEOREM SystemInvariance == SystemSpec => []SystemInv
<1>1. SystemInit => SystemInv
  BY SystemInitInv
<1>2. SystemInv /\ [SystemNext]_allVars => SystemInv'
  BY SystemStep
<1> QED BY <1>1, <1>2, PTL DEF SystemSpec

\* With authors that send their posts again, too, the server approves and
\* removes only what a moderator has decided on.
THEOREM ModeratorsDecideInSystem == SystemSpec => []DecidedOnlyByModerators
<1>1. SystemInv => DecidedOnlyByModerators
  BY DEF SystemInv, CentreInv
<1> QED BY <1>1, SystemInvariance, PTL

\* Nothing an author does undoes a decision, but a post sent again after the
\* server has written it.
THEOREM AuthorsUndoNoDecision == SystemSpec => []DecisionsSurviveAuthors
<1>1. SystemInv => DecisionsSurviveAuthors
  BY DEF SystemInv
<1> QED BY <1>1, SystemInvariance, PTL

\* An author told of success has a post waiting or approved, with the text of
\* the press, unless a moderator has denied it.
THEOREM SuccessMeansPosted == SystemSpec => []SuccessIsPosted
<1>1. SystemInv => SuccessIsPosted
  BY DEF SystemInv
<1> QED BY <1>1, SystemInvariance, PTL

\* Until an author's phone sends a written post again, every step of the
\* system is a step of the moderation centre on its own, or changes nothing
\* of it: what is proved of the one holds for the other.
THEOREM SystemIsModerationQueue == SystemSpec => IsModerationQueue
<1>1. SystemInv /\ [SystemNext]_allVars => [resent' = {} => [Next]_vars]_allVars
  <2> SUFFICES ASSUME SystemInv, SystemNext, resent' = {} PROVE [Next]_vars
    OBVIOUS
  <2>1. CASE AuthorSteps
    BY <2>1 DEF AuthorSteps
  <2>2. CASE AuthorCommits
    BY <2>2, CommitKeeps DEF Next, Item
  <2>3. ASSUME NEW d \in Device, ModeratorRemoves(d) \/ ModeratorSteps(d)
        PROVE  Next
    BY <2>3, ModeratorsTakeSteps
  <2> QED BY <2>1, <2>2, <2>3 DEF SystemNext
<1> QED BY <1>1, SystemInvariance, PTL DEF SystemSpec, IsModerationQueue
==============================================================================
