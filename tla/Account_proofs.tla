---------------------------- MODULE Account_proofs ----------------------------
(***************************************************************************)
(* Proofs about the user's account.  First the own profile, for every      *)
(* choice of names, bios and pictures and of those that can be encoded,    *)
(* and queues of updates of any length; then signing up, in and out, for   *)
(* every set of users, every set of users whose document is refused, and   *)
(* any number of requests.                                                 *)
(***************************************************************************)
EXTENDS Profile, Session, QueueLemmas

------------------------------------------------------------------------------
(* The document as the phone sees it.                                      *)

\* The updates of q over the document p; v is what they make of field f.
Overlay(p, q) ==
    [f \in DOMAIN p |->
        LET ks == {k \in DOMAIN q : f \in DOMAIN q[k].changes}
        IN  IF ks = {} THEN p[f] ELSE q[Max(ks)].changes[f]]

Prevails(p, q, f, v) ==
    \/ /\ \A k \in DOMAIN q : f \notin DOMAIN q[k].changes
       /\ v = p[f]
    \/ \E k \in DOMAIN q :
        /\ f \in DOMAIN q[k].changes
        /\ \A j \in DOMAIN q : j > k => f \notin DOMAIN q[j].changes
        /\ v = q[k].changes[f]

LEMMA HeldIsOverlay == Held = Overlay(profile, outbox)
  BY DEF Held, Touching, Overlay

LEMMA OverlayPrevails ==
    ASSUME NEW W, NEW q \in Seq(W), NEW p, NEW f \in DOMAIN p
    PROVE  Prevails(p, q, f, Overlay(p, q)[f])
<1> DEFINE ks == {k \in DOMAIN q : f \in DOMAIN q[k].changes}
<1>1. Overlay(p, q)[f] = IF ks = {} THEN p[f] ELSE q[Max(ks)].changes[f]
  BY DEF Overlay
<1>2. CASE ks = {}
  BY <1>1, <1>2 DEF Prevails
<1>3. CASE ks # {}
  <2>1. ks \subseteq 1 .. Len(q) /\ Len(q) \in Nat
    OBVIOUS
  <2>2. Max(ks) \in ks /\ \A k \in ks : k <= Max(ks)
    BY <1>3, <2>1, LastPlace
  <2>3. \A j \in DOMAIN q : j > Max(ks) => j \notin ks
    <3> SUFFICES ASSUME NEW j \in DOMAIN q, j > Max(ks), j \in ks PROVE FALSE
      OBVIOUS
    <3>1. j <= Max(ks) /\ j \in Nat /\ Max(ks) \in Nat
      BY <2>1, <2>2
    <3> QED BY <3>1
  <2>4. Overlay(p, q)[f] = q[Max(ks)].changes[f]
    BY <1>1, <1>3
  <2>5. /\ Max(ks) \in DOMAIN q
        /\ f \in DOMAIN q[Max(ks)].changes
        /\ \A j \in DOMAIN q : j > Max(ks) => f \notin DOMAIN q[j].changes
    BY <2>2, <2>3
  <2> HIDE DEF ks
  <2> QED BY <2>4, <2>5 DEF Prevails
<1> QED BY <1>2, <1>3

LEMMA OnePrevails ==
    ASSUME NEW W, NEW q \in Seq(W), NEW p, NEW f, NEW v, NEW w,
           Prevails(p, q, f, v), Prevails(p, q, f, w)
    PROVE  v = w
<1>1. ASSUME NEW j \in DOMAIN q, NEW k \in DOMAIN q
      PROVE  j = k \/ j > k \/ k > j
  OBVIOUS
<1> QED BY <1>1 DEF Prevails

LEMMA OverlayIs ==
    ASSUME NEW W, NEW q \in Seq(W), NEW p, NEW f \in DOMAIN p, NEW v,
           Prevails(p, q, f, v)
    PROVE  Overlay(p, q)[f] = v
<1>1. Prevails(p, q, f, Overlay(p, q)[f])
  BY OverlayPrevails
<1> QED BY <1>1, OnePrevails

\* Statuses do not show, nor what the server says of fields that a waiting
\* update changes.
LEMMA SameOverlay ==
    ASSUME NEW W, NEW q \in Seq(W), NEW r \in Seq(W), NEW p, NEW o,
           DOMAIN r = DOMAIN q, DOMAIN o = DOMAIN p,
           \A k \in DOMAIN q : r[k].changes = q[k].changes,
           \A f \in DOMAIN p :
              \/ o[f] = p[f]
              \/ \E k \in DOMAIN q : f \in DOMAIN q[k].changes
    PROVE  Overlay(o, r) = Overlay(p, q)
<1>1. ASSUME NEW f \in DOMAIN p PROVE Overlay(o, r)[f] = Overlay(p, q)[f]
  <2>1. Prevails(p, q, f, Overlay(p, q)[f])
    BY OverlayPrevails
  <2>2. Prevails(o, r, f, Overlay(p, q)[f])
    BY <2>1 DEF Prevails
  <2> QED BY <2>2, OverlayIs
<1>2. /\ DOMAIN Overlay(o, r) = DOMAIN p /\ DOMAIN Overlay(p, q) = DOMAIN p
      /\ Overlay(o, r) = [f \in DOMAIN p |-> Overlay(o, r)[f]]
      /\ Overlay(p, q) = [f \in DOMAIN p |-> Overlay(p, q)[f]]
  BY DEF Overlay
<1> QED BY <1>1, <1>2, Zenon

LEMMA OverlayOfAppend ==
    ASSUME NEW W, NEW q \in Seq(W), NEW u \in W, NEW p, NEW f \in DOMAIN p
    PROVE  Overlay(p, Append(q, u))[f] =
              IF f \in DOMAIN u.changes THEN u.changes[f] ELSE Overlay(p, q)[f]
<1> DEFINE r == Append(q, u)
           n == Len(q) + 1
<1>1. /\ r \in Seq(W) /\ DOMAIN r = 1 .. n
      /\ r[n] = u /\ n \in Nat /\ n \in DOMAIN r
      /\ \A k \in DOMAIN q : k \in DOMAIN r /\ r[k] = q[k] /\ k < n
      /\ \A k \in DOMAIN r : k = n \/ k \in DOMAIN q
      /\ \A k \in DOMAIN r : ~ (k > n)
  OBVIOUS
<1> HIDE DEF r, n
<1>2. CASE f \in DOMAIN u.changes
  <2>1. Prevails(p, r, f, u.changes[f])
    BY <1>1, <1>2 DEF Prevails
  <2> QED BY <1>1, <1>2, <2>1, OverlayIs DEF r
<1>3. CASE f \notin DOMAIN u.changes
  <2>1. Prevails(p, q, f, Overlay(p, q)[f])
    BY OverlayPrevails
  <2>2. Prevails(p, r, f, Overlay(p, q)[f])
    BY <1>1, <1>3, <2>1 DEF Prevails
  <2> QED BY <1>1, <1>3, <2>2, OverlayIs DEF r
<1> QED BY <1>2, <1>3

\* The oldest update leaves the queue: nothing shows, if the server says what
\* it said, or a later one says otherwise.
LEMMA OverlayOfTail ==
    ASSUME NEW W, NEW q \in Seq(W), q # <<>>, NEW p, NEW f \in DOMAIN p,
           f \in DOMAIN q[1].changes =>
               \/ p[f] = q[1].changes[f]
               \/ \E j \in DOMAIN q : j > 1 /\ f \in DOMAIN q[j].changes
    PROVE  Overlay(p, Tail(q))[f] = Overlay(p, q)[f]
<1> DEFINE r == Tail(q)
<1>1. /\ r \in Seq(W) /\ 1 \in DOMAIN q
      /\ \A k \in DOMAIN r : /\ k + 1 \in DOMAIN q /\ r[k] = q[k + 1]
                             /\ k + 1 > 1 /\ k \in Nat
      /\ \A k \in DOMAIN q : k > 1 => k - 1 \in DOMAIN r /\ r[k - 1] = q[k]
      /\ \A k \in DOMAIN q : k \in Nat /\ (k = 1 \/ k > 1)
  OBVIOUS
<1> HIDE DEF r
<1>2. Overlay(p, r)[f] = Overlay(p, q)[f]
  <2>1. Prevails(p, q, f, Overlay(p, q)[f])
    BY OverlayPrevails
  <2>2. CASE \A k \in DOMAIN q : f \notin DOMAIN q[k].changes
    <3>1. /\ Overlay(p, q)[f] = p[f]
          /\ \A k \in DOMAIN r : f \notin DOMAIN r[k].changes
      BY <1>1, <2>1, <2>2 DEF Prevails
    <3>2. Prevails(p, r, f, p[f])
      BY <3>1 DEF Prevails
    <3> QED BY <1>1, <3>1, <3>2, OverlayIs
  <2>3. CASE \E k \in DOMAIN q : f \in DOMAIN q[k].changes
    <3>1. PICK k \in DOMAIN q :
            /\ f \in DOMAIN q[k].changes
            /\ \A j \in DOMAIN q : j > k => f \notin DOMAIN q[j].changes
            /\ Overlay(p, q)[f] = q[k].changes[f]
      BY <2>1, <2>3 DEF Prevails
    <3>2. CASE k = 1
      <4>1. p[f] = q[1].changes[f]
        BY <3>1, <3>2
      <4>2. \A j \in DOMAIN r : f \notin DOMAIN r[j].changes
        BY <1>1, <3>1, <3>2
      <4>3. Prevails(p, r, f, p[f])
        BY <4>2 DEF Prevails
      <4> QED BY <1>1, <3>1, <3>2, <4>1, <4>3, OverlayIs
    <3>3. CASE k > 1
      <4>1. k - 1 \in DOMAIN r /\ r[k - 1] = q[k] /\ k \in Nat
        BY <1>1, <3>3
      <4>2. \A j \in DOMAIN r : j > k - 1 => f \notin DOMAIN r[j].changes
        <5> SUFFICES ASSUME NEW j \in DOMAIN r, j > k - 1
                     PROVE  f \notin DOMAIN r[j].changes
          OBVIOUS
        <5>1. j + 1 \in DOMAIN q /\ r[j] = q[j + 1] /\ j \in Nat
          BY <1>1
        <5>2. j + 1 > k
          BY <4>1, <5>1
        <5> QED BY <3>1, <5>1, <5>2
      <4>3. Prevails(p, r, f, q[k].changes[f])
        BY <3>1, <4>1, <4>2 DEF Prevails
      <4> QED BY <1>1, <3>1, <4>3, OverlayIs
    <3> QED BY <1>1, <3>2, <3>3
  <2> QED BY <2>2, <2>3
<1> QED BY <1>2 DEF r
------------------------------------------------------------------------------
(* Types.                                                                  *)

Fields == {"name", "bio", "avatarID"}

LEMMA UpdateTypes ==
    ASSUME NEW u \in Update
    PROVE  /\ DOMAIN u.changes \subseteq Fields
           /\ \A f \in DOMAIN u.changes : u.changes[f] \in Values[f]
           /\ u.changes \in Changes /\ u.status \in Status
<1>1. u.changes \in Changes /\ u.status \in Status
  BY DEF Update
<1>2. PICK fields \in SUBSET Fields :
          u.changes \in [fields -> Name \union Bio \union AvatarID]
  BY <1>1 DEF Changes, Fields
<1>3. DOMAIN u.changes = fields
  BY <1>2
<1>4. \A f \in DOMAIN u.changes : u.changes[f] \in Values[f]
  BY <1>1 DEF Changes
<1> QED BY <1>1, <1>3, <1>4

LEMMA ChangesTypes ==
    ASSUME NEW fields \in SUBSET Fields, NEW c,
           c = [f \in fields |-> c[f]],
           \A f \in fields : c[f] \in Values[f]
    PROVE  c \in Changes /\ DOMAIN c = fields
<1>1. \A f \in fields : c[f] \in Name \union Bio \union AvatarID
  BY DEF Fields, Values
<1>2. c \in [fields -> Name \union Bio \union AvatarID]
  BY <1>1, Zenon
<1>3. DOMAIN c = fields
  BY <1>2
<1> QED BY <1>2, <1>3 DEF Changes, Fields

LEMMA OverlayType ==
    ASSUME NEW q \in Seq(Update), NEW p \in Document
    PROVE  Overlay(p, q) \in Document /\ DOMAIN p = Fields
<1>1. /\ DOMAIN p = Fields
      /\ p.name \in Name /\ p.bio \in Bio
      /\ p.avatarID \in AvatarID \union {Nothing}
  BY DEF Document, Fields
<1>2. \A k \in DOMAIN q : q[k] \in Update
  OBVIOUS
<1>3. ASSUME NEW f \in Fields
      PROVE  Overlay(p, q)[f] = p[f] \/ Overlay(p, q)[f] \in Values[f]
  <2>1. Prevails(p, q, f, Overlay(p, q)[f])
    BY <1>1, OverlayPrevails
  <2> QED BY <1>2, <2>1, UpdateTypes DEF Prevails
<1>4. /\ Overlay(p, q)["name"] \in Name /\ Overlay(p, q)["bio"] \in Bio
      /\ Overlay(p, q)["avatarID"] \in AvatarID \union {Nothing}
  BY <1>1, <1>3 DEF Values, Fields
<1>5. Overlay(p, q) = [f \in Fields |-> Overlay(p, q)[f]]
  BY <1>1 DEF Overlay
<1>6. Overlay(p, q) = [name |-> Overlay(p, q)["name"],
                       bio |-> Overlay(p, q)["bio"],
                       avatarID |-> Overlay(p, q)["avatarID"]]
  BY <1>5 DEF Fields
<1> QED BY <1>1, <1>4, <1>6 DEF Document

LEMMA HeldType ==
    ASSUME TypeOK
    PROVE  /\ Held \in Document /\ DOMAIN profile = Fields
           /\ outbox \in Seq(Update)
  BY HeldIsOverlay, OverlayType DEF TypeOK

LEMMA RuledUpdates ==
    ASSUME TypeOK, NEW k \in DOMAIN outbox, NEW st \in Status
    PROVE  /\ Ruled(outbox, k, st) \in Seq(Update)
           /\ DOMAIN Ruled(outbox, k, st) = DOMAIN outbox
           /\ Ruled(outbox, k, st)[k].status = st
           /\ \A j \in DOMAIN outbox :
                 /\ Ruled(outbox, k, st)[j].changes = outbox[j].changes
                 /\ j # k => Ruled(outbox, k, st)[j] = outbox[j]
<1> DEFINE w == [outbox[k] EXCEPT !.status = st]
<1>1. outbox \in Seq(Update) /\ outbox[k] \in Update
  BY DEF TypeOK
<1>2. w \in Update /\ w.changes = outbox[k].changes /\ w.status = st
  BY <1>1 DEF Update
<1>3. /\ Ruled(outbox, k, st) \in Seq(Update)
      /\ DOMAIN Ruled(outbox, k, st) = DOMAIN outbox
      /\ Ruled(outbox, k, st)[k] = w
      /\ \A j \in DOMAIN outbox : j # k => Ruled(outbox, k, st)[j] = outbox[j]
  BY <1>1, <1>2, RuledProperties
<1> HIDE DEF w
<1> QED BY <1>2, <1>3

LEMMA ResentUpdates ==
    ASSUME TypeOK
    PROVE  /\ Resent(outbox) \in Seq(Update)
           /\ DOMAIN Resent(outbox) = DOMAIN outbox
           /\ \A k \in DOMAIN outbox :
                 /\ Resent(outbox)[k].changes = outbox[k].changes
                 /\ Resent(outbox)[k].status = "queued"
<1>1. \A w \in Update : /\ [w EXCEPT !.status = "queued"] \in Update
                        /\ [w EXCEPT !.status = "queued"].changes = w.changes
                        /\ [w EXCEPT !.status = "queued"].status = "queued"
  BY DEF Update, Status
<1>2. outbox \in Seq(Update)
  BY DEF TypeOK
<1>3. /\ Resent(outbox) \in Seq(Update)
      /\ DOMAIN Resent(outbox) = DOMAIN outbox
      /\ \A k \in DOMAIN outbox :
            Resent(outbox)[k] = [outbox[k] EXCEPT !.status = "queued"]
  BY <1>1, <1>2, ResentProperties
<1> SUFFICES ASSUME NEW k \in DOMAIN outbox
             PROVE  /\ Resent(outbox)[k].changes = outbox[k].changes
                    /\ Resent(outbox)[k].status = "queued"
  BY <1>3
<1>4. /\ outbox[k] \in Update
      /\ Resent(outbox)[k] = [outbox[k] EXCEPT !.status = "queued"]
  BY <1>2, <1>3
<1> QED BY <1>1, <1>4, Zenon

\* What is sent when the tick is pressed.
LEMMA SentText ==
    ASSUME TypeOK, SaveText, NEW c, c = [f \in Changed |-> screen[f]]
    PROVE  /\ c \in Changes /\ DOMAIN c = Changed /\ Changed \subseteq TextField
           /\ \/ Changed = {} /\ outbox' = outbox
              \/ outbox' = Append(outbox, [changes |-> c, status |-> "queued"])
<1>1. Changed \subseteq TextField
  BY DEF SaveText, Changed, Part
<1>2. \A f \in Changed : c[f] \in Values[f]
  BY <1>1 DEF TypeOK, Screen, Values, TextField
<1>3. c \in Changes /\ DOMAIN c = Changed
  BY <1>1, <1>2, ChangesTypes, Zenon DEF TextField, Fields
<1> QED BY <1>1, <1>3 DEF SaveText, Send

LEMMA SentPicture ==
    ASSUME TypeOK, NEW a, SavePicture(a), NEW c,
           c = [f \in (Changed \ {"picture"}) \union {"avatarID"} |->
                    IF f = "avatarID" THEN a ELSE screen[f]]
    PROVE  /\ c \in Changes /\ c["avatarID"] = a
           /\ DOMAIN c = (Changed \ {"picture"}) \union {"avatarID"}
           /\ \A f \in Changed \ {"picture"} : c[f] = screen[f]
           /\ outbox' = Append(outbox, [changes |-> c, status |-> "queued"])
<1> DEFINE fields == (Changed \ {"picture"}) \union {"avatarID"}
<1>1. fields \subseteq Fields /\ Changed \ {"picture"} \subseteq TextField
  BY DEF Changed, Part, Fields, TextField
<1>2. /\ c["avatarID"] = a
      /\ \A f \in Changed \ {"picture"} : c[f] = screen[f]
  BY <1>1 DEF TextField
<1>3. \A f \in fields : c[f] \in Values[f]
  BY <1>1, <1>2 DEF SavePicture, SendPicture, TypeOK, Screen, Values,
                      TextField
<1>4. c = [f \in fields |-> c[f]]
  OBVIOUS
<1> HIDE DEF fields
<1>5. c \in Changes /\ DOMAIN c = fields
  BY <1>1, <1>3, <1>4, ChangesTypes
<1>6. DOMAIN c # {}
  BY <1>5 DEF fields
<1> QED BY <1>2, <1>5, <1>6 DEF SavePicture, SendPicture, Send, fields

LEMMA AppendedUpdate ==
    ASSUME TypeOK, NEW c \in Changes,
           outbox' = Append(outbox, [changes |-> c, status |-> "queued"])
    PROVE  /\ outbox' \in Seq(Update)
           /\ [changes |-> c, status |-> "queued"] \in Update
           /\ \A k \in DOMAIN outbox :
                 k \in DOMAIN outbox' /\ outbox'[k] = outbox[k]
           /\ \A k \in DOMAIN outbox' :
                 \/ k \in DOMAIN outbox /\ outbox'[k] = outbox[k]
                 \/ /\ outbox'[k].changes = c /\ outbox'[k].status = "queued"
                    /\ \A j \in DOMAIN outbox : j < k
<1> DEFINE u == [changes |-> c, status |-> "queued"]
<1>1. u \in Update /\ u.changes = c /\ u.status = "queued"
  BY DEF Update, Status
<1>2. outbox \in Seq(Update) /\ outbox' = Append(outbox, u)
  BY DEF TypeOK
<1> HIDE DEF u
<1>3. /\ outbox' \in Seq(Update)
      /\ \A k \in DOMAIN outbox :
                 k \in DOMAIN outbox' /\ outbox'[k] = outbox[k]
      /\ \A k \in DOMAIN outbox' :
            \/ k \in DOMAIN outbox /\ outbox'[k] = outbox[k]
            \/ outbox'[k] = u /\ \A j \in DOMAIN outbox : j < k
  BY <1>1, <1>2
<1> QED BY <1>1, <1>3 DEF u

TypesInv == TypeOK /\ AvatarsAreMade

LEMMA InitTypes == Init => TypesInv
<1> SUFFICES ASSUME Init PROVE TypesInv
  OBVIOUS
<1>1. <<>> \in Seq(Update) /\ <<>> \in Seq(Document)
  OBVIOUS
<1>2. profile \in Document /\ stored \subseteq {profile.avatarID} \ {Nothing}
  BY DEF Init
<1>3. stored \subseteq AvatarID
  BY <1>2 DEF Document
<1>4. \A a \in AvatarID : made[a] \in Picture \union {Nothing}
  BY DEF Init
<1>5. \A a \in stored : made[a] \in Picture
  BY <1>2, <1>3, <1>4 DEF Init
<1>6. FirstScreen \in Screen
  BY ProfileAssumption DEF FirstScreen, Screen, Image
<1>7. made \in [AvatarID -> Image \union {Nothing}]
  BY DEF Init, Image
<1>8. TypeOK
  BY <1>1, <1>2, <1>3, <1>6, <1>7 DEF Init, TypeOK
<1>9. AvatarsAreMade
  BY <1>5 DEF Init, AvatarsAreMade, Image
<1> QED BY <1>8, <1>9 DEF TypesInv

LEMMA TypesStep == TypesInv /\ [Next]_vars => TypesInv'
<1> SUFFICES ASSUME TypesInv, [Next]_vars PROVE TypesInv'
  OBVIOUS
<1> USE DEF serverVars, avatarVars, screenVars, infoVars
<1>0. TypeOK /\ AvatarsAreMade
  BY DEF TypesInv
<1>1. ASSUME UNCHANGED <<serverVars, avatarVars, outbox>>,
             screen' \in Screen, original' \in Screen, editingMode' \in BOOLEAN,
             asked' \in BOOLEAN, answers' \in Seq(Document),
             asked' => answers' = <<>>,
             loading' \in AvatarID \union {Nothing}, known' \subseteq Part
      PROVE  TypesInv'
  BY <1>0, <1>1 DEF TypeOK, AvatarsAreMade, TypesInv
<1>2. CASE AnswerInfo \/ FailInfo
  <2>1. <<Held>> \in Seq(Document)
    BY <1>0, HeldType
  <2> QED BY <1>0, <1>1, <1>2, <2>1 DEF AnswerInfo, FailInfo, TypeOK
<1>3. CASE ShowInfo
  <2> DEFINE info == Head(answers)
  <2>1. info \in Document
    BY <1>0, <1>3 DEF ShowInfo, TypeOK
  <2>2. screen' = [name |-> info.name, bio |-> info.bio,
                   picture |-> Placeholder]
    BY <1>3 DEF ShowInfo
  <2>3. screen' \in Screen /\ info.avatarID \in AvatarID \union {Nothing}
    BY <2>1, <2>2 DEF Document, Screen, Image
  <2>4. Current(info) \subseteq Part
    BY DEF Current, Part
  <2>5. <<>> \in Seq(Document)
    OBVIOUS
  <2> QED BY <1>0, <1>1, <1>3, <2>3, <2>4, <2>5 DEF ShowInfo, TypeOK
<1>4. CASE AvatarLoads
  <2>1. made[loading] \in Image
    BY <1>0, <1>4 DEF AvatarLoads, AvatarsAreMade
  <2>2. screen' \in Screen
    BY <1>0, <1>4, <2>1 DEF AvatarLoads, TypeOK, Screen
  <2>3. known' \subseteq Part
    BY <1>0, <1>4 DEF AvatarLoads, TypeOK, Part
  <2> QED BY <1>0, <1>1, <1>4, <2>2, <2>3 DEF AvatarLoads, TypeOK
<1>5. CASE AvatarFails
  BY <1>0, <1>1, <1>5 DEF AvatarFails, TypeOK
<1>6. CASE StartEdit \/ Cancel \/ SaveNothing
  <2>1. known' \subseteq Part
    BY <1>0, <1>6 DEF StartEdit, Cancel, SaveNothing, TypeOK
  <2> QED BY <1>0, <1>1, <1>6, <2>1 DEF StartEdit, Cancel, SaveNothing, TypeOK
<1>7. ASSUME NEW part, NEW value, Enter(part, value),
             \/ part = "name" /\ value \in Name
             \/ part = "bio" /\ value \in Bio
             \/ part = "picture" /\ value \in Picture
      PROVE  TypesInv'
  <2>1. screen' \in Screen
    BY <1>0, <1>7 DEF Enter, TypeOK, Screen, Image
  <2> QED BY <1>0, <1>1, <1>7, <2>1 DEF Enter, TypeOK
<1>8. CASE SaveText
  <2> DEFINE c == [f \in Changed |-> screen[f]]
  <2>1. /\ c \in Changes
        /\ \/ outbox' = outbox
           \/ outbox' = Append(outbox, [changes |-> c, status |-> "queued"])
    BY <1>0, <1>8, SentText
  <2> HIDE DEF c
  <2>2. outbox' \in Seq(Update)
    BY <1>0, <2>1, AppendedUpdate DEF TypeOK
  <2>3. known' \subseteq Part
    BY <1>0, <1>8 DEF SaveText, TypeOK, Changed
  <2> QED BY <1>0, <1>8, <2>2, <2>3
          DEF SaveText, TypeOK, AvatarsAreMade, TypesInv
<1>9. ASSUME NEW a \in AvatarID, SavePicture(a) PROVE TypesInv'
  <2> DEFINE c == [f \in (Changed \ {"picture"}) \union {"avatarID"} |->
                    IF f = "avatarID" THEN a ELSE screen[f]]
  <2>1. /\ c \in Changes
        /\ outbox' = Append(outbox, [changes |-> c, status |-> "queued"])
    BY <1>0, <1>9, SentPicture
  <2> HIDE DEF c
  <2>2. outbox' \in Seq(Update)
    BY <1>0, <2>1, AppendedUpdate
  <2>3. /\ made' = [made EXCEPT ![a] = screen.picture]
        /\ uploading' = uploading \union {a}
        /\ screen.picture \in Image
        /\ UNCHANGED <<profile, stored, screen, original, infoVars>>
        /\ editingMode' = FALSE /\ known' \subseteq Part
    BY <1>0, <1>9 DEF SavePicture, SendPicture, TypeOK, Screen, Changed
  <2>4. /\ made' \in [AvatarID -> Image \union {Nothing}]
        /\ made'[a] = screen.picture
        /\ \A b \in AvatarID : b # a => made'[b] = made[b]
    BY <1>0, <2>3 DEF TypeOK
  <2>5. TypeOK'
    BY <1>0, <2>2, <2>3, <2>4 DEF TypeOK
  <2>6. AvatarsAreMade'
    BY <1>0, <2>3, <2>4 DEF TypeOK, AvatarsAreMade
  <2> QED BY <2>5, <2>6 DEF TypesInv
<1>10. ASSUME NEW a \in AvatarID, StoreAvatar(a) \/ FailAvatar(a)
       PROVE  TypesInv'
  BY <1>0, <1>10 DEF StoreAvatar, FailAvatar, TypeOK, AvatarsAreMade, TypesInv
<1>11. ASSUME NEW k \in DOMAIN outbox, CommitUpdate(k) \/ RefuseUpdate(k)
       PROVE  TypesInv'
  <2>1. outbox' \in Seq(Update)
    BY <1>0, <1>11, RuledUpdates DEF CommitUpdate, RefuseUpdate, Rule, Status
  <2>2. profile' \in Document
    <3>1. outbox[k] \in Update /\ profile \in Document
      BY <1>0 DEF TypeOK
    <3>2. CASE CommitUpdate(k)
      <4> DEFINE c == outbox[k].changes
      <4>1. \A f \in DOMAIN c : c[f] \in Values[f]
        BY <3>1, UpdateTypes
      <4>2. /\ profile.name \in Name /\ profile.bio \in Bio
            /\ profile.avatarID \in AvatarID \union {Nothing}
            /\ DOMAIN profile = Fields
        BY <3>1 DEF Document, Fields
      <4>3. profile' = Merge(profile, c)
        BY <3>2 DEF CommitUpdate
      <4> HIDE DEF c
      <4>4. profile' = [f \in Fields |->
                            IF f \in DOMAIN c THEN c[f] ELSE profile[f]]
        BY <4>2, <4>3 DEF Merge
      <4>5. /\ profile'["name"] \in Name /\ profile'["bio"] \in Bio
            /\ profile'["avatarID"] \in AvatarID \union {Nothing}
        BY <4>1, <4>2, <4>4 DEF Values, Fields
      <4>6. profile' = [name |-> profile'["name"], bio |-> profile'["bio"],
                        avatarID |-> profile'["avatarID"]]
        BY <4>4 DEF Fields
      <4> QED BY <4>5, <4>6 DEF Document
    <3>3. CASE RefuseUpdate(k)
      BY <3>1, <3>3 DEF RefuseUpdate
    <3> QED BY <1>11, <3>2, <3>3
  <2> QED BY <1>0, <1>11, <2>1, <2>2
          DEF CommitUpdate, RefuseUpdate, Rule, TypeOK, AvatarsAreMade, TypesInv
<1>12. CASE LoseResult \/ Reopen
  <2>1. outbox' \in Seq(Update)
    BY <1>0, <1>12, ResentUpdates DEF LoseResult, Reopen
  <2>2. FirstScreen \in Screen /\ <<>> \in Seq(Document)
    BY ProfileAssumption DEF FirstScreen, Screen, Image
  <2>3. CASE LoseResult
    BY <1>0, <2>1, <2>3 DEF LoseResult, TypeOK, AvatarsAreMade, TypesInv
  <2>4. CASE Reopen
    <3>1. /\ UNCHANGED <<profile, stored, made>> /\ uploading' = {}
          /\ screen' \in Screen /\ original' \in Screen
          /\ editingMode' = FALSE /\ asked' = TRUE /\ answers' = <<>>
          /\ loading' = Nothing /\ known' = {}
      BY <2>2, <2>4 DEF Reopen
    <3> QED BY <1>0, <2>1, <2>2, <3>1 DEF TypeOK, AvatarsAreMade, TypesInv
  <2> QED BY <1>12, <2>3, <2>4
<1>13. CASE Settle
  <2>1. outbox' \in Seq(Update) /\ known' \subseteq Part
    BY <1>0, <1>13 DEF Settle, HasResult, TypeOK
  <2> QED BY <1>0, <1>13, <2>1 DEF Settle, TypeOK, AvatarsAreMade, TypesInv
<1>14. CASE UNCHANGED vars
  BY <1>0, <1>14 DEF vars, TypeOK, AvatarsAreMade, TypesInv
<1> QED BY <1>2, <1>3, <1>4, <1>5, <1>6, <1>7, <1>8, <1>9, <1>10, <1>11, <1>12,
           <1>13, <1>14 DEF Next, Loading, Editing
------------------------------------------------------------------------------
(* The queue of updates.                                                   *)

\* The updates are ruled on in order, and the last that is committed shows.
LEMMA CommitsStep ==
    TypesInv /\ TypesInv' /\ CommitsShow /\ [Next]_vars => CommitsShow'
<1> SUFFICES ASSUME TypesInv, TypesInv', CommitsShow, [Next]_vars
             PROVE  CommitsShow'
  OBVIOUS
<1> USE DEF serverVars, avatarVars, screenVars, infoVars
<1>0. /\ TypeOK /\ outbox \in Seq(Update) /\ DOMAIN profile = Fields
      /\ \A k \in DOMAIN outbox : k \in Nat
  BY HeldType DEF TypesInv
<1>1. ASSUME UNCHANGED <<profile, outbox>> PROVE CommitsShow'
  BY <1>1 DEF CommitsShow, Touching
<1>2. ASSUME UNCHANGED profile, NEW c \in Changes,
             outbox' = Append(outbox, [changes |-> c, status |-> "queued"])
      PROVE  CommitsShow'
  <2>1. /\ \A k \in DOMAIN outbox :
              k \in DOMAIN outbox' /\ outbox'[k] = outbox[k]
        /\ \A k \in DOMAIN outbox' :
              \/ k \in DOMAIN outbox /\ outbox'[k] = outbox[k]
              \/ /\ outbox'[k].status = "queued"
                 /\ \A j \in DOMAIN outbox : j < k
        /\ outbox' \in Seq(Update)
    BY <1>0, <1>2, AppendedUpdate
  <2>2. \A k \in DOMAIN outbox' : k \in Nat
    BY <2>1
  <2>3. ASSUME NEW j \in DOMAIN outbox', NEW k \in DOMAIN outbox',
               j < k, outbox'[k].status # "queued"
        PROVE  outbox'[j].status = "committed"
    <3>1. k \in DOMAIN outbox /\ outbox'[k] = outbox[k]
      BY <2>1, <2>3
    <3>2. j \in DOMAIN outbox /\ outbox'[j] = outbox[j]
      BY <1>0, <2>1, <2>2, <2>3, <3>1
    <3> QED BY <2>3, <3>1, <3>2 DEF CommitsShow
  <2>4. ASSUME NEW k \in DOMAIN outbox', NEW f \in DOMAIN outbox'[k].changes,
               outbox'[k].status = "committed"
        PROVE  \/ \E j \in DOMAIN outbox' : /\ f \in DOMAIN outbox'[j].changes
                                            /\ j > k
                                            /\ outbox'[j].status = "committed"
               \/ profile'[f] = outbox'[k].changes[f]
    <3>1. k \in DOMAIN outbox /\ outbox'[k] = outbox[k]
      BY <2>1, <2>4
    <3> QED BY <1>2, <2>1, <2>4, <3>1 DEF CommitsShow, Touching
  <2> QED BY <2>3, <2>4 DEF CommitsShow, Touching
<1>3. ASSUME NEW k \in DOMAIN outbox, CommitUpdate(k) PROVE CommitsShow'
  <2> DEFINE c == outbox[k].changes
  <2>1. /\ outbox' = Ruled(outbox, k, "committed")
        /\ profile' = Merge(profile, c)
        /\ outbox[k].status = "queued"
        /\ \A j \in 1 .. k - 1 : outbox[j].status = "committed"
    BY <1>3 DEF CommitUpdate, Rule, IsNext
  <2>2. /\ DOMAIN outbox' = DOMAIN outbox
        /\ outbox'[k].status = "committed"
        /\ \A j \in DOMAIN outbox : /\ outbox'[j].changes = outbox[j].changes
                                    /\ j # k => outbox'[j] = outbox[j]
    BY <1>0, <2>1, RuledUpdates DEF Status
  <2>3. \A f \in Fields :
            profile'[f] = IF f \in DOMAIN c THEN c[f] ELSE profile[f]
    BY <1>0, <2>1 DEF Merge
  <2>4. \A j \in DOMAIN outbox : DOMAIN outbox[j].changes \subseteq Fields
    BY <1>0, UpdateTypes
  <2>5. \A j \in DOMAIN outbox : j > k => outbox[j].status = "queued"
    BY <1>0, <2>1 DEF CommitsShow
  <2>6. \A j \in DOMAIN outbox : j < k => outbox[j].status = "committed"
    BY <1>0, <2>1
  <2>7. ASSUME NEW i \in DOMAIN outbox', NEW j \in DOMAIN outbox',
               i < j, outbox'[j].status # "queued"
        PROVE  outbox'[i].status = "committed"
    <3>1. ~ (j > k)
      BY <1>0, <2>2, <2>5, <2>7
    <3>2. i < k
      BY <1>0, <2>2, <2>7, <3>1
    <3> QED BY <1>0, <2>2, <2>6, <3>2
  <2>8. ASSUME NEW j \in DOMAIN outbox', NEW f \in DOMAIN outbox'[j].changes,
               outbox'[j].status = "committed"
        PROVE  \/ \E i \in DOMAIN outbox' : /\ f \in DOMAIN outbox'[i].changes
                                            /\ i > j
                                            /\ outbox'[i].status = "committed"
               \/ profile'[f] = outbox'[j].changes[f]
    <3>1. j \in DOMAIN outbox /\ f \in DOMAIN outbox[j].changes /\ f \in Fields
      BY <2>2, <2>4
    <3>2. CASE j = k
      BY <2>2, <2>3, <3>1, <3>2
    <3>3. CASE j < k /\ f \in DOMAIN c
      BY <1>0, <2>2, <3>1, <3>3
    <3>4. CASE j < k /\ f \notin DOMAIN c
      <4>1. outbox[j].status = "committed" /\ profile'[f] = profile[f]
        BY <2>3, <2>6, <3>1, <3>4
      <4>2. CASE profile[f] = outbox[j].changes[f]
        BY <2>2, <3>1, <4>1, <4>2
      <4>3. CASE profile[f] # outbox[j].changes[f]
        <5>1. PICK i \in Touching(f) : i > j /\ outbox[i].status = "committed"
          BY <3>1, <4>1, <4>3 DEF CommitsShow
        <5>2. i \in DOMAIN outbox /\ f \in DOMAIN outbox[i].changes /\ i # k
          BY <3>4, <5>1 DEF Touching
        <5> QED BY <2>2, <5>1, <5>2
      <4> QED BY <4>2, <4>3
    <3>5. CASE j > k
      BY <2>2, <2>5, <2>8, <3>1, <3>5
    <3> QED BY <1>0, <3>1, <3>2, <3>3, <3>4, <3>5
  <2> QED BY <2>7, <2>8 DEF CommitsShow, Touching
<1>4. ASSUME NEW k \in DOMAIN outbox, RefuseUpdate(k) PROVE CommitsShow'
  <2>1. /\ outbox' = Ruled(outbox, k, "rejected") /\ profile' = profile
        /\ outbox[k].status = "queued"
        /\ \A j \in 1 .. k - 1 : outbox[j].status = "committed"
    BY <1>4 DEF RefuseUpdate, Rule, IsNext
  <2>2. /\ DOMAIN outbox' = DOMAIN outbox
        /\ outbox'[k].status = "rejected"
        /\ \A j \in DOMAIN outbox : /\ outbox'[j].changes = outbox[j].changes
                                    /\ j # k => outbox'[j] = outbox[j]
    BY <1>0, <2>1, RuledUpdates DEF Status
  <2>3. \A j \in DOMAIN outbox : j > k => outbox[j].status = "queued"
    BY <1>0, <2>1 DEF CommitsShow
  <2>4. \A j \in DOMAIN outbox : j < k => outbox[j].status = "committed"
    BY <1>0, <2>1
  <2>5. ASSUME NEW i \in DOMAIN outbox', NEW j \in DOMAIN outbox',
               i < j, outbox'[j].status # "queued"
        PROVE  outbox'[i].status = "committed"
    <3>1. ~ (j > k)
      BY <1>0, <2>2, <2>3, <2>5
    <3>2. i < k
      BY <1>0, <2>2, <2>5, <3>1
    <3> QED BY <1>0, <2>2, <2>4, <3>2
  <2>6. ASSUME NEW j \in DOMAIN outbox', NEW f \in DOMAIN outbox'[j].changes,
               outbox'[j].status = "committed"
        PROVE  \/ \E i \in DOMAIN outbox' : /\ f \in DOMAIN outbox'[i].changes
                                            /\ i > j
                                            /\ outbox'[i].status = "committed"
               \/ profile'[f] = outbox'[j].changes[f]
    <3>1. /\ j \in DOMAIN outbox /\ f \in DOMAIN outbox[j].changes /\ j # k
          /\ outbox[j].status = "committed"
      BY <2>2, <2>6
    <3>2. CASE profile[f] = outbox[j].changes[f]
      BY <2>1, <2>2, <3>1, <3>2
    <3>3. CASE profile[f] # outbox[j].changes[f]
      <4>1. PICK i \in Touching(f) : i > j /\ outbox[i].status = "committed"
        BY <3>1, <3>3 DEF CommitsShow
      <4>2. i \in DOMAIN outbox /\ f \in DOMAIN outbox[i].changes /\ i # k
        BY <2>1, <4>1 DEF Touching
      <4> QED BY <2>2, <4>1, <4>2
    <3> QED BY <3>2, <3>3
  <2> QED BY <2>5, <2>6 DEF CommitsShow, Touching
<1>5. CASE LoseResult \/ Reopen
  <2>1. outbox' = Resent(outbox)
    BY <1>5 DEF LoseResult, Reopen
  <2>2. \A k \in DOMAIN outbox' : outbox'[k].status = "queued"
    BY <1>0, <2>1, ResentUpdates
  <2> QED BY <2>2 DEF CommitsShow
<1>6. CASE Settle
  <2>1. outbox # <<>> /\ outbox' = Tail(outbox) /\ profile' = profile
    BY <1>6 DEF Settle, HasResult
  <2>2. /\ \A k \in DOMAIN outbox' : /\ k + 1 \in DOMAIN outbox /\ k \in Nat
                                     /\ outbox'[k] = outbox[k + 1]
        /\ \A k \in DOMAIN outbox : k > 1 => /\ k - 1 \in DOMAIN outbox'
                                             /\ outbox'[k - 1] = outbox[k]
    BY <1>0, <2>1
  <2>3. ASSUME NEW i \in DOMAIN outbox', NEW j \in DOMAIN outbox',
               i < j, outbox'[j].status # "queued"
        PROVE  outbox'[i].status = "committed"
    <3>1. i + 1 < j + 1
      BY <2>2, <2>3
    <3> QED BY <2>2, <2>3, <3>1 DEF CommitsShow
  <2>4. ASSUME NEW j \in DOMAIN outbox', NEW f \in DOMAIN outbox'[j].changes,
               outbox'[j].status = "committed"
        PROVE  \/ \E i \in DOMAIN outbox' : /\ f \in DOMAIN outbox'[i].changes
                                            /\ i > j
                                            /\ outbox'[i].status = "committed"
               \/ profile'[f] = outbox'[j].changes[f]
    <3>1. /\ j + 1 \in DOMAIN outbox /\ outbox[j + 1] = outbox'[j] /\ j \in Nat
      BY <2>2
    <3>2. CASE profile[f] = outbox[j + 1].changes[f]
      BY <2>1, <3>1, <3>2
    <3>3. CASE profile[f] # outbox[j + 1].changes[f]
      <4>1. PICK i \in Touching(f) : i > j + 1 /\ outbox[i].status = "committed"
        BY <2>4, <3>1, <3>3 DEF CommitsShow
      <4>2. /\ i \in DOMAIN outbox /\ f \in DOMAIN outbox[i].changes
            /\ i \in Nat /\ i > 1 /\ i - 1 > j
        BY <1>0, <3>1, <4>1 DEF Touching
      <4>3. i - 1 \in DOMAIN outbox' /\ outbox'[i - 1] = outbox[i]
        BY <2>2, <4>2
      <4> QED BY <4>1, <4>2, <4>3
    <3> QED BY <3>2, <3>3
  <2> QED BY <2>3, <2>4 DEF CommitsShow, Touching
<1>7. CASE SaveText
  <2> DEFINE c == [f \in Changed |-> screen[f]]
  <2>1. /\ c \in Changes
        /\ \/ outbox' = outbox
           \/ outbox' = Append(outbox, [changes |-> c, status |-> "queued"])
    BY <1>0, <1>7, SentText
  <2>2. profile' = profile
    BY <1>7 DEF SaveText
  <2> HIDE DEF c
  <2> QED BY <1>1, <1>2, <2>1, <2>2
<1>8. ASSUME NEW a, SavePicture(a) PROVE CommitsShow'
  <2> DEFINE c == [f \in (Changed \ {"picture"}) \union {"avatarID"} |->
                    IF f = "avatarID" THEN a ELSE screen[f]]
  <2>1. /\ c \in Changes
        /\ outbox' = Append(outbox, [changes |-> c, status |-> "queued"])
    BY <1>0, <1>8, SentPicture
  <2>2. profile' = profile
    BY <1>8 DEF SavePicture, SendPicture
  <2> HIDE DEF c
  <2> QED BY <1>2, <2>1, <2>2
<1>9. CASE Loading \/ StartEdit \/ Cancel \/ SaveNothing \/ UNCHANGED vars
  BY <1>1, <1>9 DEF Loading, AnswerInfo, FailInfo, ShowInfo, AvatarLoads,
                    AvatarFails, StartEdit, Cancel, SaveNothing, vars
<1>10. ASSUME NEW part, NEW value, Enter(part, value) PROVE CommitsShow'
  BY <1>1, <1>10 DEF Enter
<1>11. ASSUME NEW a, StoreAvatar(a) \/ FailAvatar(a) PROVE CommitsShow'
  BY <1>1, <1>11 DEF StoreAvatar, FailAvatar
<1> QED BY <1>3, <1>4, <1>5, <1>6, <1>7, <1>8, <1>9, <1>10, <1>11
        DEF Next, Editing
------------------------------------------------------------------------------
(* What the screen has shown.                                              *)

\* Neither rulings, nor a broken stream, nor restarts change the document as the
\* phone sees it.
LEMMA HeldKept ==
    ASSUME TypesInv, TypesInv', CommitsShow,
           \/ UNCHANGED <<profile, outbox>>
           \/ \E k \in DOMAIN outbox : CommitUpdate(k) \/ RefuseUpdate(k)
           \/ LoseResult \/ Reopen
    PROVE  Held' = Held
<1>0. /\ TypeOK /\ outbox \in Seq(Update) /\ outbox' \in Seq(Update)
      /\ DOMAIN profile = Fields /\ DOMAIN profile' = Fields
      /\ Held = Overlay(profile, outbox)
  BY HeldType, HeldIsOverlay, OverlayType DEF TypesInv, TypeOK
<1>1. Held' = Overlay(profile', outbox')
  BY DEF Held, Touching, Overlay
<1>2. CASE UNCHANGED <<profile, outbox>>
  BY <1>0, <1>1, <1>2
<1>3. ASSUME NEW k \in DOMAIN outbox, CommitUpdate(k) \/ RefuseUpdate(k)
      PROVE  Held' = Held
  <2>1. /\ DOMAIN outbox' = DOMAIN outbox
        /\ \A j \in DOMAIN outbox : outbox'[j].changes = outbox[j].changes
    BY <1>0, <1>3, RuledUpdates DEF CommitUpdate, RefuseUpdate, Rule, Status
  <2>2. \A f \in Fields :
            profile'[f] = profile[f] \/ f \in DOMAIN outbox[k].changes
    BY <1>0, <1>3 DEF CommitUpdate, RefuseUpdate, Merge
  <2>3. Overlay(profile', outbox') = Overlay(profile, outbox)
    BY <1>0, <2>1, <2>2, SameOverlay
  <2> QED BY <1>0, <1>1, <2>3
<1>4. CASE LoseResult \/ Reopen
  <2>1. outbox' = Resent(outbox) /\ profile' = profile
    BY <1>4 DEF LoseResult, Reopen, serverVars
  <2>2. /\ DOMAIN outbox' = DOMAIN outbox
        /\ \A j \in DOMAIN outbox : outbox'[j].changes = outbox[j].changes
    BY <1>0, <2>1, ResentUpdates
  <2>3. Overlay(profile', outbox') = Overlay(profile, outbox)
    BY <1>0, <2>1, <2>2, SameOverlay
  <2> QED BY <1>0, <1>1, <2>3
<1> QED BY <1>2, <1>3, <1>4

\* Nor does a result, but for the fields of an update that was refused.
LEMMA HeldSettled ==
    ASSUME TypesInv, CommitsShow, Settle, NEW f \in Fields,
           Head(outbox).status = "rejected" =>
               f \notin DOMAIN Head(outbox).changes
    PROVE  Held'[f] = Held[f]
<1>0. /\ outbox \in Seq(Update) /\ DOMAIN profile = Fields
      /\ Held = Overlay(profile, outbox)
  BY HeldType, HeldIsOverlay DEF TypesInv
<1>1. /\ outbox # <<>> /\ outbox' = Tail(outbox) /\ profile' = profile
      /\ Head(outbox).status # "queued"
  BY DEF Settle, HasResult, serverVars
<1>2. 1 \in DOMAIN outbox /\ Head(outbox) = outbox[1] /\ outbox[1] \in Update
  BY <1>0, <1>1
<1>3. ASSUME f \in DOMAIN outbox[1].changes
      PROVE  \/ profile[f] = outbox[1].changes[f]
             \/ \E j \in DOMAIN outbox : j > 1 /\ f \in DOMAIN outbox[j].changes
  <2>1. outbox[1].status = "committed"
    BY <1>1, <1>2, <1>3, UpdateTypes DEF Status
  <2> QED BY <1>2, <1>3, <2>1 DEF CommitsShow, Touching
<1>4. Overlay(profile, Tail(outbox))[f] = Overlay(profile, outbox)[f]
  BY <1>0, <1>1, <1>3, OverlayOfTail
<1>5. Held' = Overlay(profile', outbox')
  BY DEF Held, Touching, Overlay
<1> QED BY <1>0, <1>1, <1>4, <1>5

\* What is sent is what the phone sees from then on.
LEMMA HeldSent ==
    ASSUME TypesInv, NEW c \in Changes, UNCHANGED profile,
           outbox' = Append(outbox, [changes |-> c, status |-> "queued"])
    PROVE  \A f \in Fields :
              Held'[f] = IF f \in DOMAIN c THEN c[f] ELSE Held[f]
<1> DEFINE u == [changes |-> c, status |-> "queued"]
<1>0. /\ TypeOK /\ outbox \in Seq(Update) /\ DOMAIN profile = Fields
      /\ Held = Overlay(profile, outbox)
  BY HeldType, HeldIsOverlay DEF TypesInv
<1>1. Held' = Overlay(profile', outbox')
  BY DEF Held, Touching, Overlay
<1>2. u \in Update /\ u.changes = c
  BY <1>0, AppendedUpdate
<1>3. Held' = Overlay(profile, Append(outbox, u))
  BY <1>1
<1> HIDE DEF u
<1>4. ASSUME NEW f \in Fields
      PROVE  Overlay(profile, Append(outbox, u))[f] =
                IF f \in DOMAIN c THEN c[f] ELSE Overlay(profile, outbox)[f]
  BY <1>0, <1>2, OverlayOfAppend
<1> QED BY <1>0, <1>3, <1>4

\* The part of the screen, or of what it said when the edit began.
Shows(part) == (IF editingMode THEN original ELSE screen)[part]

\* What a part of the screen should say is the same, as long as the avatarID
\* names an avatar in Storage or on its way there, or neither before nor after.
LEMMA SavedKept ==
    ASSUME TypesInv, NEW part \in Part, UNCHANGED made,
           Held'[FieldOf(part)] = Held[FieldOf(part)],
           part = "picture" =>
               (Held.avatarID \in Avatars <=> Held.avatarID \in Avatars')
    PROVE  Saved(Held, Avatars, part)' = Saved(Held, Avatars, part)
  BY DEF Saved, PictureOf, FieldOf

LEMMA KnownStep ==
    ASSUME TypesInv, TypesInv', CommitsShow,
           KnownIsShown, [Next]_vars
    PROVE  KnownIsShown'
<1> USE DEF serverVars, avatarVars, screenVars, infoVars
<1>0. /\ TypeOK /\ known \subseteq Part /\ known' \subseteq Part
      /\ screen \in Screen /\ original \in Screen
      /\ Held \in Document /\ Held' \in Document
      /\ \A part \in known : Shows(part) = Saved(Held, Avatars, part)
  <2>1. TypeOK /\ TypeOK'
    BY DEF TypesInv
  <2>2. Held' \in Document
    <3>1. Held' = Overlay(profile', outbox')
      BY DEF Held, Touching, Overlay
    <3> QED BY <2>1, <3>1, OverlayType DEF TypeOK
  <2> QED BY <2>1, <2>2, HeldType DEF TypeOK, KnownIsShown, Shows
<1>1. ASSUME Held' = Held, UNCHANGED made,
             "picture" \in known' =>
                 (Held.avatarID \in Avatars <=> Held.avatarID \in Avatars'),
             \A part \in known' : Shows(part)' = Saved(Held, Avatars, part)
      PROVE  KnownIsShown'
  <2>1. ASSUME NEW part \in known'
        PROVE  Shows(part)' = Saved(Held, Avatars, part)'
    <3>1. part \in Part
      BY <1>0
    <3>2. Saved(Held, Avatars, part)' = Saved(Held, Avatars, part)
      BY <1>1, <2>1, <3>1, SavedKept
    <3> QED BY <1>1, <2>1, <3>2
  <2> QED BY <2>1 DEF KnownIsShown, Shows
<1>2. ASSUME Held' = Held, UNCHANGED <<made, screenVars>>,
             "picture" \in known' =>
                 (Held.avatarID \in Avatars <=> Held.avatarID \in Avatars'),
             known' \subseteq known
      PROVE  KnownIsShown'
  <2>1. \A part \in known' : Shows(part)' = Saved(Held, Avatars, part)
    BY <1>0, <1>2 DEF Shows
  <2> QED BY <1>1, <1>2, <2>1
<1>3. /\ UNCHANGED <<profile, outbox>> => Held' = Held
      /\ UNCHANGED <<stored, uploading>> => Avatars' = Avatars
  BY HeldKept DEF Avatars
<1>4. CASE AnswerInfo \/ FailInfo \/ AvatarFails \/ UNCHANGED vars
  BY <1>2, <1>3, <1>4 DEF AnswerInfo, FailInfo, AvatarFails, vars
<1>5. CASE ShowInfo
  <2> DEFINE info == Head(answers)
  <2>1. /\ answers # <<>> /\ UNCHANGED <<profile, outbox, made, stored, uploading,
                                        editingMode>>
        /\ screen' = [name |-> info.name, bio |-> info.bio,
                      picture |-> Placeholder]
        /\ known' = IF editingMode THEN known ELSE Current(info)
    BY <1>5 DEF ShowInfo
  <2>2. original' = original
    BY <1>5 DEF ShowInfo
  <2>3. CASE editingMode
    <3>1. \A part \in known' : Shows(part)' = Saved(Held, Avatars, part)
      BY <1>0, <2>1, <2>2, <2>3 DEF Shows
    <3> QED BY <1>1, <1>3, <2>1, <3>1
  <2>4. ASSUME NEW part \in Current(info)
        PROVE  screen'[part] = Saved(Held, Avatars, part)
    <3>1. CASE part \in TextField
      BY <2>1, <2>4, <3>1 DEF Current, Saved, TextField
    <3>2. CASE part = "picture"
      BY <2>1, <2>4, <3>2 DEF Current, Saved, TextField, PictureOf
    <3> QED BY <2>4, <3>1, <3>2 DEF Current
  <2>5. CASE ~ editingMode
    <3>1. \A part \in known' : Shows(part)' = Saved(Held, Avatars, part)
      BY <2>1, <2>4, <2>5 DEF Shows
    <3> QED BY <1>1, <1>3, <2>1, <3>1
  <2> QED BY <2>3, <2>5
<1>6. CASE AvatarLoads
  <2>1. /\ loading \in stored
        /\ UNCHANGED <<profile, outbox, made, stored, uploading, editingMode,
                       original>>
        /\ screen' = [screen EXCEPT !.picture = made[loading]]
        /\ known' = IF editingMode THEN known
                    ELSE (known \ {"picture"}) \union
                            {part \in {"picture"} : loading = Held.avatarID}
    BY <1>6 DEF AvatarLoads
  <2>2. loading # Nothing
    BY <1>0, <2>1, ProfileAssumption DEF TypeOK
  <2>3. /\ screen'["picture"] = made[loading]
        /\ \A part \in Part : part # "picture" => screen'[part] = screen[part]
    BY <1>0, <2>1 DEF Screen, Part, TextField
  <2>4. ASSUME NEW part \in known'
        PROVE  Shows(part)' = Saved(Held, Avatars, part)
    <3>1. CASE editingMode
      BY <1>0, <2>1, <2>4, <3>1 DEF Shows
    <3>2. CASE ~ editingMode /\ part # "picture"
      BY <1>0, <2>1, <2>3, <2>4, <3>2 DEF Shows
    <3>3. CASE ~ editingMode /\ part = "picture"
      <4>1. loading = Held.avatarID
        BY <2>1, <2>4, <3>3
      <4> QED BY <2>1, <2>2, <2>3, <3>3, <4>1
              DEF Shows, Saved, PictureOf, Avatars
    <3> QED BY <3>1, <3>2, <3>3
  <2> QED BY <1>1, <1>3, <2>1, <2>4
<1>7. CASE StartEdit \/ Cancel
  <2>1. /\ UNCHANGED <<profile, outbox, made, stored, uploading, known>>
        /\ \A part \in Part : Shows(part)' = Shows(part)
    BY <1>7 DEF StartEdit, Cancel, Shows
  <2>2. \A part \in known' : Shows(part)' = Saved(Held, Avatars, part)
    BY <1>0, <2>1
  <2> QED BY <1>1, <1>3, <2>1, <2>2
<1>8. ASSUME NEW part, NEW value, Enter(part, value) PROVE KnownIsShown'
  <2>1. /\ UNCHANGED <<profile, outbox, made, stored, uploading, known>>
        /\ \A p \in Part : Shows(p)' = Shows(p)
    BY <1>8 DEF Enter, Shows
  <2>2. \A p \in known' : Shows(p)' = Saved(Held, Avatars, p)
    BY <1>0, <2>1
  <2> QED BY <1>1, <1>3, <2>1, <2>2
<1>9. CASE SaveNothing
  <2>1. /\ UNCHANGED <<profile, outbox, made, stored, uploading, screen>>
        /\ editingMode /\ editingMode' = FALSE
        /\ known' = known \ Changed
    BY <1>9 DEF SaveNothing
  <2>2. \A part \in known' : part \in known /\ screen[part] = original[part]
    BY <1>0, <2>1 DEF Changed
  <2>3. \A part \in known' : Shows(part)' = Saved(Held, Avatars, part)
    BY <1>0, <2>1, <2>2 DEF Shows
  <2> QED BY <1>1, <1>3, <2>1, <2>3
<1>10. CASE SaveText
  <2> DEFINE c == [f \in Changed |-> screen[f]]
  <2>1. /\ c \in Changes /\ DOMAIN c = Changed /\ Changed \subseteq TextField
        /\ \/ Changed = {} /\ outbox' = outbox
           \/ outbox' = Append(outbox, [changes |-> c, status |-> "queued"])
    BY <1>0, <1>10, SentText
  <2>2. \A f \in Changed : c[f] = screen[f]
    OBVIOUS
  <2> HIDE DEF c
  <2>3. /\ editingMode /\ editingMode' = FALSE /\ "picture" \notin Changed
        /\ UNCHANGED <<profile, made, stored, uploading, screen>>
        /\ known' = known \union Changed
    BY <1>10 DEF SaveText
  <2>4. \A f \in Fields :
            Held'[f] = IF f \in Changed THEN screen[f] ELSE Held[f]
    <3>1. CASE Changed = {} /\ outbox' = outbox
      BY <1>3, <2>3, <3>1
    <3>2. CASE outbox' = Append(outbox, [changes |-> c, status |-> "queued"])
      BY <2>1, <2>2, <2>3, <3>2, HeldSent
    <3> QED BY <2>1, <3>1, <3>2
  <2>5. ASSUME NEW part \in known'
        PROVE  Shows(part)' = Saved(Held, Avatars, part)'
    <3>1. /\ part \in Part /\ Shows(part)' = screen[part]
          /\ part \notin Changed => original[part] = Saved(Held, Avatars, part)
      BY <1>0, <2>3, <2>5 DEF Shows
    <3>2. CASE part \in Changed
      <4>1. part \in TextField /\ Held'[part] = screen[part]
        BY <2>1, <2>4, <3>2 DEF TextField, Fields
      <4> QED BY <3>1, <4>1 DEF Saved, TextField
    <3>3. CASE part \notin Changed
      <4>1. screen[part] = original[part]
        BY <3>1, <3>3 DEF Changed
      <4>2. CASE part = "picture"
        <5>1. "avatarID" \notin Changed
          BY <2>1 DEF TextField
        <5>2. Held'.avatarID = Held.avatarID
          BY <2>4, <5>1 DEF Fields
        <5> QED BY <1>3, <2>3, <3>1, <3>3, <4>1, <4>2, <5>2
                DEF Saved, PictureOf
      <4>3. CASE part \in TextField
        <5>1. Held'[part] = Held[part]
          BY <2>4, <3>3, <4>3 DEF Fields, TextField
        <5> QED BY <3>1, <3>3, <4>1, <4>3, <5>1 DEF Saved, TextField
      <4> QED BY <3>1, <4>2, <4>3 DEF Part
    <3> QED BY <3>2, <3>3
  <2> QED BY <2>5 DEF KnownIsShown, Shows
<1>11. ASSUME NEW a \in AvatarID, SavePicture(a) PROVE KnownIsShown'
  <2> DEFINE c == [f \in (Changed \ {"picture"}) \union {"avatarID"} |->
                    IF f = "avatarID" THEN a ELSE screen[f]]
  <2>1. /\ c \in Changes /\ c["avatarID"] = a
        /\ DOMAIN c = (Changed \ {"picture"}) \union {"avatarID"}
        /\ \A f \in Changed \ {"picture"} : c[f] = screen[f]
        /\ outbox' = Append(outbox, [changes |-> c, status |-> "queued"])
    BY <1>0, <1>11, SentPicture
  <2> HIDE DEF c
  <2>2. /\ editingMode /\ editingMode' = FALSE /\ a # Nothing
        /\ made' = [made EXCEPT ![a] = screen.picture]
        /\ uploading' = uploading \union {a}
        /\ UNCHANGED <<profile, screen>> /\ known' = known \union Changed
    BY <1>11, ProfileAssumption DEF SavePicture, SendPicture
  <2>3. \A f \in Fields : Held'[f] = IF f \in DOMAIN c THEN c[f] ELSE Held[f]
    BY <2>1, <2>2, HeldSent
  <2>4. /\ Held'.avatarID = a /\ made'[a] = screen.picture
        /\ a \in Avatars'
    BY <1>0, <2>1, <2>2, <2>3 DEF Fields, TypeOK, Avatars
  <2>5. ASSUME NEW part \in known'
        PROVE  Shows(part)' = Saved(Held, Avatars, part)'
    <3>1. /\ part \in Part /\ Shows(part)' = screen[part]
          /\ part \notin Changed => original[part] = Saved(Held, Avatars, part)
      BY <1>0, <2>2, <2>5 DEF Shows
    <3>2. CASE part = "picture"
      BY <2>2, <2>4, <3>1, <3>2 DEF Saved, PictureOf
    <3>3. CASE part \in TextField /\ part \in Changed
      <4>1. Held'[part] = screen[part]
        BY <2>1, <2>3, <3>3 DEF TextField, Fields
      <4> QED BY <3>1, <3>3, <4>1 DEF Saved, TextField
    <3>4. CASE part \in TextField /\ part \notin Changed
      <4>1. screen[part] = original[part]
        BY <3>1, <3>4 DEF Changed
      <4>2. Held'[part] = Held[part]
        BY <2>1, <2>3, <3>4 DEF TextField, Fields
      <4> QED BY <3>1, <3>4, <4>1, <4>2 DEF Saved, TextField
    <3> QED BY <3>1, <3>2, <3>3, <3>4 DEF Part
  <2> QED BY <2>5 DEF KnownIsShown, Shows
<1>12. ASSUME NEW a, StoreAvatar(a) PROVE KnownIsShown'
  <2>1. /\ UNCHANGED <<profile, outbox, made, screenVars, known>>
        /\ Avatars' = Avatars
    BY <1>12 DEF StoreAvatar, Avatars
  <2> QED BY <1>2, <1>3, <2>1
<1>13. ASSUME NEW a, FailAvatar(a) PROVE KnownIsShown'
  <2>1. /\ UNCHANGED <<profile, outbox, made, stored, screenVars>>
        /\ uploading' = uploading \ {a}
        /\ known' = known \ {part \in {"picture"} : Held.avatarID = a}
    BY <1>13 DEF FailAvatar
  <2>2. "picture" \in known' =>
            (Held.avatarID \in Avatars <=> Held.avatarID \in Avatars')
    BY <2>1 DEF Avatars
  <2> QED BY <1>2, <1>3, <2>1, <2>2
<1>14. ASSUME NEW k \in DOMAIN outbox, CommitUpdate(k) \/ RefuseUpdate(k)
       PROVE  KnownIsShown'
  <2>1. Held' = Held
    BY <1>14, HeldKept
  <2> QED BY <1>2, <1>3, <1>14, <2>1 DEF CommitUpdate, RefuseUpdate, Rule
<1>15. CASE LoseResult
  <2>1. Held' = Held
    BY <1>15, HeldKept
  <2> QED BY <1>2, <1>3, <1>15, <2>1 DEF LoseResult
<1>16. CASE Settle
  <2>1. /\ UNCHANGED <<made, stored, uploading, screenVars>>
        /\ known' = known \ IF Head(outbox).status = "rejected"
                            THEN PartsOf(Head(outbox).changes) ELSE {}
    BY <1>16 DEF Settle
  <2>2. ASSUME NEW part \in known'
        PROVE  Shows(part)' = Saved(Held, Avatars, part)'
    <3>1. /\ part \in known /\ part \in Part
          /\ Head(outbox).status = "rejected" =>
                FieldOf(part) \notin DOMAIN Head(outbox).changes
      BY <1>0, <2>1, <2>2 DEF PartsOf
    <3>2. FieldOf(part) \in Fields
      BY <3>1 DEF FieldOf, Fields, Part, TextField
    <3>3. Held'[FieldOf(part)] = Held[FieldOf(part)]
      BY <1>16, <3>1, <3>2, HeldSettled
    <3>4. Avatars' = Avatars
      BY <1>3, <2>1
    <3>5. part = "picture" =>
              (Held.avatarID \in Avatars <=> Held.avatarID \in Avatars')
      BY <3>4
    <3>6. Saved(Held, Avatars, part)' = Saved(Held, Avatars, part)
      BY <2>1, <3>1, <3>3, <3>5, SavedKept
    <3> QED BY <1>0, <2>1, <3>1, <3>6 DEF Shows
  <2> QED BY <2>2 DEF KnownIsShown, Shows
<1>17. CASE Reopen
  BY <1>17 DEF Reopen, KnownIsShown
<1> QED BY <1>4, <1>5, <1>6, <1>7, <1>8, <1>9, <1>10, <1>11, <1>12, <1>13,
           <1>14, <1>15, <1>16, <1>17 DEF Next, Loading, Editing

\* Between edits the screen still says whatever it has shown of the profile or
\* saved to it, the picture being one that the avatarID names in Storage or on
\* its way there: for every choice of names and pictures, a queue of any length,
\* and uploads that may fail.
THEOREM ProfileIsShownAlways == Spec => []ProfileIsShown
<1>1. Init => ProfileInv
  <2> SUFFICES ASSUME Init PROVE ProfileInv
    OBVIOUS
  <2>1. TypesInv
    BY InitTypes
  <2>2. outbox = <<>> /\ known = {}
    BY DEF Init
  <2> QED BY <2>1, <2>2 DEF ProfileInv, TypesInv, CommitsShow, KnownIsShown
<1>2. ProfileInv /\ [Next]_vars => ProfileInv'
  <2> SUFFICES ASSUME ProfileInv, [Next]_vars PROVE ProfileInv'
    OBVIOUS
  <2>1. TypesInv /\ CommitsShow /\ KnownIsShown
    BY DEF ProfileInv, TypesInv
  <2>2. TypesInv'
    BY <2>1, TypesStep
  <2>3. CommitsShow' /\ KnownIsShown'
    BY <2>1, <2>2, CommitsStep, KnownStep
  <2> QED BY <2>2, <2>3 DEF ProfileInv, TypesInv
<1>3. ProfileInv => ProfileIsShown
  BY DEF ProfileInv, ProfileIsShown, KnownIsShown
<1> QED BY <1>1, <1>2, <1>3, PTL DEF Spec
------------------------------------------------------------------------------
(* Signing up, in and out.                                                 *)

\* What is left when a request has been answered was there before.
LEMMA RemovedKeepsRest ==
    ASSUME NEW q \in Seq(Request), NEW r \in DOMAIN q
    PROVE  /\ RemoveAt(q, r) \in Seq(Request)
           /\ \A k \in DOMAIN q \ {r} :
                 \E j \in DOMAIN RemoveAt(q, r) : RemoveAt(q, r)[j] = q[k]
<1>1. /\ RemoveAt(q, r) \in Seq(Request)
      /\ Len(RemoveAt(q, r)) = Len(q) - 1
      /\ \A k \in 1 .. Len(q) - 1 :
            RemoveAt(q, r)[k] = IF k < r THEN q[k] ELSE q[k + 1]
  BY RemoveAtProperties
<1>2. DOMAIN RemoveAt(q, r) = 1 .. Len(q) - 1
  BY <1>1
<1>3. ASSUME NEW k \in DOMAIN q \ {r}
      PROVE  \E j \in DOMAIN RemoveAt(q, r) : RemoveAt(q, r)[j] = q[k]
  <2>1. k \in 1 .. Len(q) /\ r \in 1 .. Len(q) /\ Len(q) \in Nat /\ k # r
    OBVIOUS
  <2>2. CASE k < r
    <3>1. k \in 1 .. Len(q) - 1
      BY <2>1, <2>2
    <3> QED BY <1>1, <1>2, <2>2, <3>1
  <2>3. CASE k > r
    <3>1. k - 1 \in 1 .. Len(q) - 1 /\ ~ (k - 1 < r) /\ (k - 1) + 1 = k
      BY <2>1, <2>3
    <3>2. RemoveAt(q, r)[k - 1] = q[k]
      BY <1>1, <3>1
    <3> QED BY <1>2, <3>1, <3>2
  <2> QED BY <2>1, <2>2, <2>3
<1> QED BY <1>1, <1>3

\* The requests of a screen that is gone are the same requests.
LEMMA OrphanedProperties ==
    ASSUME SessionTypeOK
    PROVE  /\ Orphaned \in Seq(Request)
           /\ DOMAIN Orphaned = DOMAIN requests
           /\ \A r \in DOMAIN requests :
                 /\ Orphaned[r].kind = requests[r].kind
                 /\ Orphaned[r].user = requests[r].user
                 /\ Orphaned[r].status = requests[r].status
<1>1. requests \in Seq(Request) /\ \A r \in DOMAIN requests :
                                      requests[r] \in Request
  BY DEF SessionTypeOK
<1>2. \A r \in DOMAIN requests :
        /\ [requests[r] EXCEPT !.live = FALSE] \in Request
        /\ [requests[r] EXCEPT !.live = FALSE].kind = requests[r].kind
        /\ [requests[r] EXCEPT !.live = FALSE].user = requests[r].user
        /\ [requests[r] EXCEPT !.live = FALSE].status = requests[r].status
  BY <1>1 DEF Request
<1>3. DOMAIN Orphaned = DOMAIN requests
  BY DEF Orphaned
<1>4. \A r \in DOMAIN requests :
        Orphaned[r] = [requests[r] EXCEPT !.live = FALSE]
  BY DEF Orphaned
<1>5. Orphaned \in [1 .. Len(requests) -> Request]
  <2>1. DOMAIN requests = 1 .. Len(requests)
    BY <1>1
  <2> QED BY <1>2, <2>1, Zenon DEF Orphaned
<1>6. Orphaned \in Seq(Request)
  <2>1. Len(requests) \in Nat
    BY <1>1
  <2> QED BY <1>5, <2>1
<1> QED BY <1>2, <1>3, <1>4, <1>6

\* A request that becomes another leaves the rest as they are.
LEMMA StatusChange ==
    ASSUME SessionTypeOK, NEW r \in DOMAIN requests,
           NEW st \in {"success", "failure"},
           requests' = [requests EXCEPT ![r].status = st]
    PROVE  /\ requests' \in Seq(Request)
           /\ DOMAIN requests' = DOMAIN requests
           /\ requests'[r].kind = requests[r].kind
           /\ requests'[r].user = requests[r].user
           /\ requests'[r].status = st
           /\ \A k \in DOMAIN requests : k # r => requests'[k] = requests[k]
<1>1. requests \in Seq(Request) /\ requests[r] \in Request
  BY DEF SessionTypeOK
<1> DEFINE q == [requests[r] EXCEPT !.status = st]
<1>2. /\ q \in Request /\ q.kind = requests[r].kind
      /\ q.user = requests[r].user /\ q.status = st
  BY <1>1 DEF Request
<1>3. requests' = [requests EXCEPT ![r] = q]
  OBVIOUS
<1> HIDE DEF q
<1>4. /\ requests' \in Seq(Request) /\ DOMAIN requests' = DOMAIN requests
      /\ requests'[r] = q
      /\ \A k \in DOMAIN requests : k # r => requests'[k] = requests[k]
  BY <1>1, <1>2, <1>3
<1> QED BY <1>2, <1>4

\* Two requests for the same thing, for the same user, with the same fate.
Alike(a, b) == a.kind = b.kind /\ a.user = b.user /\ a.status = b.status

\* What an answered request leaves behind.
LEMMA AnswerLeaves ==
    ASSUME SessionTypeOK, NEW r \in DOMAIN requests, NEW user,
           GoToHome(r, user),
           user \in User \union {Nobody}
    PROVE  /\ requests' \in Seq(Request)
           /\ \A k \in DOMAIN requests \ {r} :
                 \E j \in DOMAIN requests' : Alike(requests'[j], requests[k])
           /\ onScreen' \in {onScreen, "home"}
           /\ homeOf' \in User \union {Nobody}
<1>1. requests \in Seq(Request) /\ homeOf \in User \union {Nobody}
  BY DEF SessionTypeOK
<1>2. onScreen' \in {onScreen, "home"} /\ homeOf' \in User \union {Nobody}
  BY <1>1 DEF GoToHome
<1>3. CASE requests[r].live
  <2>1. requests' = RemoveAt(Orphaned, r)
    BY <1>3 DEF GoToHome
  <2>2. Orphaned \in Seq(Request) /\ r \in DOMAIN Orphaned
    BY OrphanedProperties
  <2>3. /\ requests' \in Seq(Request)
        /\ \A k \in DOMAIN Orphaned \ {r} :
              \E j \in DOMAIN requests' : requests'[j] = Orphaned[k]
    BY <2>1, <2>2, RemovedKeepsRest
  <2>4. ASSUME NEW k \in DOMAIN requests \ {r}
        PROVE  \E j \in DOMAIN requests' : Alike(requests'[j], requests[k])
    <3>1. PICK j \in DOMAIN requests' : requests'[j] = Orphaned[k]
      BY <2>3, OrphanedProperties
    <3>2. Alike(requests'[j], requests[k])
      BY <3>1, OrphanedProperties DEF Alike
    <3> QED BY <3>2
  <2> QED BY <1>2, <2>3, <2>4
<1>4. CASE ~ requests[r].live
  <2>1. requests' = RemoveAt(requests, r)
    BY <1>4 DEF GoToHome
  <2>2. /\ requests' \in Seq(Request)
        /\ \A k \in DOMAIN requests \ {r} :
              \E j \in DOMAIN requests' : requests'[j] = requests[k]
    BY <1>1, <2>1, RemovedKeepsRest
  <2> QED BY <1>2, <2>2 DEF Alike
<1> QED BY <1>3, <1>4
------------------------------------------------------------------------------
LEMMA InitType == SessionInit => SessionTypeOK
<1>1. <<>> \in Seq(Request)
  OBVIOUS
<1> QED BY <1>1 DEF SessionInit, SessionTypeOK, Screens

LEMMA RequestTypes ==
    ASSUME SessionTypeOK, NEW r \in DOMAIN requests
    PROVE  requests[r].user \in User /\ requests[r].live \in BOOLEAN
<1>1. requests \in Seq(Request)
  BY DEF SessionTypeOK
<1>2. requests[r] \in Request
  BY <1>1
<1> QED BY <1>2 DEF Request

LEMMA SuccessfulAreUsers ==
    ASSUME SessionTypeOK, NEW kinds
    PROVE  WithSuccess(kinds) \subseteq User
  BY RequestTypes DEF WithSuccess

LEMMA NextType == SessionTypeOK /\ [SessionNext]_sessionVars => SessionTypeOK'
<1> SUFFICES ASSUME SessionTypeOK, [SessionNext]_sessionVars
             PROVE  SessionTypeOK'
  OBVIOUS
<1> USE DEF server, history
<1>1. ASSUME NEW from, NEW to \in Screens, Go(from, to)
      PROVE  SessionTypeOK'
  <2>1. requests' \in Seq(Request)
    BY <1>1, OrphanedProperties DEF Go
  <2> QED BY <1>1, <2>1 DEF Go, SessionTypeOK
<1>2. ASSUME NEW kind \in {"signUp", "logIn"}, NEW u \in User,
             Press(kind, u)
      PROVE  SessionTypeOK'
  <2>1. [kind |-> kind, user |-> u, status |-> "sent", live |-> TRUE]
            \in Request
    BY DEF Request
  <2>2. requests' \in Seq(Request)
    BY <1>2, <2>1 DEF Press, SessionTypeOK
  <2> QED BY <1>2, <2>2 DEF Press, SessionTypeOK
<1>3. ASSUME NEW r \in DOMAIN requests, NEW st \in {"success", "failure"},
             Authenticate(r, st)
      PROVE  SessionTypeOK'
  <2>1. requests' \in Seq(Request)
    BY <1>3, StatusChange DEF Authenticate
  <2>2. accounts' \subseteq User
    <3>1. requests[r].user \in User
      BY RequestTypes
    <3> QED BY <1>3, <3>1 DEF Authenticate, SessionTypeOK
  <2> QED BY <1>3, <2>1, <2>2 DEF Authenticate, SessionTypeOK
<1>4. ASSUME NEW r \in DOMAIN requests, LoseRequest(r) PROVE SessionTypeOK'
  <2>1. requests' \in Seq(Request)
    BY <1>4, StatusChange DEF LoseRequest
  <2>2. severed' \subseteq User
    <3>1. requests[r].user \in User
      BY RequestTypes
    <3> QED BY <1>4, <3>1 DEF LoseRequest, SessionTypeOK
  <2> QED BY <1>4, <2>1, <2>2 DEF LoseRequest, SessionTypeOK
<1>5. ASSUME NEW r \in DOMAIN requests, AnswerSuccess(r)
      PROVE  SessionTypeOK'
  <2>1. requests[r].user \in User /\ requests[r].live \in BOOLEAN
    BY RequestTypes
  <2>2. currentUser' \in User /\ GoToHome(r, currentUser')
    BY <1>5, <2>1 DEF AnswerSuccess
  <2>3. /\ requests' \in Seq(Request) /\ onScreen' \in {onScreen, "home"}
        /\ homeOf' \in User \union {Nobody}
    BY <2>2, AnswerLeaves
  <2>4. waiting' \subseteq User
    BY <1>5, <2>1 DEF AnswerSuccess, SessionTypeOK
  <2>5. strayed' \in BOOLEAN
    BY <1>5, <2>1 DEF AnswerSuccess
  <2> QED BY <1>5, <2>2, <2>3, <2>4, <2>5
          DEF AnswerSuccess, SessionTypeOK, Screens
<1>6. ASSUME NEW r \in DOMAIN requests, AnswerFailedSignUp(r)
      PROVE  SessionTypeOK'
  <2>1. requests[r].live \in BOOLEAN
    BY RequestTypes
  <2>2. /\ requests' \in Seq(Request) /\ onScreen' \in {onScreen, "home"}
        /\ homeOf' \in User \union {Nobody}
    BY <1>6, AnswerLeaves DEF AnswerFailedSignUp, SessionTypeOK
  <2>3. strayed' \in BOOLEAN
    BY <1>6, <2>1 DEF AnswerFailedSignUp, SessionTypeOK
  <2> QED BY <1>6, <2>2, <2>3
          DEF AnswerFailedSignUp, SessionTypeOK, Screens
<1>7. ASSUME NEW r \in DOMAIN requests, AnswerFailedLogIn(r)
      PROVE  SessionTypeOK'
  <2>1. requests' \in Seq(Request)
    BY <1>7, RemovedKeepsRest
       DEF AnswerFailedLogIn, SessionTypeOK
  <2> QED BY <1>7, <2>1 DEF AnswerFailedLogIn, SessionTypeOK
<1>8. CASE WayIn
  <2>1. /\ "initial" \in Screens
        /\ \A k \in {"signUp", "logIn"} : k \in Screens
    BY DEF Screens
  <2> QED BY <1>1, <1>2, <1>3, <1>4, <1>5, <1>6, <1>7, <1>8, <2>1
          DEF WayIn
<1>9. CASE Home
  <2>1. CASE ShowPosts \/ FailAuthor \/ UseHome
    BY <2>1 DEF ShowPosts, FailAuthor, UseHome, SessionTypeOK
  <2>2. CASE ShowAuthor
    <3>1. trapped' \in BOOLEAN
      BY <2>2 DEF ShowAuthor
    <3> QED BY <2>2, <3>1 DEF ShowAuthor, SessionTypeOK
  <2>3. CASE LogOut
    <3>1. strayed' \in BOOLEAN
      BY <2>3 DEF LogOut, SessionTypeOK
    <3>2. onScreen' \in Screens
      BY <2>3 DEF LogOut, RootScreen, Screens
    <3> QED BY <2>3, <3>1, <3>2 DEF LogOut, SessionTypeOK
  <2> QED BY <1>9, <2>1, <2>2, <2>3 DEF Home
<1>10. ASSUME NEW u \in User, CommitDocument(u) \/ RefuseDocument(u)
       PROVE  SessionTypeOK'
  BY <1>10 DEF CommitDocument, RefuseDocument, SessionTypeOK
<1>11. ASSUME NEW user \in {currentUser}
                              \union WithSuccess({"signUp", "logIn"}),
              Relaunch(user)
       PROVE  SessionTypeOK'
  <2>1. user \in User \union {Nobody} /\ severed' \subseteq User
    BY <1>11, SuccessfulAreUsers
       DEF Relaunch, RelaunchAs, SessionTypeOK
  <2>2. onScreen' \in Screens /\ requests' \in Seq(Request)
    BY <1>11 DEF Relaunch, RelaunchAs, RootScreen,
                 Screens
  <2> QED BY <1>11, <2>1, <2>2
          DEF Relaunch, RelaunchAs, SessionTypeOK
<1>12. CASE UNCHANGED sessionVars
  BY <1>12 DEF sessionVars, phone, SessionTypeOK
<1> QED BY <1>8, <1>9, <1>10, <1>11, <1>12 DEF SessionNext

\* Every reachable state is well typed: in particular the screen is one that
\* the storyboard has.
THEOREM SessionTypeCorrect == SessionSpec => []SessionTypeOK
<1>1. SessionInit => SessionTypeOK
  BY InitType
<1>2. SessionTypeOK /\ [SessionNext]_sessionVars => SessionTypeOK'
  BY NextType
<1> QED BY <1>1, <1>2, PTL DEF SessionSpec
------------------------------------------------------------------------------
LEMMA HomeStep ==
    ASSUME HomeInv, [SessionNext]_sessionVars
    PROVE  HomeInv'
<1> DEFINE SignedIn == reading /\ ~ strayed => currentUser # Nobody
<1>1. /\ SessionTypeOK /\ SessionTypeOK' /\ HomeIsOfUser /\ SignedIn
      /\ OnlyStraysTrap
  BY NextType DEF HomeInv
<1> SUFFICES HomeIsOfUser' /\ SignedIn' /\ OnlyStraysTrap'
  BY <1>1 DEF HomeInv
<1> USE DEF HomeIsOfUser, OnlyStraysTrap, server,
            history
<1>2. ASSUME NEW from, NEW to \in {"initial", "signUp", "logIn"},
             Go(from, to)
      PROVE  HomeIsOfUser' /\ SignedIn' /\ OnlyStraysTrap'
  BY <1>1, <1>2 DEF Go
<1>3. ASSUME UNCHANGED <<currentUser, onScreen, homeOf, reading, trapped,
                         strayed>>
      PROVE  HomeIsOfUser' /\ SignedIn' /\ OnlyStraysTrap'
  BY <1>1, <1>3
<1>4. ASSUME NEW r \in DOMAIN requests, AnswerSuccess(r)
      PROVE  HomeIsOfUser' /\ SignedIn' /\ OnlyStraysTrap'
  <2>1. currentUser' = requests[r].user /\ currentUser' # Nobody
    BY <1>1, <1>4, RequestTypes, UserAssumption DEF AnswerSuccess
  <2>2. ~ trapped /\ trapped' = trapped /\ strayed' = ~ requests[r].live
    BY <1>4 DEF AnswerSuccess, Answers
  <2>3. requests[r].live => homeOf' = currentUser'
    BY <1>4 DEF AnswerSuccess, GoToHome
  <2> QED BY <2>1, <2>2, <2>3
<1>5. ASSUME NEW r \in DOMAIN requests, AnswerFailedSignUp(r)
      PROVE  HomeIsOfUser' /\ SignedIn' /\ OnlyStraysTrap'
  <2>1. /\ UNCHANGED <<currentUser, trapped, reading>> /\ ~ trapped
        /\ strayed' = (strayed \/ requests[r].live)
        /\ ~ requests[r].live => UNCHANGED <<onScreen, homeOf>>
    BY <1>5 DEF AnswerFailedSignUp, Answers, GoToHome
  <2> QED BY <1>1, <2>1
<1>6. CASE WayIn
  <2>1. ASSUME NEW r \in DOMAIN requests, NEW st, Authenticate(r, st)
        PROVE  UNCHANGED <<currentUser, onScreen, homeOf, reading, trapped,
                         strayed>>
    BY <2>1 DEF Authenticate
  <2>2. ASSUME NEW r \in DOMAIN requests,
               LoseRequest(r) \/ AnswerFailedLogIn(r)
        PROVE  UNCHANGED <<currentUser, onScreen, homeOf, reading, trapped,
                         strayed>>
    BY <2>2 DEF LoseRequest, AnswerFailedLogIn
  <2>3. ASSUME NEW kind, NEW u, Press(kind, u)
        PROVE  UNCHANGED <<currentUser, onScreen, homeOf, reading, trapped,
                         strayed>>
    BY <2>3 DEF Press
  <2> HIDE DEF HomeIsOfUser, OnlyStraysTrap, SignedIn
  <2> QED BY <1>2, <1>3, <1>4, <1>5, <1>6, <2>1, <2>2, <2>3 DEF WayIn
<1>7. CASE ShowPosts
  BY <1>1, <1>7 DEF ShowPosts
<1>8. CASE ShowAuthor
  BY <1>1, <1>8 DEF ShowAuthor
<1>9. CASE FailAuthor
  BY <1>1, <1>9 DEF FailAuthor
<1>10. CASE UseHome
  BY <1>1, <1>10 DEF UseHome
<1>11. CASE LogOut
  BY <1>1, <1>11 DEF LogOut, RootScreen
<1>12. ASSUME NEW u \in User, CommitDocument(u) \/ RefuseDocument(u)
       PROVE  UNCHANGED <<currentUser, onScreen, homeOf, reading, trapped,
                         strayed>>
  BY <1>12 DEF CommitDocument, RefuseDocument
<1>13. ASSUME NEW user, Relaunch(user)
       PROVE  HomeIsOfUser' /\ SignedIn' /\ OnlyStraysTrap'
  BY <1>13 DEF Relaunch, RelaunchAs, RootScreen
<1>14. CASE UNCHANGED sessionVars
  BY <1>3, <1>14 DEF sessionVars, phone
<1> HIDE DEF HomeIsOfUser, OnlyStraysTrap, SignedIn
<1> QED BY <1>3, <1>6, <1>7, <1>8, <1>9, <1>10, <1>11, <1>12, <1>13, <1>14
        DEF SessionNext, Home

LEMMA HomeInvariant ==
    SessionSpec => []HomeInv
<1>1. SessionInit => HomeInv
  <2> SUFFICES ASSUME SessionInit PROVE HomeInv
    OBVIOUS
  <2>1. SessionTypeOK
    BY InitType
  <2> QED BY <2>1 DEF SessionInit, HomeInv, HomeIsOfUser,
                      OnlyStraysTrap
<1>2. HomeInv /\ [SessionNext]_sessionVars => HomeInv'
  BY HomeStep
<1> QED BY <1>1, <1>2, PTL DEF SessionSpec

\* Home shows the user that is signed in, however sign-ups, log-ins and their
\* late answers overlap - but for the ways round that strayed records.
THEOREM HomeShowsItsUser == SessionSpec => []HomeIsOfUser
<1>1. HomeInv => HomeIsOfUser
  BY DEF HomeInv
<1> QED BY <1>1, HomeInvariant, PTL

\* The forced unwraps of currentUser stop the app only on those ways round.
THEOREM TrapsAreStrays == SessionSpec => []OnlyStraysTrap
<1>1. HomeInv => OnlyStraysTrap
  BY DEF HomeInv
<1> QED BY <1>1, HomeInvariant, PTL
------------------------------------------------------------------------------
LEMMA DocumentsStep ==
    ASSUME DocumentsInv, [SessionNext]_sessionVars
    PROVE  DocumentsInv'
<1>1. SessionTypeOK /\ SessionTypeOK' /\ AccountsHaveDocuments
  BY NextType DEF DocumentsInv
<1> SUFFICES AccountsHaveDocuments'
  BY <1>1 DEF DocumentsInv
<1> DEFINE Made == WithSuccess({"signUp"})
<1>2. ASSUME accounts' = accounts, documents \subseteq documents',
             waiting \subseteq waiting' \union documents' \union Refusable,
             severed \subseteq severed',
             Made \subseteq Made' \union severed' \union waiting'
      PROVE  AccountsHaveDocuments'
  BY <1>1, <1>2 DEF AccountsHaveDocuments
<1>3. ASSUME NEW r \in DOMAIN requests,
             \A k \in DOMAIN requests \ {r} :
                \E j \in DOMAIN requests' : Alike(requests'[j], requests[k])
      PROVE  \A u \in Made : \/ u \in Made'
                             \/ u = requests[r].user
                                /\ requests[r].kind = "signUp"
                                /\ requests[r].status = "success"
  <2> SUFFICES ASSUME NEW k \in DOMAIN requests, requests[k].kind = "signUp",
                      requests[k].status = "success", k # r
               PROVE  requests[k].user \in Made'
    BY DEF WithSuccess
  <2>1. PICK j \in DOMAIN requests' : Alike(requests'[j], requests[k])
    BY <1>3
  <2> QED BY <2>1 DEF WithSuccess, Alike
<1>4. ASSUME DOMAIN requests' = DOMAIN requests,
             \A k \in DOMAIN requests : Alike(requests'[k], requests[k])
      PROVE  Made' = Made
  BY <1>4 DEF WithSuccess, Alike
<1> USE DEF server, history
<1>5. ASSUME NEW from, NEW to, Go(from, to)
      PROVE  AccountsHaveDocuments'
  <2>1. Made' = Made
    BY <1>1, <1>4, <1>5, OrphanedProperties DEF Go, Alike
  <2> QED BY <1>2, <1>5, <2>1 DEF Go
<1>6. ASSUME NEW kind, NEW u, Press(kind, u)
      PROVE  AccountsHaveDocuments'
  <2>1. /\ DOMAIN requests \subseteq DOMAIN requests'
        /\ \A k \in DOMAIN requests : requests'[k] = requests[k]
    BY <1>1, <1>6 DEF Press, SessionTypeOK
  <2>2. Made \subseteq Made'
    BY <2>1 DEF WithSuccess
  <2> QED BY <1>2, <1>6, <2>2 DEF Press
<1>7. ASSUME NEW r \in DOMAIN requests, NEW st \in {"success", "failure"},
             Authenticate(r, st)
      PROVE  AccountsHaveDocuments'
  <2>1. /\ DOMAIN requests' = DOMAIN requests
        /\ requests'[r].kind = requests[r].kind
        /\ requests'[r].user = requests[r].user
        /\ requests'[r].status = st
        /\ \A k \in DOMAIN requests : k # r => requests'[k] = requests[k]
        /\ requests[r].status = "sent"
    BY <1>1, <1>7, StatusChange DEF Authenticate
  <2>2. Made \subseteq Made'
    BY <2>1 DEF WithSuccess
  <2>3. UNCHANGED <<documents, waiting, severed>>
    BY <1>7 DEF Authenticate
  <2>4. CASE accounts' = accounts
    BY <1>2, <2>2, <2>3, <2>4
  <2>5. CASE /\ requests[r].kind = "signUp" /\ st = "success"
             /\ accounts' = accounts \union {requests[r].user}
    <3>1. requests[r].user \in Made'
      BY <2>1, <2>5 DEF WithSuccess
    <3> QED BY <1>1, <2>2, <2>3, <2>5, <3>1 DEF AccountsHaveDocuments
  <2> QED BY <1>7, <2>4, <2>5 DEF Authenticate
<1>8. ASSUME NEW r \in DOMAIN requests, LoseRequest(r)
      PROVE  AccountsHaveDocuments'
  <2>1. /\ DOMAIN requests' = DOMAIN requests
        /\ \A k \in DOMAIN requests : k # r => requests'[k] = requests[k]
    BY <1>1, <1>8, StatusChange DEF LoseRequest
  <2>2. \A u \in Made : u \in Made' \/ u \in severed'
    <3>1. \A k \in DOMAIN requests \ {r} :
             \E j \in DOMAIN requests' : Alike(requests'[j], requests[k])
      BY <2>1 DEF Alike
    <3>2. requests[r].kind = "signUp" /\ requests[r].status = "success"
             => requests[r].user \in severed'
      BY <1>8 DEF LoseRequest
    <3> QED BY <1>3, <3>1, <3>2
  <2>3. severed \subseteq severed' /\ UNCHANGED <<accounts, documents, waiting>>
    BY <1>8 DEF LoseRequest
  <2> QED BY <1>2, <2>2, <2>3
<1>9. ASSUME NEW r \in DOMAIN requests, AnswerSuccess(r)
      PROVE  AccountsHaveDocuments'
  <2>1. requests[r].user \in User
    BY <1>1, RequestTypes
  <2>2. currentUser' \in User /\ GoToHome(r, currentUser')
    BY <1>9, <2>1 DEF AnswerSuccess
  <2>3. \A k \in DOMAIN requests \ {r} :
             \E j \in DOMAIN requests' : Alike(requests'[j], requests[k])
    BY <1>1, <2>2, AnswerLeaves
  <2>4. /\ UNCHANGED <<accounts, documents, severed>>
        /\ waiting \subseteq waiting'
        /\ requests[r].kind = "signUp" => requests[r].user \in waiting'
    BY <1>9 DEF AnswerSuccess
  <2> QED BY <1>2, <1>3, <2>3, <2>4
<1>10. ASSUME NEW r \in DOMAIN requests, AnswerFailedSignUp(r)
       PROVE  AccountsHaveDocuments'
  <2>1. \A k \in DOMAIN requests \ {r} :
             \E j \in DOMAIN requests' : Alike(requests'[j], requests[k])
    BY <1>1, <1>10, AnswerLeaves DEF AnswerFailedSignUp, SessionTypeOK
  <2>2. UNCHANGED <<accounts, documents, severed, waiting>>
        /\ requests[r].status = "failure"
    BY <1>10 DEF AnswerFailedSignUp, Answers
  <2> QED BY <1>2, <1>3, <2>1, <2>2
<1>11. ASSUME NEW r \in DOMAIN requests, AnswerFailedLogIn(r)
       PROVE  AccountsHaveDocuments'
  <2>1. \A k \in DOMAIN requests \ {r} :
             \E j \in DOMAIN requests' : Alike(requests'[j], requests[k])
    <3>1. requests \in Seq(Request) /\ requests' = RemoveAt(requests, r)
      BY <1>1, <1>11
         DEF AnswerFailedLogIn, SessionTypeOK
    <3>2. \A k \in DOMAIN requests \ {r} :
             \E j \in DOMAIN requests' : requests'[j] = requests[k]
      BY <3>1, RemovedKeepsRest
    <3> QED BY <3>2 DEF Alike
  <2>2. UNCHANGED <<accounts, documents, severed, waiting>>
        /\ requests[r].status = "failure"
    BY <1>11 DEF AnswerFailedLogIn, Answers
  <2> QED BY <1>2, <1>3, <2>1, <2>2
<1>12. ASSUME UNCHANGED <<accounts, severed, requests>>,
              documents \subseteq documents',
              waiting \subseteq waiting' \union documents' \union Refusable
       PROVE  AccountsHaveDocuments'
  <2>1. Made' = Made
    BY <1>12 DEF WithSuccess
  <2> QED BY <1>2, <1>12, <2>1
<1>13. CASE Home
  <2>1. UNCHANGED <<accounts, documents, waiting, severed, requests>>
    BY <1>13 DEF Home, ShowPosts, ShowAuthor,
                     FailAuthor, UseHome, LogOut
  <2> QED BY <1>12, <2>1
<1>14. ASSUME NEW u \in User, CommitDocument(u) \/ RefuseDocument(u)
       PROVE  AccountsHaveDocuments'
  <2>1. /\ UNCHANGED <<accounts, severed, requests>>
        /\ documents \subseteq documents'
        /\ waiting \subseteq waiting' \union documents' \union Refusable
    BY <1>14 DEF CommitDocument, RefuseDocument
  <2> QED BY <1>12, <2>1
<1>15. ASSUME NEW user, Relaunch(user)
       PROVE  AccountsHaveDocuments'
  <2>1. /\ UNCHANGED <<accounts, documents, waiting>>
        /\ severed' = severed \union Made
    BY <1>15 DEF Relaunch, RelaunchAs
  <2> QED BY <1>2, <2>1
<1>16. CASE UNCHANGED sessionVars
  <2>1. UNCHANGED <<accounts, documents, waiting, severed, requests>>
    BY <1>16 DEF sessionVars, phone
  <2> QED BY <1>12, <2>1
<1>17. CASE WayIn
  BY <1>5, <1>6, <1>7, <1>8, <1>9, <1>10, <1>11, <1>17 DEF WayIn
<1> QED BY <1>13, <1>14, <1>15, <1>16, <1>17 DEF SessionNext

\* No account is left without a document by users changing on a phone, or by
\* its restarts: only by a refusal, or by a sign-up whose answer was lost.
THEOREM DocumentsAreKept == SessionSpec => []AccountsHaveDocuments
<1>1. SessionInit => DocumentsInv
  <2> SUFFICES ASSUME SessionInit PROVE DocumentsInv
    OBVIOUS
  <2>1. SessionTypeOK
    BY InitType
  <2> QED BY <2>1
          DEF SessionInit, DocumentsInv, AccountsHaveDocuments
<1>2. DocumentsInv /\ [SessionNext]_sessionVars => DocumentsInv'
  BY DocumentsStep
<1>3. DocumentsInv => AccountsHaveDocuments
  BY DEF DocumentsInv
<1> QED BY <1>1, <1>2, <1>3, PTL DEF SessionSpec
================================================================================
