----------------------------- MODULE QueueLemmas ------------------------------
(***************************************************************************)
(* Lemmas about the lists and queues the components are built from: what   *)
(* removing one element does, what a bounded sequence is, and what ruling  *)
(* on a write, and sending the writes again, do to a queue of any kind of  *)
(* writes.                                                                 *)
(***************************************************************************)
EXTENDS WriteQueue, SequencesExt, SequenceTheorems, WellFoundedInduction, TLAPS

------------------------------------------------------------------------------
(* Sequences.                                                              *)

\* Removing one row leaves the rows before it, and moves those after it up.
LEMMA RemoveAtProperties ==
    ASSUME NEW S, NEW s \in Seq(S), NEW r \in DOMAIN s
    PROVE  /\ RemoveAt(s, r) \in Seq(S)
           /\ Len(RemoveAt(s, r)) = Len(s) - 1
           /\ \A k \in 1 .. Len(s) - 1 :
                 RemoveAt(s, r)[k] = IF k < r THEN s[k] ELSE s[k + 1]
<1>1. r \in 1 .. Len(s) /\ Len(s) \in Nat
  OBVIOUS
<1> DEFINE a == SubSeq(s, 1, r - 1)
           b == SubSeq(s, r + 1, Len(s))
<1>2. /\ a \in Seq(S)
      /\ Len(a) = r - 1
      /\ \A k \in 1 .. r - 1 : a[k] = s[k]
  BY <1>1
<1>3. /\ b \in Seq(S)
      /\ Len(b) = Len(s) - r
      /\ \A k \in 1 .. Len(s) - r : b[k] = s[r + k]
  BY <1>1
<1>4. RemoveAt(s, r) = a \o b
  BY DEF RemoveAt
<1> HIDE DEF a, b
<1>5. /\ a \o b \in Seq(S)
      /\ Len(a \o b) = Len(a) + Len(b)
      /\ \A k \in 1 .. Len(a) + Len(b) :
            (a \o b)[k] = IF k <= Len(a) THEN a[k] ELSE b[k - Len(a)]
  BY <1>2, <1>3, ConcatProperties
<1>6. Len(a) = r - 1 /\ Len(a) + Len(b) = Len(s) - 1
  BY <1>1, <1>2, <1>3
<1>7. ASSUME NEW k \in 1 .. Len(s) - 1
      PROVE  (a \o b)[k] = IF k < r THEN s[k] ELSE s[k + 1]
  <2>1. (a \o b)[k] = IF k <= r - 1 THEN a[k] ELSE b[k - (r - 1)]
    BY <1>5, <1>6
  <2>2. CASE k < r
    <3>1. k \in 1 .. r - 1
      BY <1>1, <2>2
    <3> QED BY <1>2, <2>1, <2>2, <3>1
  <2>3. CASE ~ (k < r)
    <3>1. k - (r - 1) \in 1 .. Len(s) - r /\ ~ (k <= r - 1)
      BY <1>1, <2>3
    <3>2. b[k - (r - 1)] = s[r + (k - (r - 1))]
      BY <1>3, <3>1
    <3>3. r + (k - (r - 1)) = k + 1
      BY <1>1
    <3> QED BY <2>1, <2>3, <3>1, <3>2, <3>3
  <2> QED BY <2>2, <2>3
<1> QED BY <1>4, <1>5, <1>6, <1>7

\* A bounded sequence is a sequence.
LEMMA BoundedSeqIsSeq ==
    ASSUME NEW S, NEW n \in Nat, NEW s \in BoundedSeq(S, n)
    PROVE  s \in Seq(S)
<1>1. PICK m \in 0 .. n : s \in [1 .. m -> S]
  BY DEF BoundedSeq, SeqOf
<1>2. m \in Nat
  OBVIOUS
<1> QED BY <1>1, <1>2

\* Among the places of a list that are chosen there is a last one.
LEMMA LastPlace ==
    ASSUME NEW n \in Nat, NEW S \in SUBSET (1 .. n), S # {}
    PROVE  Max(S) \in S /\ \A k \in S : k <= Max(S)
<1> DEFINE T == {t \in 0 .. n : n - t \in S}
<1>1. \A k \in S : n - k \in T
  <2> SUFFICES ASSUME NEW k \in S PROVE n - k \in T
    OBVIOUS
  <2>1. k \in 1 .. n
    OBVIOUS
  <2>2. n - k \in 0 .. n /\ n - (n - k) = k
    BY <2>1
  <2> QED BY <2>2
<1>2. T \subseteq Nat /\ T # {}
  <2>1. PICK k \in S : TRUE
    OBVIOUS
  <2>2. n - k \in T /\ T \subseteq 0 .. n
    BY <1>1, <2>1
  <2> QED BY <2>2
<1>3. PICK t \in T : \A u \in T : ~ (<<u, t>> \in OpToRel(<, Nat))
  BY <1>2, NatLessThanWellFounded, WFMin, Zenon
<1>4. t \in Nat /\ n - t \in S
  BY <1>2
<1>5. \A u \in T : <<u, t>> \in OpToRel(<, Nat) <=> u < t
  BY <1>2, <1>4 DEF OpToRel
<1> HIDE DEF T
<1>6. ASSUME NEW k \in S PROVE k <= n - t
  <2>1. k \in 1 .. n /\ n - k \in T
    BY <1>1
  <2>2. ~ (n - k < t)
    BY <1>3, <1>5, <2>1
  <2> QED BY <1>4, <2>1, <2>2
<1>7. \E k \in S : \A j \in S : k >= j
  <2>1. \A j \in S : n - t >= j
    <3> SUFFICES ASSUME NEW j \in S PROVE n - t >= j
      OBVIOUS
    <3>1. j <= n - t /\ j \in 1 .. n
      BY <1>6
    <3> QED BY <1>4, <3>1
  <2> QED BY <1>4, <2>1
<1>8. Max(S) \in S /\ \A j \in S : Max(S) >= j
  BY <1>7, Zenon DEF Max
<1>9. \A m \in S, k \in S : m >= k <=> k <= m
  <2> SUFFICES ASSUME NEW m \in S, NEW k \in S PROVE m >= k <=> k <= m
    OBVIOUS
  <2>1. m \in 1 .. n /\ k \in 1 .. n
    OBVIOUS
  <2> QED BY <2>1
<1> QED BY <1>8, <1>9, Zenon
------------------------------------------------------------------------------
(* Queues of writes.                                                       *)

\* Ruling on a write changes that write's status, and nothing else.
LEMMA RuledProperties ==
    ASSUME NEW W, NEW q \in Seq(W), NEW k \in DOMAIN q, NEW st,
           [q[k] EXCEPT !.status = st] \in W
    PROVE  /\ Ruled(q, k, st) \in Seq(W)
           /\ DOMAIN Ruled(q, k, st) = DOMAIN q
           /\ Ruled(q, k, st)[k] = [q[k] EXCEPT !.status = st]
           /\ \A j \in DOMAIN q : j # k => Ruled(q, k, st)[j] = q[j]
<1> DEFINE w == [q[k] EXCEPT !.status = st]
<1>1. Ruled(q, k, st) = [q EXCEPT ![k] = w]
  BY DEF Ruled
<1>2. w \in W
  OBVIOUS
<1> HIDE DEF w
<1>3. [q EXCEPT ![k] = w] \in Seq(W)
  BY <1>2
<1> QED BY <1>1, <1>3 DEF w

\* Sending the writes again makes all of them wait, in the same order.
LEMMA ResentProperties ==
    ASSUME NEW W, NEW q \in Seq(W),
           \A w \in W : [w EXCEPT !.status = "queued"] \in W
    PROVE  /\ Resent(q) \in Seq(W)
           /\ DOMAIN Resent(q) = DOMAIN q
           /\ \A k \in DOMAIN q :
                 Resent(q)[k] = [q[k] EXCEPT !.status = "queued"]
<1>1. Len(q) \in Nat /\ DOMAIN q = 1 .. Len(q)
  OBVIOUS
<1>2. \A k \in DOMAIN q : q[k] \in W
  OBVIOUS
<1>3. Resent(q) \in [1 .. Len(q) -> W]
  BY <1>1, <1>2, Zenon DEF Resent
<1>4. Resent(q) \in Seq(W)
  BY <1>1, <1>3
<1> QED BY <1>4, Zenon DEF Resent
==============================================================================
