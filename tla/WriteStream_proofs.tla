-------------------------- MODULE WriteStream_proofs --------------------------
(***************************************************************************)
(* Theorems about the Firestore client: the write pipeline and its stream  *)
(* keep the client's own assertions and implement PendingWrites, which     *)
(* loses no write and reports truthfully.                                  *)
(***************************************************************************)
EXTENDS WriteStream, QueueLemmas, FiniteSetTheorems

LEMMA MinOfTwo ==
    ASSUME NEW a \in Int, NEW b \in Int
    PROVE  Min({a, b}) = IF a <= b THEN a ELSE b
BY DEF Min

LEMMA MaxPendingIsNat == MaxPending \in Nat /\ MaxPending >= 1 /\ MaxPending <= 10
BY WritesAssumption

LEMMA WriteIdIsNat == WriteId \subseteq Nat
BY WritesAssumption DEF WriteId

Increasing(s) == \A j, k \in DOMAIN s : j < k => s[j] < s[k]

\* The part of the queue the pipeline holds.
Pipeline(queue) == SubSeq(queue, 1, Min({Len(queue), MaxPending}))

LEMMA PipelineProperties ==
    ASSUME NEW q \in Seq(WriteId)
    PROVE  /\ Pipeline(q) \in Seq(WriteId)
           /\ Len(Pipeline(q)) = IF Len(q) <= MaxPending THEN Len(q) ELSE MaxPending
           /\ \A k \in 1 .. Len(Pipeline(q)) : Pipeline(q)[k] = q[k]
           /\ Pipeline(q) = <<>> <=> q = <<>>
<1> DEFINE m == IF Len(q) <= MaxPending THEN Len(q) ELSE MaxPending
<1>1. Len(q) \in Nat /\ m \in Nat /\ m <= Len(q) /\ (m = 0 <=> Len(q) = 0)
  BY MaxPendingIsNat
<1>2. Pipeline(q) = SubSeq(q, 1, m)
  BY <1>1, MinOfTwo, MaxPendingIsNat DEF Pipeline
<1> HIDE DEF m
<1>3. /\ SubSeq(q, 1, m) \in Seq(WriteId)
      /\ Len(SubSeq(q, 1, m)) = m
      /\ \A k \in 1 .. m : SubSeq(q, 1, m)[k] = q[k]
  BY <1>1
<1>4. SubSeq(q, 1, m) = <<>> <=> q = <<>>
  BY <1>1, <1>3
<1> QED BY <1>2, <1>3, <1>4 DEF m

\* Filling a pipeline that holds the first batches of the queue makes it hold
\* all that there is room for.
LEMMA ToAddProperties ==
    ASSUME NEW q \in Seq(WriteId), Increasing(q), NEW p \in Seq(WriteId),
           Len(p) <= Len(Pipeline(q)), \A k \in 1 .. Len(p) : p[k] = q[k]
    PROVE  /\ ToAdd(q, p) \in Seq(WriteId)
           /\ Len(ToAdd(q, p)) = Len(Pipeline(q)) - Len(p)
           /\ \A k \in 1 .. Len(ToAdd(q, p)) : ToAdd(q, p)[k] = q[Len(p) + k]
           /\ p \o ToAdd(q, p) = Pipeline(q)
<1> DEFINE later == {i \in 1 .. Len(q) : p = <<>> \/ q[i] > Last(p)}
           next == IF later # {} THEN Min(later) ELSE 0
           end == next + MaxPending - Len(p) - 1
<1>1. ToAdd(q, p) = IF next = 0 THEN <<>>
                    ELSE SubSeq(q, next, Min({Len(q), end}))
  BY DEF ToAdd, SelectInSeq
<1> DEFINE n == Len(Pipeline(q))
<1>0. /\ Pipeline(q) \in Seq(WriteId)
      /\ n = IF Len(q) <= MaxPending THEN Len(q) ELSE MaxPending
      /\ \A k \in 1 .. n : Pipeline(q)[k] = q[k]
  BY PipelineProperties
<1>2. /\ Len(p) \in Nat /\ Len(q) \in Nat /\ Len(p) <= n
      /\ n \in Nat /\ n <= Len(q) /\ n <= MaxPending
      /\ p = <<>> <=> Len(p) = 0
      /\ MaxPending \in Nat
  BY <1>0, MaxPendingIsNat
<1> HIDE DEF n
<1>3. later = Len(p) + 1 .. Len(q)
  <2>1. CASE p = <<>>
    BY <1>2, <2>1
  <2>2. CASE p # <<>>
    <3>1. Last(p) = q[Len(p)] /\ Len(p) \in 1 .. Len(q)
      BY <1>2, <2>2 DEF Last
    <3>2. \A i \in 1 .. Len(q) : q[i] \in Nat
      <4>1. \A i \in 1 .. Len(q) : q[i] \in WriteId
        OBVIOUS
      <4> QED BY <4>1, WriteIdIsNat
    <3>3. \A i \in 1 .. Len(q) : q[i] > q[Len(p)] <=> i > Len(p)
      <4> SUFFICES ASSUME NEW i \in 1 .. Len(q)
                   PROVE  q[i] > q[Len(p)] <=> i > Len(p)
        OBVIOUS
      <4>1. i < Len(p) => q[i] < q[Len(p)]
        BY <3>1 DEF Increasing
      <4>2. Len(p) < i => q[Len(p)] < q[i]
        BY <3>1 DEF Increasing
      <4> QED BY <1>2, <3>1, <3>2, <4>1, <4>2
    <3> QED BY <1>2, <2>2, <3>1, <3>3
  <2> QED BY <2>1, <2>2
<1> HIDE DEF later
<1>4. CASE Len(p) = Len(q)
  <2>1. later = {}
    BY <1>2, <1>3, <1>4
  <2>2. ToAdd(q, p) = <<>> /\ Len(Pipeline(q)) = Len(p)
    BY <1>0, <1>1, <1>2, <1>4, <2>1, MaxPendingIsNat DEF n
  <2>3. p \o <<>> = p
    OBVIOUS
  <2>4. p = Pipeline(q)
    BY <1>0, <1>2, <2>2, SeqEqual DEF n
  <2> QED BY <1>2, <2>2, <2>3, <2>4
<1>5. CASE Len(p) # Len(q)
  <2>1. Len(p) + 1 \in later /\ \A y \in later : Len(p) + 1 <= y /\ y \in Int
    BY <1>2, <1>3, <1>5
  <2>2. next = Len(p) + 1
    <3>1. later # {} /\ next = Min(later)
      BY <2>1
    <3>2. Min(later) \in later /\ \A y \in later : Min(later) <= y
      BY <2>1, Zenon DEF Min
    <3> QED BY <1>2, <2>1, <3>1, <3>2
  <2> HIDE DEF next
  <2>3. end = MaxPending
    BY <1>2, <2>2
  <2> HIDE DEF end
  <2> DEFINE a == SubSeq(q, Len(p) + 1, n)
  <2>4. n = Min({Len(q), MaxPending})
    BY <1>0, <1>2, MinOfTwo
  <2>5. ToAdd(q, p) = a
    <3>1. Len(p) + 1 # 0
      BY <1>2
    <3> QED BY <1>1, <2>2, <2>3, <2>4, <3>1, Zenon
  <2>6. /\ a \in Seq(WriteId)
        /\ Len(a) = n - Len(p)
        /\ \A k \in 1 .. n - Len(p) : a[k] = q[Len(p) + k]
    BY <1>2
  <2> HIDE DEF a
  <2>7. /\ p \o a \in Seq(WriteId)
        /\ Len(p \o a) = n
        /\ \A k \in 1 .. n : (p \o a)[k] = q[k]
    <3>1. /\ p \o a \in Seq(WriteId)
          /\ Len(p \o a) = Len(p) + Len(a)
          /\ \A k \in 1 .. Len(p) + Len(a) :
                (p \o a)[k] = IF k <= Len(p) THEN p[k] ELSE a[k - Len(p)]
      BY <2>6, ConcatProperties
    <3>2. Len(p) + Len(a) = n
      BY <1>2, <2>6
    <3>3. ASSUME NEW k \in 1 .. n, k > Len(p)
          PROVE  a[k - Len(p)] = q[k]
      <4>1. k - Len(p) \in 1 .. n - Len(p) /\ Len(p) + (k - Len(p)) = k
        BY <1>2, <3>3
      <4> QED BY <2>6, <4>1
    <3>4. \A k \in 1 .. n : (p \o a)[k] = IF k <= Len(p) THEN p[k] ELSE a[k - Len(p)]
      BY <3>1, <3>2
    <3>5. ASSUME NEW k \in 1 .. n, k <= Len(p)
          PROVE  p[k] = q[k]
      BY <1>2, <3>5
    <3> QED BY <1>2, <3>1, <3>2, <3>3, <3>4, <3>5
  <2>8. p \o a = Pipeline(q)
    BY <1>0, <2>7, SeqEqual DEF n
  <2> QED BY <2>5, <2>6, <2>8 DEF n
<1> QED BY <1>4, <1>5
------------------------------------------------------------------------------
(* The pipeline, the stream and the channels.                              *)

MadeUpTo(n) ==
    \A v : (\E u \in User : v \in ToSet(written[u])) <=> v \in 1 .. n

\* The writes are numbered as they are made, and wait in that order.
NumbersInv ==
    \E n \in 0 .. MaxWrites :
        /\ MadeUpTo(n)
        /\ \A u \in User :
              /\ Increasing(mutationQueue[u])
              /\ \A k \in DOMAIN mutationQueue[u] : mutationQueue[u][k] <= n

\* The pipeline holds the first of the writes waiting; the stream is started
\* when there are any.
PipelineInv ==
    /\ write_pipeline = Pipeline(mutationQueue[user])
    /\ ~ IsStarted(stream) => write_pipeline = <<>>
    /\ idle => stream = "Ready" /\ write_pipeline = <<>>

\* The server has answered, or is being asked for, the pipeline's writes, in
\* their order; only its last answer can be an error.
Answering(pipeline, responses, requests) ==
    /\ Len(responses) + Len(requests) = Len(pipeline)
    /\ \A k \in 1 .. Len(requests) :
          requests[k] = pipeline[Len(responses) + k]
    /\ \A k \in 1 .. Len(responses) :
          \/ responses[k] = "result" /\ pipeline[k] \notin Refused
          \/ /\ responses[k] = "error" /\ pipeline[k] \in Refused
             /\ k = Len(responses)

ReadyInv == Answering(write_pipeline, toClient, toServer)

ChannelInv ==
    /\ stream \notin {"Open", "Ready"} => toServer = <<>> /\ toClient = <<>>
    /\ stream = "Open" =>
          \/ toServer = <<Handshake>> /\ toClient = <<>>
          \/ toServer = <<>> /\ toClient = <<"handshake">>
    /\ stream = "Ready" => ReadyInv

StreamInv == TypeOK /\ NumbersInv /\ PipelineInv /\ ChannelInv

LEMMA InitStream == Init => StreamInv
<1> SUFFICES ASSUME Init PROVE StreamInv
  OBVIOUS
<1>1. TypeOK
  <2>1. /\ <<>> \in Seq(WriteId) /\ <<>> \in Seq(WriteId \union {Handshake})
        /\ <<>> \in Seq({"handshake", "result", "error"})
    OBVIOUS
  <2>2. 0 \in 0 .. MaxWrites
    BY WritesAssumption
  <2> QED BY <2>1, <2>2 DEF Init, TypeOK, Report
<1>2. NumbersInv
  <2>1. \A u \in User : ToSet(written[u]) = {}
    BY DEF Init, ToSet
  <2>2. MadeUpTo(0)
    BY <2>1 DEF MadeUpTo
  <2>3. 0 \in 0 .. MaxWrites
    BY WritesAssumption
  <2> QED BY <2>2, <2>3 DEF NumbersInv, Init, Increasing
<1>3. PipelineInv
  <2>1. Pipeline(<<>>) = <<>>
    <3>1. <<>> \in Seq(WriteId)
      OBVIOUS
    <3> QED BY <3>1, PipelineProperties
  <2> QED BY <2>1 DEF PipelineInv, Init
<1>4. ChannelInv
  BY DEF ChannelInv, Init
<1> QED BY <1>1, <1>2, <1>3, <1>4 DEF StreamInv

\* What filling the pipeline comes to, when it held the first writes waiting.
LEMMA Filled ==
    ASSUME NEW q \in Seq(WriteId), Increasing(q), NEW p \in Seq(WriteId),
           Len(p) <= Len(Pipeline(q)), \A k \in 1 .. Len(p) : p[k] = q[k],
           NEW state, NEW requests, FillWritePipeline(q, p, state, requests)
    PROVE  /\ write_pipeline' = Pipeline(q)
           /\ stream' = IF Pipeline(q) # <<>> /\ ~ IsStarted(state)
                        THEN Started(state) ELSE state
           /\ toServer' = IF state = "Ready" THEN requests \o ToAdd(q, p)
                          ELSE requests
           /\ idle' = (state = "Ready" /\ Pipeline(q) = <<>>)
<1>1. p \o ToAdd(q, p) = Pipeline(q)
  BY ToAddProperties
<1> QED BY <1>1, Zenon DEF FillWritePipeline

LEMMA FilledTypes ==
    ASSUME NEW q \in Seq(WriteId), Increasing(q), NEW p \in Seq(WriteId),
           Len(p) <= Len(Pipeline(q)), \A k \in 1 .. Len(p) : p[k] = q[k],
           NEW requests \in Seq(WriteId \union {Handshake}),
           NEW state \in {"Initial", "Starting", "Backoff", "Open", "Ready", "Error"},
           FillWritePipeline(q, p, state, requests)
    PROVE  /\ write_pipeline' \in Seq(WriteId)
           /\ stream' \in {"Initial", "Starting", "Backoff", "Open", "Ready", "Error"}
           /\ toServer' \in Seq(WriteId \union {Handshake})
           /\ idle' \in BOOLEAN
<1> DEFINE R == WriteId \union {Handshake}
<1>1. ToAdd(q, p) \in Seq(WriteId) /\ Pipeline(q) \in Seq(WriteId)
  BY ToAddProperties, PipelineProperties
<1>2. ToAdd(q, p) \in Seq(R)
  BY <1>1
<1>3. requests \o ToAdd(q, p) \in Seq(R)
  BY <1>2
<1> QED BY <1>1, <1>3, Filled DEF Started

\* The pipeline as the first of the signed-in user's queue.
LEMMA PipelineFacts ==
    ASSUME StreamInv
    PROVE  /\ user \in User
           /\ mutationQueue[user] \in Seq(WriteId)
           /\ Increasing(mutationQueue[user])
           /\ write_pipeline \in Seq(WriteId)
           /\ write_pipeline = Pipeline(mutationQueue[user])
           /\ Len(write_pipeline) \in Nat
           /\ Len(write_pipeline) <= Len(mutationQueue[user])
           /\ Len(write_pipeline) <= MaxPending
           /\ \A k \in 1 .. Len(write_pipeline) :
                 /\ k \in 1 .. Len(mutationQueue[user])
                 /\ write_pipeline[k] = mutationQueue[user][k]
           /\ write_pipeline = <<>> <=> mutationQueue[user] = <<>>
<1>1. user \in User /\ mutationQueue[user] \in Seq(WriteId)
  BY DEF StreamInv, TypeOK
<1>2. Increasing(mutationQueue[user])
  BY <1>1 DEF StreamInv, NumbersInv
<1>3. write_pipeline = Pipeline(mutationQueue[user])
  BY DEF StreamInv, PipelineInv
<1>4. Len(mutationQueue[user]) \in Nat
  BY <1>1
<1>5. /\ Pipeline(mutationQueue[user]) \in Seq(WriteId)
      /\ Len(Pipeline(mutationQueue[user])) =
            IF Len(mutationQueue[user]) <= MaxPending
            THEN Len(mutationQueue[user]) ELSE MaxPending
      /\ \A k \in 1 .. Len(Pipeline(mutationQueue[user])) :
            Pipeline(mutationQueue[user])[k] = mutationQueue[user][k]
      /\ Pipeline(mutationQueue[user]) = <<>> <=> mutationQueue[user] = <<>>
  BY <1>1, PipelineProperties
<1>6. /\ Len(write_pipeline) \in Nat
      /\ Len(write_pipeline) <= Len(mutationQueue[user])
      /\ Len(write_pipeline) <= MaxPending
  BY <1>3, <1>4, <1>5, MaxPendingIsNat
<1>7. \A k \in 1 .. Len(write_pipeline) :
         /\ k \in 1 .. Len(mutationQueue[user])
         /\ write_pipeline[k] = mutationQueue[user][k]
  BY <1>3, <1>4, <1>5, <1>6
<1> QED BY <1>1, <1>2, <1>3, <1>5, <1>6, <1>7

\* Adding writes to the pipeline and to the requests keeps the two in step.
LEMMA FilledAnswers ==
    ASSUME NEW q \in Seq(WriteId), Increasing(q), NEW p \in Seq(WriteId),
           Len(p) <= Len(Pipeline(q)), \A k \in 1 .. Len(p) : p[k] = q[k],
           NEW responses \in Seq({"handshake", "result", "error"}),
           NEW requests \in Seq(WriteId \union {Handshake}),
           Answering(p, responses, requests)
    PROVE  Answering(Pipeline(q), responses, requests \o ToAdd(q, p))
<1> DEFINE a == ToAdd(q, p)
           f == Pipeline(q)
<1>1. /\ a \in Seq(WriteId) /\ f \in Seq(WriteId)
      /\ Len(a) = Len(f) - Len(p) /\ p \o a = f
  BY ToAddProperties, PipelineProperties
<1> HIDE DEF a, f
<1>2. /\ \A k \in 1 .. Len(p) : f[k] = p[k]
      /\ \A k \in 1 .. Len(a) : f[Len(p) + k] = a[k]
      /\ Len(f) = Len(p) + Len(a)
  BY <1>1
<1>3. /\ Len(requests \o a) = Len(requests) + Len(a)
      /\ \A k \in 1 .. Len(requests) : (requests \o a)[k] = requests[k]
      /\ \A k \in 1 .. Len(a) : (requests \o a)[Len(requests) + k] = a[k]
  <2>1. a \in Seq(WriteId \union {Handshake})
    BY <1>1
  <2> QED BY <2>1
<1>4. /\ Len(responses) \in Nat /\ Len(requests) \in Nat /\ Len(a) \in Nat
      /\ Len(p) \in Nat
      /\ Len(responses) + Len(requests) = Len(p)
  BY <1>1 DEF Answering
<1>5. Len(responses) + Len(requests \o a) = Len(f)
  <2>1. Len(responses) + (Len(requests) + Len(a))
           = (Len(responses) + Len(requests)) + Len(a)
    BY <1>4
  <2> QED BY <1>2, <1>3, <1>4, <2>1
<1>6. ASSUME NEW k \in 1 .. Len(requests) + Len(a)
      PROVE  (requests \o a)[k] = f[Len(responses) + k]
  <2>1. CASE k <= Len(requests)
    <3>1. k \in 1 .. Len(requests) /\ Len(responses) + k \in 1 .. Len(p)
      BY <1>4, <2>1
    <3> QED BY <1>2, <1>3, <3>1 DEF Answering
  <2>2. CASE k > Len(requests)
    <3> DEFINE j == k - Len(requests)
    <3>1. j \in 1 .. Len(a) /\ Len(requests) + j = k
      BY <1>4, <2>2
    <3>2. Len(p) + j = Len(responses) + k
      <4>1. (Len(responses) + Len(requests)) + j = Len(responses) + (Len(requests) + j)
        BY <1>4, <3>1
      <4> QED BY <1>4, <3>1, <4>1
    <3> HIDE DEF j
    <3>3. (requests \o a)[k] = a[j] /\ f[Len(responses) + k] = a[j]
      BY <1>2, <1>3, <3>1, <3>2
    <3> QED BY <3>3
  <2> QED BY <1>4, <2>1, <2>2
<1>7. ASSUME NEW k \in 1 .. Len(responses)
      PROVE  f[k] = p[k]
  BY <1>2, <1>4, <1>7
<1>8. Answering(f, responses, requests \o a)
  BY <1>3, <1>5, <1>6, <1>7, Zenon DEF Answering
<1> QED BY <1>8 DEF a, f

\* A number is free for as long as it is above all those given.
LEMMA NextNumber ==
    ASSUME StreamInv, NEW w \in WriteId,
           w = 1 + Cardinality(UNION {ToSet(written[u]) : u \in User})
    PROVE  /\ w \in 1 .. MaxWrites /\ w - 1 \in 0 .. MaxWrites
           /\ w \in Nat /\ MaxWrites \in Nat
           /\ MadeUpTo(w - 1)
           /\ \A u \in User :
                 /\ Increasing(mutationQueue[u])
                 /\ \A k \in DOMAIN mutationQueue[u] : mutationQueue[u][k] <= w - 1
<1>1. PICK n \in 0 .. MaxWrites :
         /\ MadeUpTo(n)
         /\ \A u \in User :
               /\ Increasing(mutationQueue[u])
               /\ \A k \in DOMAIN mutationQueue[u] : mutationQueue[u][k] <= n
  BY DEF StreamInv, NumbersInv
<1>2. Cardinality(1 .. n) = n
  BY <1>1, FS_Interval
<1>3. w = 1 + n
  <2>1. UNION {ToSet(written[u]) : u \in User} = 1 .. n
    BY <1>1 DEF MadeUpTo
  <2> QED BY <1>2, <2>1
<1>4. w - 1 = n /\ n \in Nat /\ MaxWrites \in Nat
  BY <1>3, WritesAssumption
<1>5. w \in 1 .. MaxWrites
  BY DEF WriteId
<1>6. MadeUpTo(w - 1)
  BY <1>1, <1>4
<1>7. w \in Nat /\ w - 1 \in 0 .. MaxWrites
  BY <1>3, <1>4
<1> QED BY <1>1, <1>4, <1>5, <1>6, <1>7

LEMMA MakeStep ==
    ASSUME StreamInv, NEW w \in WriteId, WriteMutations(w)
    PROVE  StreamInv'
<1> DEFINE q == mutationQueue[user]
<1>1. /\ user' = user /\ told' = told /\ toClient' = toClient
      /\ document' = document
      /\ written' = [written EXCEPT ![user] = Append(@, w)]
      /\ mutationQueue' = [mutationQueue EXCEPT ![user] = Append(@, w)]
      /\ callbacks' = callbacks \union {w}
      /\ FillWritePipeline(mutationQueue'[user], write_pipeline, stream, toServer)
  BY DEF WriteMutations
<1>2. /\ w \in 1 .. MaxWrites /\ w - 1 \in 0 .. MaxWrites
      /\ w \in Nat /\ MaxWrites \in Nat
      /\ MadeUpTo(w - 1)
      /\ \A u \in User :
            /\ Increasing(mutationQueue[u])
            /\ \A k \in DOMAIN mutationQueue[u] : mutationQueue[u][k] <= w - 1
  BY NextNumber DEF WriteMutations
<1>3. /\ user \in User /\ q \in Seq(WriteId) /\ Len(q) \in Nat
      /\ mutationQueue'[user] = Append(q, w)
      /\ \A u \in User \ {user} : mutationQueue'[u] = mutationQueue[u]
      /\ written'[user] = Append(written[user], w)
      /\ \A u \in User \ {user} : written'[u] = written[u]
  BY <1>1 DEF StreamInv, TypeOK
<1>4. Append(q, w) \in Seq(WriteId) /\ Increasing(Append(q, w))
  <2>1. \A k \in 1 .. Len(q) : q[k] \in Nat /\ q[k] < w
    <3> SUFFICES ASSUME NEW k \in 1 .. Len(q) PROVE q[k] \in Nat /\ q[k] < w
      OBVIOUS
    <3>1. q[k] \in WriteId /\ q[k] <= w - 1
      BY <1>2, <1>3
    <3>2. q[k] \in Nat
      BY <3>1, WriteIdIsNat
    <3> HIDE DEF q
    <3> QED BY <1>2, <3>1, <3>2
  <2>2. Increasing(q)
    BY <1>2, <1>3
  <2> QED BY <1>3, <2>1, <2>2 DEF Increasing
<1>5. /\ Len(write_pipeline) <= Len(Pipeline(Append(q, w)))
      /\ \A k \in 1 .. Len(write_pipeline) : write_pipeline[k] = Append(q, w)[k]
  <2>1. Len(write_pipeline) = IF Len(q) <= MaxPending THEN Len(q) ELSE MaxPending
    BY <1>3, PipelineFacts, PipelineProperties
  <2>2. Len(Pipeline(Append(q, w))) =
           IF Len(q) + 1 <= MaxPending THEN Len(q) + 1 ELSE MaxPending
    <3>1. Len(Append(q, w)) = Len(q) + 1
      BY <1>3
    <3>2. Len(Pipeline(Append(q, w))) =
             IF Len(Append(q, w)) <= MaxPending THEN Len(Append(q, w))
             ELSE MaxPending
      BY <1>4, PipelineProperties, Zenon
    <3> QED BY <3>1, <3>2
  <2>3. \A k \in 1 .. Len(write_pipeline) :
           k \in 1 .. Len(q) /\ write_pipeline[k] = q[k]
    BY PipelineFacts
  <2> QED BY <1>3, <2>1, <2>2, <2>3, MaxPendingIsNat
<1>6. FillWritePipeline(Append(q, w), write_pipeline, stream, toServer)
  BY <1>1, <1>3
<1> HIDE DEF q
<1>7. /\ write_pipeline \in Seq(WriteId)
      /\ toServer \in Seq(WriteId \union {Handshake})
      /\ stream \in {"Initial", "Starting", "Backoff", "Open", "Ready", "Error"}
  BY DEF StreamInv, TypeOK
<1>8. /\ write_pipeline' = Pipeline(Append(q, w))
      /\ stream' = IF Pipeline(Append(q, w)) # <<>> /\ ~ IsStarted(stream)
                   THEN Started(stream) ELSE stream
      /\ toServer' = IF stream = "Ready"
                     THEN toServer \o ToAdd(Append(q, w), write_pipeline)
                     ELSE toServer
      /\ idle' = (stream = "Ready" /\ Pipeline(Append(q, w)) = <<>>)
  BY <1>4, <1>5, <1>6, <1>7, Filled
<1>9. TypeOK'
  <2>1. /\ write_pipeline' \in Seq(WriteId)
        /\ stream' \in {"Initial", "Starting", "Backoff", "Open", "Ready", "Error"}
        /\ toServer' \in Seq(WriteId \union {Handshake})
        /\ idle' \in BOOLEAN
    BY <1>4, <1>5, <1>6, <1>7, FilledTypes
  <2>2. /\ mutationQueue' \in [User -> Seq(WriteId)]
        /\ written' \in [User -> Seq(WriteId)]
    BY <1>1 DEF StreamInv, TypeOK
  <2> QED BY <1>1, <2>1, <2>2 DEF StreamInv, TypeOK
<1>10. NumbersInv'
  <2>1. ToSet(Append(written[user], w)) = ToSet(written[user]) \union {w}
    <3>1. written[user] \in Seq(WriteId)
      BY <1>3 DEF StreamInv, TypeOK
    <3> DEFINE s == written[user]
    <3>2. /\ DOMAIN Append(s, w) = 1 .. Len(s) + 1 /\ DOMAIN s = 1 .. Len(s)
          /\ Len(s) \in Nat
          /\ \A k \in 1 .. Len(s) : Append(s, w)[k] = s[k]
          /\ Append(s, w)[Len(s) + 1] = w
      BY <3>1
    <3> HIDE DEF s
    <3>3. ToSet(Append(s, w)) = ToSet(s) \union {w}
      BY <3>2 DEF ToSet
    <3> QED BY <3>3 DEF s
  <2>2. MadeUpTo(w)'
    <3>1. \A v : (\E u \in User : v \in ToSet(written'[u]))
                    <=> (\E u \in User : v \in ToSet(written[u])) \/ v = w
      <4>1. \A u \in User : ToSet(written'[u]) =
               IF u = user THEN ToSet(written[u]) \union {w} ELSE ToSet(written[u])
        BY <1>3, <2>1
      <4>2. user \in User
        BY <1>3
      <4> QED BY <4>1, <4>2
    <3>2. \A v : v \in 1 .. w <=> v \in 1 .. w - 1 \/ v = w
      BY <1>2
    <3> QED BY <1>2, <3>1, <3>2 DEF MadeUpTo
  <2>3. \A u \in User :
           /\ Increasing(mutationQueue'[u])
           /\ \A k \in DOMAIN mutationQueue'[u] : mutationQueue'[u][k] <= w
    <3> SUFFICES ASSUME NEW u \in User
                 PROVE  /\ Increasing(mutationQueue'[u])
                        /\ \A k \in DOMAIN mutationQueue'[u] : mutationQueue'[u][k] <= w
      OBVIOUS
    <3>1. /\ mutationQueue[u] \in Seq(WriteId)
          /\ \A k \in DOMAIN mutationQueue[u] :
                mutationQueue[u][k] \in WriteId /\ mutationQueue[u][k] <= w - 1
      BY <1>2 DEF StreamInv, TypeOK
    <3>2. \A k \in DOMAIN mutationQueue[u] : mutationQueue[u][k] <= w
      <4> SUFFICES ASSUME NEW k \in DOMAIN mutationQueue[u]
                   PROVE  mutationQueue[u][k] <= w
        OBVIOUS
      <4>1. mutationQueue[u][k] \in Nat /\ mutationQueue[u][k] <= w - 1
        BY <3>1, WriteIdIsNat
      <4> QED BY <1>2, <4>1
    <3>3. CASE u = user
      <4>1. mutationQueue'[u] = Append(mutationQueue[u], w)
        BY <1>3, <3>3 DEF q
      <4>2. \A k \in DOMAIN Append(mutationQueue[u], w) :
               Append(mutationQueue[u], w)[k] <= w
        BY <1>2, <3>1, <3>2
      <4> QED BY <1>3, <1>4, <3>3, <4>1, <4>2 DEF q
    <3>4. CASE u # user
      BY <1>2, <1>3, <3>2, <3>4
    <3> QED BY <3>3, <3>4
  <2>4. w \in 0 .. MaxWrites
    BY <1>2
  <2> QED BY <2>2, <2>3, <2>4 DEF NumbersInv
<1>11. PipelineInv'
  <2>1. Pipeline(Append(q, w)) # <<>>
    <3>1. Append(q, w) # <<>>
      BY <1>3 DEF q
    <3> QED BY <1>4, <3>1, PipelineProperties, Zenon
  <2> QED BY <1>1, <1>3, <1>7, <1>8, <2>1 DEF PipelineInv, IsStarted, Started, q
<1>12. ChannelInv'
  <2>1. CASE stream # "Ready"
    <3>1. stream' # "Ready" /\ toServer' = toServer
      BY <1>8, <2>1 DEF Started
    <3>2. stream' = "Open" <=> stream = "Open"
      BY <1>8 DEF IsStarted, Started
    <3>3. ChannelInv
      BY DEF StreamInv
    <3> QED BY <1>1, <2>1, <3>1, <3>2, <3>3, Zenon DEF ChannelInv
  <2>2. CASE stream = "Ready"
    <3>1. /\ stream' = "Ready" /\ toClient' = toClient
          /\ toServer' = toServer \o ToAdd(Append(q, w), write_pipeline)
      BY <1>1, <1>8, <2>2 DEF IsStarted
    <3>2. Answering(write_pipeline, toClient, toServer)
      BY <2>2 DEF StreamInv, ChannelInv, ReadyInv
    <3>3. toClient \in Seq({"handshake", "result", "error"})
      BY DEF StreamInv, TypeOK
    <3>4. Answering(Pipeline(Append(q, w)), toClient,
                    toServer \o ToAdd(Append(q, w), write_pipeline))
      BY <1>4, <1>5, <1>7, <3>2, <3>3, FilledAnswers
    <3>5. ReadyInv'
      BY <1>8, <3>1, <3>4, Zenon DEF ReadyInv
    <3> QED BY <3>1, <3>5 DEF ChannelInv
  <2> QED BY <2>1, <2>2
<1> QED BY <1>9, <1>10, <1>11, <1>12 DEF StreamInv

------------------------------------------------------------------------------
(* The stream's own steps.                                                 *)

\* Steps of the stream and of the server leave the queue and its numbers alone.
LEMMA QueueUntouched ==
    ASSUME StreamInv, UNCHANGED <<user, mutationQueue, written>>
    PROVE  NumbersInv' /\ (write_pipeline' = write_pipeline =>
                              write_pipeline' = Pipeline(mutationQueue'[user']))
<1>1. NumbersInv'
  BY Zenon DEF StreamInv, NumbersInv, MadeUpTo, Increasing
<1> QED BY <1>1 DEF StreamInv, PipelineInv

\* The handshake is over once the stream is ready.
LEMMA HandshakeIsFirst ==
    ASSUME StreamInv,
           \/ toServer # <<>> /\ Head(toServer) = Handshake
           \/ toClient # <<>> /\ Head(toClient) = "handshake"
    PROVE  stream # "Ready"
<1> SUFFICES ASSUME stream = "Ready" PROVE FALSE
  OBVIOUS
<1>1. /\ toServer \in Seq(WriteId \union {Handshake})
      /\ toClient \in Seq({"handshake", "result", "error"})
      /\ write_pipeline \in Seq(WriteId)
  BY DEF StreamInv, TypeOK
<1>2. Answering(write_pipeline, toClient, toServer)
  BY DEF StreamInv, ChannelInv, ReadyInv
<1>3. CASE toClient # <<>> /\ Head(toClient) = "handshake"
  <2>1. 1 \in 1 .. Len(toClient) /\ toClient[1] = "handshake"
    BY <1>1, <1>3
  <2> QED BY <1>2, <2>1 DEF Answering
<1>4. CASE toServer # <<>> /\ Head(toServer) = Handshake
  <2>1. Len(toServer) >= 1 /\ toServer[1] = Handshake /\ Len(toServer) \in Nat
    BY <1>1, <1>4
  <2>2. Len(toClient) \in Nat /\ Len(write_pipeline) \in Nat
    BY <1>1
  <2>3. /\ Len(toClient) + 1 \in 1 .. Len(write_pipeline)
        /\ write_pipeline[Len(toClient) + 1] = Handshake
    BY <1>2, <2>1, <2>2 DEF Answering
  <2>4. Handshake \notin WriteId
    BY DEF WriteId, Handshake
  <2> QED BY <1>1, <2>3, <2>4
<1> QED BY <1>3, <1>4

LEMMA StreamSteps ==
    ASSUME StreamInv,
           \/ BackoffElapses \/ OnWriteStreamOpen
           \/ OnWriteStreamHandshakeComplete \/ OnWriteStreamClose
           \/ IdleTimeout
    PROVE  StreamInv'
<1>1. UNCHANGED <<user, mutationQueue, written, callbacks, told, document,
                  write_pipeline>>
  BY DEF BackoffElapses, OnWriteStreamOpen, OnWriteStreamHandshakeComplete,
         OnWriteStreamClose, IdleTimeout, channels
<1>2. NumbersInv' /\ write_pipeline' = Pipeline(mutationQueue'[user'])
  BY <1>1, QueueUntouched
<1>3. SUFFICES /\ stream' \in {"Initial", "Starting", "Backoff", "Open", "Ready", "Error"}
               /\ idle' \in BOOLEAN
               /\ toServer' \in Seq(WriteId \union {Handshake})
               /\ toClient' \in Seq({"handshake", "result", "error"})
               /\ ~ IsStarted(stream') => write_pipeline = <<>>
               /\ idle' => stream' = "Ready" /\ write_pipeline = <<>>
               /\ ChannelInv'
  BY <1>1, <1>2 DEF StreamInv, TypeOK, PipelineInv, IsStarted
<1>4. /\ <<>> \in Seq(WriteId \union {Handshake})
      /\ <<>> \in Seq({"handshake", "result", "error"})
      /\ <<Handshake>> \in Seq(WriteId \union {Handshake})
  OBVIOUS
<1>5. /\ stream \in {"Initial", "Starting", "Backoff", "Open", "Ready", "Error"}
      /\ idle \in BOOLEAN
      /\ toServer \in Seq(WriteId \union {Handshake})
      /\ toClient \in Seq({"handshake", "result", "error"})
      /\ write_pipeline \in Seq(WriteId)
  BY DEF StreamInv, TypeOK
<1>6. /\ ~ IsStarted(stream) => write_pipeline = <<>>
      /\ idle => stream = "Ready" /\ write_pipeline = <<>>
      /\ ChannelInv
  BY DEF StreamInv, PipelineInv
<1>7. CASE BackoffElapses
  <2>1. /\ stream = "Backoff" /\ stream' = "Starting"
        /\ idle' = idle /\ toServer' = toServer /\ toClient' = toClient
    BY <1>7 DEF BackoffElapses, channels
  <2> QED BY <1>5, <1>6, <2>1 DEF ChannelInv, IsStarted
<1>8. CASE OnWriteStreamOpen
  <2>1. /\ stream = "Starting" /\ stream' = "Open"
        /\ idle' = idle /\ toServer' = <<Handshake>> /\ toClient' = toClient
    BY <1>8 DEF OnWriteStreamOpen
  <2> QED BY <1>4, <1>5, <1>6, <2>1 DEF ChannelInv, IsStarted
<1>9. CASE OnWriteStreamHandshakeComplete
  <2>1. /\ toClient # <<>> /\ Head(toClient) = "handshake"
        /\ toClient' = Tail(toClient)
        /\ stream' = "Ready" /\ toServer' = toServer \o write_pipeline
        /\ idle' = idle
    BY <1>9 DEF OnWriteStreamHandshakeComplete
  <2>2. stream # "Ready"
    BY <2>1, HandshakeIsFirst
  <2>3. toServer = <<>> /\ toClient = <<"handshake">>
    BY <1>6, <2>1, <2>2 DEF ChannelInv
  <2>4. toServer' = write_pipeline /\ toClient' = <<>>
    BY <1>5, <2>1, <2>3
  <2>5. ReadyInv'
    BY <1>1, <1>5, <2>4 DEF ReadyInv, Answering
  <2>6. write_pipeline \in Seq(WriteId \union {Handshake})
    BY <1>5
  <2> QED BY <1>4, <1>5, <1>6, <2>1, <2>2, <2>4, <2>5, <2>6
          DEF ChannelInv, IsStarted
<1>10. CASE OnWriteStreamClose
  <2>1. /\ stream' = IF write_pipeline # <<>> THEN "Backoff" ELSE "Error"
        /\ idle' = FALSE /\ toServer' = <<>> /\ toClient' = <<>>
    BY <1>10 DEF OnWriteStreamClose
  <2> QED BY <1>4, <1>6, <2>1 DEF ChannelInv, IsStarted
<1>11. CASE IdleTimeout
  <2>1. /\ idle /\ stream' = "Initial"
        /\ idle' = FALSE /\ toServer' = <<>> /\ toClient' = <<>>
    BY <1>11 DEF IdleTimeout
  <2> QED BY <1>4, <1>6, <2>1 DEF ChannelInv, IsStarted
<1> QED BY <1>7, <1>8, <1>9, <1>10, <1>11

\* What the server reads after the handshake is the next of the pipeline that
\* it has not answered; and it has answered the others with results.
LEMMA ReadsNext ==
    ASSUME StreamInv, NEW w \in WriteId, toServer # <<>>, Head(toServer) = w,
           ~ Contains(toClient, "error")
    PROVE  /\ stream = "Ready"
           /\ Answering(write_pipeline, toClient, toServer)
           /\ Len(toClient) \in Nat
           /\ Len(toClient) + 1 \in 1 .. Len(write_pipeline)
           /\ write_pipeline[Len(toClient) + 1] = w
           /\ \A k \in 1 .. Len(toClient) :
                 toClient[k] = "result" /\ write_pipeline[k] \notin Refused
<1>1. /\ toServer \in Seq(WriteId \union {Handshake})
      /\ toClient \in Seq({"handshake", "result", "error"})
      /\ write_pipeline \in Seq(WriteId)
  BY DEF StreamInv, TypeOK
<1>2. stream \in {"Open", "Ready"} /\ ChannelInv
  BY DEF StreamInv, ChannelInv
<1>3. stream = "Ready"
  <2> SUFFICES ASSUME stream = "Open" PROVE FALSE
    BY <1>2
  <2>1. toServer = <<Handshake>>
    BY <1>2 DEF ChannelInv
  <2> QED BY <2>1 DEF WriteId, Handshake
<1>4. Answering(write_pipeline, toClient, toServer)
  BY <1>2, <1>3 DEF ChannelInv, ReadyInv
<1>5. /\ Len(toServer) \in Nat /\ Len(toServer) >= 1 /\ toServer[1] = w
      /\ Len(toClient) \in Nat /\ Len(write_pipeline) \in Nat
  BY <1>1
<1>6. /\ Len(toClient) + 1 \in 1 .. Len(write_pipeline)
      /\ write_pipeline[Len(toClient) + 1] = w
  BY <1>4, <1>5 DEF Answering
<1>7. \A k \in 1 .. Len(toClient) :
         toClient[k] = "result" /\ write_pipeline[k] \notin Refused
  BY <1>4 DEF Answering, Contains
<1> QED BY <1>3, <1>4, <1>5, <1>6, <1>7

\* The server's steps.
LEMMA ServerSteps ==
    ASSUME StreamInv,
           \/ AcceptHandshake
           \/ \E w \in WriteId : CommitWrite(w) \/ RefuseWrite(w)
    PROVE  StreamInv'
<1>1. /\ UNCHANGED <<user, mutationQueue, written, callbacks, told,
                     write_pipeline, stream, idle>>
      /\ toServer # <<>> /\ toServer' = Tail(toServer)
  BY DEF AcceptHandshake, CommitWrite, RefuseWrite, Reads, clientVars
<1>2. NumbersInv' /\ write_pipeline' = Pipeline(mutationQueue'[user'])
  BY <1>1, QueueUntouched
<1>3. /\ toServer \in Seq(WriteId \union {Handshake})
      /\ toClient \in Seq({"handshake", "result", "error"})
      /\ write_pipeline \in Seq(WriteId)
      /\ user \in User /\ document \in [User -> 0 .. MaxWrites]
  BY DEF StreamInv, TypeOK
<1>4. toServer' \in Seq(WriteId \union {Handshake})
  BY <1>1, <1>3
<1>5. SUFFICES /\ toClient' \in Seq({"handshake", "result", "error"})
               /\ document' \in [User -> 0 .. MaxWrites]
               /\ ChannelInv'
  BY <1>1, <1>2, <1>4 DEF StreamInv, TypeOK, PipelineInv, IsStarted
<1>6. stream \in {"Open", "Ready"} /\ ChannelInv
  BY <1>1 DEF StreamInv, ChannelInv
<1>7. Handshake \notin WriteId
  BY DEF WriteId, Handshake
<1>8. CASE AcceptHandshake
  <2>1. /\ Head(toServer) = Handshake /\ document' = document
        /\ toClient' = Append(toClient, "handshake")
    BY <1>8 DEF AcceptHandshake
  <2>2. stream # "Ready"
    BY <1>1, <2>1, HandshakeIsFirst
  <2>3. toServer = <<Handshake>> /\ toClient = <<>>
    BY <1>1, <1>6, <2>2 DEF ChannelInv
  <2>4. toServer' = <<>> /\ toClient' = <<"handshake">>
    BY <1>1, <2>1, <2>3
  <2>5. toClient' \in Seq({"handshake", "result", "error"})
    BY <1>3, <2>1
  <2> QED BY <1>1, <1>3, <1>6, <2>1, <2>2, <2>4, <2>5 DEF ChannelInv
<1>9. CASE \E w \in WriteId : CommitWrite(w) \/ RefuseWrite(w)
  <2>1. PICK w \in WriteId : CommitWrite(w) \/ RefuseWrite(w)
    BY <1>9
  <2> DEFINE r == IF w \in Refused THEN "error" ELSE "result"
  <2>2. /\ Head(toServer) = w /\ ~ Contains(toClient, "error")
        /\ toClient' = Append(toClient, r)
        /\ document' = document \/ document' = [document EXCEPT ![user] = w]
    BY <2>1 DEF CommitWrite, RefuseWrite, Reads
  <2>3. r \in {"handshake", "result", "error"}
    OBVIOUS
  <2>4. /\ stream = "Ready"
        /\ Answering(write_pipeline, toClient, toServer)
        /\ write_pipeline[Len(toClient) + 1] = w
        /\ \A k \in 1 .. Len(toClient) :
              toClient[k] = "result" /\ write_pipeline[k] \notin Refused
    BY <1>1, <2>2, ReadsNext
  <2> DEFINE n == Len(toClient)
             c == Append(toClient, r)
             t == Tail(toServer)
  <2>6. /\ n \in Nat /\ Len(c) = n + 1 /\ c[n + 1] = r
        /\ \A k \in 1 .. n : c[k] = toClient[k]
        /\ c \in Seq({"handshake", "result", "error"})
    BY <1>3, <2>3
  <2> HIDE DEF c, r
  <2>7. /\ Len(toServer) \in Nat /\ Len(toServer) >= 1 /\ toServer[1] = w
        /\ Len(t) = Len(toServer) - 1
        /\ \A k \in 1 .. Len(toServer) - 1 : t[k] = toServer[k + 1]
    BY <1>1, <1>3, <2>2
  <2> HIDE DEF t
  <2>8. /\ n + Len(toServer) = Len(write_pipeline)
        /\ \A k \in 1 .. Len(toServer) : toServer[k] = write_pipeline[n + k]
    BY <2>4 DEF Answering
  <2>11. \A k \in 1 .. n + 1 :
            \/ c[k] = "result" /\ write_pipeline[k] \notin Refused
            \/ c[k] = "error" /\ write_pipeline[k] \in Refused /\ k = n + 1
    <3>1. \/ c[n + 1] = "result" /\ write_pipeline[n + 1] \notin Refused
          \/ c[n + 1] = "error" /\ write_pipeline[n + 1] \in Refused
      BY <2>4, <2>6 DEF r
    <3>2. \A k \in 1 .. n : c[k] = "result" /\ write_pipeline[k] \notin Refused
      BY <2>4, <2>6
    <3>3. \A k \in 1 .. n + 1 : k \in 1 .. n \/ k = n + 1
      BY <2>6
    <3> QED BY <3>1, <3>2, <3>3
  <2>12. \A k \in 1 .. Len(t) : t[k] = write_pipeline[n + 1 + k]
    <3> SUFFICES ASSUME NEW k \in 1 .. Len(t)
                 PROVE  t[k] = write_pipeline[n + 1 + k]
      OBVIOUS
    <3>1. k + 1 \in 1 .. Len(toServer) /\ n + (k + 1) = n + 1 + k
      BY <2>6, <2>7
    <3>2. toServer[k + 1] = write_pipeline[n + (k + 1)]
      BY <2>8, <3>1
    <3>3. t[k] = toServer[k + 1]
      BY <2>7
    <3> QED BY <3>1, <3>2, <3>3
  <2>13. n + 1 + Len(t) = Len(write_pipeline)
    <3>1. n + 1 + (Len(toServer) - 1) = n + Len(toServer)
      BY <2>6, <2>7
    <3> QED BY <2>7, <2>8, <3>1
  <2>14. toClient' = c /\ toServer' = t
    BY <1>1, <2>2 DEF c, t
  <2>15. ReadyInv'
    BY <1>1, <2>6, <2>11, <2>12, <2>13, <2>14 DEF ReadyInv, Answering
  <2>16. document' \in [User -> 0 .. MaxWrites]
    <3>1. w \in 0 .. MaxWrites
      BY <2>1, WritesAssumption DEF WriteId
    <3> QED BY <1>3, <2>2, <3>1
  <2> QED BY <1>1, <2>4, <2>6, <2>14, <2>15, <2>16 DEF ChannelInv
<1> QED BY <1>8, <1>9

------------------------------------------------------------------------------
(* Steps that start from the front of the queue again, or take it off.     *)

\* Taking the front off the queue.
LEMMA FrontRemoved ==
    ASSUME NEW q \in Seq(WriteId), Increasing(q), q # <<>>
    PROVE  /\ RemoveFirst(q, Head(q)) = Tail(q)
           /\ Tail(q) \in Seq(WriteId)
           /\ Len(Tail(q)) = Len(q) - 1
           /\ \A k \in 1 .. Len(q) - 1 : Tail(q)[k] = q[k + 1]
           /\ Increasing(Tail(q))
<1>1. Len(q) \in Nat /\ Len(q) >= 1 /\ Head(q) = q[1]
  OBVIOUS
<1>2. /\ Tail(q) \in Seq(WriteId)
      /\ Len(Tail(q)) = Len(q) - 1
      /\ \A k \in 1 .. Len(q) - 1 : Tail(q)[k] = q[k + 1]
  OBVIOUS
<1>3. Increasing(Tail(q))
  <2> SUFFICES ASSUME NEW j \in 1 .. Len(q) - 1, NEW k \in 1 .. Len(q) - 1, j < k
               PROVE  q[j + 1] < q[k + 1]
    BY <1>2 DEF Increasing
  <2>1. j + 1 \in 1 .. Len(q) /\ k + 1 \in 1 .. Len(q) /\ j + 1 < k + 1
    BY <1>1
  <2> QED BY <2>1 DEF Increasing
<1>4. RemoveFirst(q, Head(q)) = Tail(q)
  <2> DEFINE first == {i \in 1 .. Len(q) : q[i] = Head(q)}
  <2>1. 1 \in 1 .. Len(q) /\ 1 \in first /\ \A i \in first : i >= 1 /\ i \in Int
    BY <1>1
  <2>2. Min(first) = 1
    <3>1. Min(first) \in first /\ \A y \in first : Min(first) <= y
      BY <2>1, Zenon DEF Min
    <3> QED BY <2>1, <3>1
  <2>3. RemoveFirst(q, Head(q)) = RemoveAt(q, Min(first))
    BY <2>1 DEF RemoveFirst, SelectInSeq
  <2> HIDE DEF first
  <2>4. /\ RemoveAt(q, 1) \in Seq(WriteId)
        /\ Len(RemoveAt(q, 1)) = Len(q) - 1
        /\ \A k \in 1 .. Len(q) - 1 :
              RemoveAt(q, 1)[k] = IF k < 1 THEN q[k] ELSE q[k + 1]
    <3>1. 1 \in DOMAIN q
      BY <1>1
    <3> QED BY <3>1, RemoveAtProperties
  <2>5. \A k \in 1 .. Len(q) - 1 : RemoveAt(q, 1)[k] = Tail(q)[k]
    BY <1>1, <1>2, <2>4
  <2>6. RemoveAt(q, 1) = Tail(q)
    BY <1>2, <2>4, <2>5, SeqEqual
  <2> QED BY <2>2, <2>3, <2>6
<1> QED BY <1>2, <1>3, <1>4

\* The stream stopped, and the pipeline filled from nothing.
LEMMA RestartStep ==
    ASSUME StreamInv, NEW u \in User, RestartNetwork(u),
           callbacks' \subseteq callbacks
    PROVE  StreamInv'
<1> DEFINE q == mutationQueue[u]
<1>1. /\ user' = u /\ toClient' = <<>>
      /\ UNCHANGED <<mutationQueue, written, told, document>>
      /\ FillWritePipeline(q, <<>>, "Initial", <<>>)
  BY DEF RestartNetwork
<1>2. q \in Seq(WriteId) /\ Increasing(q)
  BY DEF StreamInv, TypeOK, NumbersInv
<1>3. /\ <<>> \in Seq(WriteId) /\ Len(<<>>) <= Len(Pipeline(q))
      /\ \A k \in 1 .. Len(<<>>) : <<>>[k] = q[k]
      /\ <<>> \in Seq(WriteId \union {Handshake})
      /\ <<>> \in Seq({"handshake", "result", "error"})
  <2>1. Pipeline(q) \in Seq(WriteId)
    BY <1>2, PipelineProperties
  <2> QED BY <2>1
<1> HIDE DEF q
<1>4. /\ write_pipeline' = Pipeline(q)
      /\ stream' = IF Pipeline(q) # <<>> /\ ~ IsStarted("Initial")
                   THEN Started("Initial") ELSE "Initial"
      /\ toServer' = <<>>
      /\ idle' = FALSE
  <2>1. "Initial" # "Ready"
    OBVIOUS
  <2> QED BY <1>1, <1>2, <1>3, <2>1, Filled, Zenon
<1>5. TypeOK'
  <2>1. write_pipeline' \in Seq(WriteId)
    BY <1>2, <1>4, PipelineProperties
  <2> QED BY <1>1, <1>3, <1>4, <2>1 DEF StreamInv, TypeOK, Started
<1>6. NumbersInv'
  BY <1>1, Zenon DEF StreamInv, NumbersInv, MadeUpTo, Increasing
<1>7. PipelineInv'
  BY <1>1, <1>4 DEF PipelineInv, IsStarted, Started, q
<1>8. ChannelInv'
  BY <1>1, <1>4 DEF ChannelInv, IsStarted, Started
<1> QED BY <1>5, <1>6, <1>7, <1>8 DEF StreamInv

\* An answer about a write finds it at the front of the pipeline and of the
\* queue, on a stream that is ready.
LEMMA AnswerIsAboutFront ==
    ASSUME StreamInv, toClient # <<>>, Head(toClient) \in {"result", "error"}
    PROVE  /\ stream = "Ready" /\ ReadyInv
           /\ mutationQueue[user] # <<>> /\ write_pipeline # <<>>
           /\ Head(write_pipeline) = Head(mutationQueue[user])
           /\ Head(write_pipeline) = mutationQueue[user][1]
           /\ Head(write_pipeline) \in WriteId
<1>1. /\ toClient \in Seq({"handshake", "result", "error"})
      /\ toServer \in Seq(WriteId \union {Handshake})
  BY DEF StreamInv, TypeOK
<1>2. stream = "Ready"
  BY DEF StreamInv, ChannelInv
<1>3. ReadyInv
  BY <1>2 DEF StreamInv, ChannelInv
<1>4. Len(toClient) \in Nat /\ Len(toClient) >= 1 /\ Len(toServer) \in Nat
  BY <1>1
<1>5. write_pipeline \in Seq(WriteId) /\ Len(write_pipeline) >= 1
  BY <1>3, <1>4, PipelineFacts DEF ReadyInv, Answering
<1>6. write_pipeline # <<>> /\ mutationQueue[user] # <<>>
  BY <1>5, PipelineFacts
<1>7. 1 \in 1 .. Len(write_pipeline)
  BY <1>5
<1>8. write_pipeline[1] = mutationQueue[user][1]
  BY <1>7, PipelineFacts
<1> QED BY <1>2, <1>3, <1>5, <1>6, <1>7, <1>8, PipelineFacts

\* The front's answer: what both handlers do.
LEMMA FrontSettled ==
    ASSUME StreamInv, toClient # <<>>, Head(toClient) \in {"result", "error"},
           NEW report \in Report,
           NotifyUser(Head(write_pipeline), report),
           RemoveMutationBatch(Head(write_pipeline)),
           UNCHANGED <<user, written, document>>
    PROVE  /\ mutationQueue'[user] = Tail(mutationQueue[user])
           /\ \A u \in User : u # user => mutationQueue'[u] = mutationQueue[u]
           /\ mutationQueue' \in [User -> Seq(WriteId)]
           /\ callbacks' \subseteq WriteId
           /\ told' \in [WriteId -> Report]
           /\ NumbersInv'
           /\ Tail(write_pipeline) \in Seq(WriteId)
           /\ Len(Tail(write_pipeline))
                 <= Len(Pipeline(Tail(mutationQueue[user])))
           /\ \A k \in 1 .. Len(Tail(write_pipeline)) :
                 Tail(write_pipeline)[k] = Tail(mutationQueue[user])[k]
<1> DEFINE q == mutationQueue[user]
           p == write_pipeline
<1>1. /\ q # <<>> /\ p # <<>> /\ Head(p) = Head(q) /\ Head(p) \in WriteId
  BY AnswerIsAboutFront
<1>2. /\ user \in User /\ q \in Seq(WriteId) /\ Increasing(q)
      /\ p \in Seq(WriteId) /\ p = Pipeline(q)
      /\ Len(p) \in Nat /\ Len(p) <= Len(q) /\ Len(p) <= MaxPending
      /\ \A k \in 1 .. Len(p) : k \in 1 .. Len(q) /\ p[k] = q[k]
  BY PipelineFacts
<1>3. /\ RemoveFirst(q, Head(q)) = Tail(q)
      /\ Tail(q) \in Seq(WriteId)
      /\ Len(Tail(q)) = Len(q) - 1
      /\ \A k \in 1 .. Len(q) - 1 : Tail(q)[k] = q[k + 1]
      /\ Increasing(Tail(q))
  BY <1>1, <1>2, FrontRemoved
<1>4. /\ mutationQueue'[user] = Tail(q)
      /\ \A u \in User : u # user => mutationQueue'[u] = mutationQueue[u]
      /\ mutationQueue' \in [User -> Seq(WriteId)]
  <2>1. mutationQueue' = [mutationQueue EXCEPT ![user] = RemoveFirst(q, Head(p))]
    BY DEF RemoveMutationBatch
  <2>2. mutationQueue \in [User -> Seq(WriteId)]
    BY DEF StreamInv, TypeOK
  <2> QED BY <1>1, <1>2, <1>3, <2>1, <2>2
<1>5. callbacks' \subseteq WriteId /\ told' \in [WriteId -> Report]
  BY DEF NotifyUser, StreamInv, TypeOK
<1>6. NumbersInv'
  <2>1. PICK n \in 0 .. MaxWrites :
           /\ MadeUpTo(n)
           /\ \A u \in User :
                 /\ Increasing(mutationQueue[u])
                 /\ \A k \in DOMAIN mutationQueue[u] : mutationQueue[u][k] <= n
    BY DEF StreamInv, NumbersInv
  <2>2. MadeUpTo(n)'
    BY <2>1 DEF MadeUpTo
  <2>3. \A k \in DOMAIN Tail(q) : Tail(q)[k] <= n
    <3> SUFFICES ASSUME NEW k \in 1 .. Len(q) - 1 PROVE Tail(q)[k] <= n
      BY <1>3
    <3>1. k + 1 \in DOMAIN q
      BY <1>2
    <3> QED BY <1>2, <1>3, <2>1, <3>1
  <2> QED BY <1>3, <1>4, <2>1, <2>2, <2>3 DEF NumbersInv
<1>7. /\ Tail(p) \in Seq(WriteId) /\ Len(Tail(p)) = Len(p) - 1
      /\ \A k \in 1 .. Len(p) - 1 : Tail(p)[k] = p[k + 1]
  BY <1>1, <1>2
<1>8. Len(Pipeline(Tail(q))) = IF Len(q) - 1 <= MaxPending THEN Len(q) - 1
                               ELSE MaxPending
  BY <1>3, PipelineProperties
<1> HIDE DEF q, p
<1>9. Len(Tail(p)) <= Len(Pipeline(Tail(q)))
  BY <1>2, <1>7, <1>8, MaxPendingIsNat
<1>10. \A k \in 1 .. Len(Tail(p)) : Tail(p)[k] = Tail(q)[k]
  <2> SUFFICES ASSUME NEW k \in 1 .. Len(p) - 1 PROVE p[k + 1] = q[k + 1]
    BY <1>2, <1>3, <1>7
  <2>1. k + 1 \in 1 .. Len(p)
    BY <1>2
  <2> QED BY <1>2, <2>1
<1> QED BY <1>4, <1>5, <1>6, <1>7, <1>9, <1>10 DEF q, p

LEMMA ResultStep ==
    ASSUME StreamInv, OnWriteStreamMutationResult
    PROVE  StreamInv'
<1> DEFINE q == Tail(mutationQueue[user])
           p == Tail(write_pipeline)
           f == Pipeline(q)
<1>1. /\ toClient # <<>> /\ Head(toClient) = "result"
      /\ toClient' = Tail(toClient)
      /\ NotifyUser(Head(write_pipeline), "success")
      /\ RemoveMutationBatch(Head(write_pipeline))
      /\ FillWritePipeline(mutationQueue'[user], p, stream, toServer)
      /\ UNCHANGED <<user, written, document>>
  BY DEF OnWriteStreamMutationResult
<1>2. "success" \in Report /\ Head(toClient) \in {"result", "error"}
  BY <1>1 DEF Report
<1>3. /\ mutationQueue'[user] = q
      /\ mutationQueue' \in [User -> Seq(WriteId)]
      /\ callbacks' \subseteq WriteId /\ told' \in [WriteId -> Report]
      /\ NumbersInv' /\ p \in Seq(WriteId) /\ Len(p) <= Len(f)
      /\ \A k \in 1 .. Len(p) : p[k] = q[k]
  BY <1>1, <1>2, FrontSettled
<1>4. q \in Seq(WriteId) /\ Increasing(q)
  BY <1>1, <1>2, PipelineFacts, AnswerIsAboutFront, FrontRemoved
<1>5. /\ stream = "Ready" /\ Answering(write_pipeline, toClient, toServer)
      /\ write_pipeline # <<>> /\ write_pipeline \in Seq(WriteId)
  BY <1>1, <1>2, AnswerIsAboutFront, PipelineFacts DEF ReadyInv
<1>6. /\ toClient \in Seq({"handshake", "result", "error"})
      /\ toServer \in Seq(WriteId \union {Handshake})
  BY DEF StreamInv, TypeOK
<1>7. /\ Tail(toClient) \in Seq({"handshake", "result", "error"})
      /\ Answering(p, Tail(toClient), toServer)
  <2> DEFINE c == Tail(toClient)
  <2>1. /\ c \in Seq({"handshake", "result", "error"})
        /\ Len(toClient) \in Nat /\ Len(toClient) >= 1
        /\ Len(c) = Len(toClient) - 1
        /\ \A k \in 1 .. Len(toClient) - 1 : c[k] = toClient[k + 1]
    BY <1>1, <1>6
  <2> HIDE DEF c
  <2>2. /\ Len(write_pipeline) \in Nat
        /\ Len(p) = Len(write_pipeline) - 1
        /\ \A k \in 1 .. Len(write_pipeline) - 1 : p[k] = write_pipeline[k + 1]
    BY <1>5
  <2> HIDE DEF p
  <2>3. Len(toServer) \in Nat /\ Len(toClient) + Len(toServer) = Len(write_pipeline)
    BY <1>5, <1>6 DEF Answering
  <2>4. Len(c) + Len(toServer) = Len(p)
    <3>1. (Len(toClient) - 1) + Len(toServer) = (Len(toClient) + Len(toServer)) - 1
      BY <2>1, <2>3
    <3> QED BY <2>1, <2>2, <2>3, <3>1
  <2>5. ASSUME NEW k \in 1 .. Len(toServer)
        PROVE  toServer[k] = p[Len(c) + k]
    <3>1. /\ Len(c) + k \in 1 .. Len(write_pipeline) - 1
          /\ Len(c) + k + 1 = Len(toClient) + k
      BY <2>1, <2>2, <2>3
    <3> QED BY <1>5, <2>2, <3>1 DEF Answering
  <2>6. ASSUME NEW k \in 1 .. Len(c)
        PROVE  \/ c[k] = "result" /\ p[k] \notin Refused
               \/ c[k] = "error" /\ p[k] \in Refused /\ k = Len(c)
    <3>1. /\ k + 1 \in 1 .. Len(toClient) /\ k \in 1 .. Len(write_pipeline) - 1
          /\ k + 1 = Len(toClient) => k = Len(c)
      BY <2>1, <2>2, <2>3
    <3>2. c[k] = toClient[k + 1] /\ p[k] = write_pipeline[k + 1]
      BY <2>1, <2>2, <3>1
    <3> QED BY <1>5, <3>1, <3>2 DEF Answering
  <2>7. Answering(p, c, toServer)
    BY <2>4, <2>5, <2>6 DEF Answering
  <2> QED BY <2>1, <2>7 DEF c
<1>8. FillWritePipeline(q, p, "Ready", toServer)
  BY <1>1, <1>3, <1>5
<1>9. Answering(f, Tail(toClient), toServer \o ToAdd(q, p))
  BY <1>3, <1>4, <1>6, <1>7, FilledAnswers
<1> HIDE DEF q, p
<1>10. /\ write_pipeline' = f
       /\ stream' = IF f # <<>> /\ ~ IsStarted("Ready") THEN Started("Ready")
                    ELSE "Ready"
       /\ toServer' = IF "Ready" = "Ready" THEN toServer \o ToAdd(q, p) ELSE toServer
       /\ idle' = ("Ready" = "Ready" /\ f = <<>>)
  BY <1>3, <1>4, <1>8, Filled, Zenon
<1>11. /\ write_pipeline' \in Seq(WriteId)
       /\ toServer' \in Seq(WriteId \union {Handshake})
       /\ idle' \in BOOLEAN
  BY <1>3, <1>4, <1>6, <1>8, FilledTypes
<1>12. stream' = "Ready"
  BY <1>10 DEF IsStarted
<1>13. TypeOK'
  BY <1>1, <1>3, <1>7, <1>11, <1>12 DEF StreamInv, TypeOK
<1>14. PipelineInv'
  BY <1>1, <1>3, <1>10, <1>12 DEF PipelineInv, IsStarted
<1>15. ChannelInv'
  <2>1. toServer' = toServer \o ToAdd(q, p)
    BY <1>10
  <2> QED BY <1>1, <1>9, <1>10, <1>12, <2>1 DEF ChannelInv, ReadyInv
<1> QED BY <1>3, <1>13, <1>14, <1>15 DEF StreamInv

LEMMA ErrorStep ==
    ASSUME StreamInv, HandleWriteError
    PROVE  StreamInv'
<1> DEFINE q == Tail(mutationQueue[user])
           p == Tail(write_pipeline)
           f == Pipeline(q)
<1>1. /\ toClient # <<>> /\ Head(toClient) = "error"
      /\ toClient' = <<>>
      /\ NotifyUser(Head(write_pipeline), "failure")
      /\ RemoveMutationBatch(Head(write_pipeline))
      /\ FillWritePipeline(mutationQueue'[user], p, "Initial", <<>>)
      /\ UNCHANGED <<user, written, document>>
  BY DEF HandleWriteError
<1>2. "failure" \in Report /\ Head(toClient) \in {"result", "error"}
  BY <1>1 DEF Report
<1>3. /\ mutationQueue'[user] = q
      /\ mutationQueue' \in [User -> Seq(WriteId)]
      /\ callbacks' \subseteq WriteId /\ told' \in [WriteId -> Report]
      /\ NumbersInv' /\ p \in Seq(WriteId) /\ Len(p) <= Len(f)
      /\ \A k \in 1 .. Len(p) : p[k] = q[k]
  BY <1>1, <1>2, FrontSettled
<1>4. q \in Seq(WriteId) /\ Increasing(q)
  BY <1>1, <1>2, PipelineFacts, AnswerIsAboutFront, FrontRemoved
<1>5. FillWritePipeline(q, p, "Initial", <<>>)
  BY <1>1, <1>3
<1>6. f \in Seq(WriteId)
  BY <1>4, PipelineProperties
<1> HIDE DEF q, p
<1>7. /\ write_pipeline' = f
      /\ stream' = IF f # <<>> /\ ~ IsStarted("Initial")
                   THEN Started("Initial") ELSE "Initial"
      /\ toServer' = <<>>
      /\ idle' = FALSE
  <2>1. "Initial" # "Ready"
    OBVIOUS
  <2> QED BY <1>3, <1>4, <1>5, <2>1, Filled, Zenon
<1>8. <<>> \in Seq(WriteId \union {Handshake})
      /\ <<>> \in Seq({"handshake", "result", "error"})
  OBVIOUS
<1> HIDE DEF f
<1>9. TypeOK'
  BY <1>1, <1>3, <1>6, <1>7, <1>8 DEF StreamInv, TypeOK, Started
<1>10. PipelineInv'
  BY <1>1, <1>3, <1>7 DEF PipelineInv, IsStarted, Started, f
<1>11. ChannelInv'
  BY <1>1, <1>7 DEF ChannelInv, IsStarted, Started
<1> QED BY <1>3, <1>9, <1>10, <1>11 DEF StreamInv

LEMMA StreamStep == StreamInv /\ [Next]_vars => StreamInv'
<1> SUFFICES ASSUME StreamInv, [Next]_vars PROVE StreamInv'
  OBVIOUS
<1>1. CASE \E w \in WriteId : WriteMutations(w)
  BY <1>1, MakeStep
<1>2. CASE \/ BackoffElapses \/ OnWriteStreamOpen
           \/ OnWriteStreamHandshakeComplete \/ OnWriteStreamClose
           \/ IdleTimeout
  BY <1>2, StreamSteps
<1>3. CASE AcceptHandshake \/ \E w \in WriteId : CommitWrite(w) \/ RefuseWrite(w)
  BY <1>3, ServerSteps
<1>4. CASE OnWriteStreamMutationResult
  BY <1>4, ResultStep
<1>5. CASE HandleWriteError
  BY <1>5, ErrorStep
<1>6. CASE (\E u \in User : HandleCredentialChange(u)) \/ Relaunch
  <2>1. PICK u \in User : RestartNetwork(u) /\ callbacks' \subseteq callbacks
    BY <1>6 DEF HandleCredentialChange, Relaunch, StreamInv, TypeOK
  <2> QED BY <2>1, RestartStep
<1>7. CASE UNCHANGED vars
  BY <1>7 DEF StreamInv, TypeOK, NumbersInv, MadeUpTo, Increasing, PipelineInv,
              ChannelInv, ReadyInv, vars, clientVars, channels
<1> QED BY <1>1, <1>2, <1>3, <1>4, <1>5, <1>6, <1>7 DEF Next

\* The invariant that ties the pipeline to the queue, and what is under way on
\* the stream to the pipeline, holds of RemoteStore for any number of users and
\* writes and any bound of the pipeline up to the code's.
LEMMA StreamInvariant == Spec => []StreamInv
<1>1. Spec => Init /\ [][Next]_vars
  BY DEF Spec
<1> QED BY <1>1, InitStream, StreamStep, PTL

LEMMA StreamInvAsserts == StreamInv => AssertionsHold
<1> SUFFICES ASSUME StreamInv PROVE AssertionsHold
  OBVIOUS
<1>1. TypeOK
  BY DEF StreamInv
<1>2. ASSUME ToSet(toClient) \cap {"result", "error"} # {}
      PROVE  write_pipeline # <<>>
  <2>1. toClient # <<>> /\ toClient # <<"handshake">>
    BY <1>2 DEF ToSet
  <2>2. ReadyInv
    BY <2>1 DEF StreamInv, ChannelInv
  <2>3. Len(toClient) \in Nat /\ Len(toClient) >= 1 /\ Len(toServer) \in Nat
    BY <1>1, <2>1 DEF TypeOK
  <2>4. Len(toClient) + Len(toServer) = Len(write_pipeline)
    BY <2>2 DEF ReadyInv, Answering
  <2>5. Len(write_pipeline) >= 1
    BY <2>3, <2>4
  <2> QED BY <2>5
<1>3. IsPrefix(write_pipeline, mutationQueue[user])
  <2>1. /\ write_pipeline \in Seq(WriteId) /\ mutationQueue[user] \in Seq(WriteId)
        /\ Len(write_pipeline) \in Nat
        /\ Len(write_pipeline) <= Len(mutationQueue[user])
        /\ \A k \in 1 .. Len(write_pipeline) :
              write_pipeline[k] = mutationQueue[user][k]
    BY PipelineFacts
  <2> DEFINE n == Len(write_pipeline)
             a == SubSeq(write_pipeline, 1, n)
             b == SubSeq(mutationQueue[user], 1, n)
  <2>2. /\ a \in Seq(WriteId) /\ Len(a) = n
        /\ \A k \in 1 .. n : a[k] = write_pipeline[k]
    BY <2>1
  <2>3. /\ b \in Seq(WriteId) /\ Len(b) = n
        /\ \A k \in 1 .. n : b[k] = mutationQueue[user][k]
    BY <2>1
  <2>4. a = b
    BY <2>1, <2>2, <2>3, SeqEqual
  <2> QED BY <2>1, <2>4 DEF IsPrefix
<1>4. ASSUME idle \/ ~ IsStarted(stream)
      PROVE  mutationQueue[user] = <<>>
  <2>1. write_pipeline = <<>>
    BY <1>4 DEF StreamInv, PipelineInv
  <2> QED BY <2>1, PipelineFacts
<1> QED BY <1>1, <1>2, <1>3, <1>4 DEF AssertionsHold

\* RemoteStore's own assertions never fail: a result or a permanent error finds
\* a write in the pipeline, and that write is the first in the queue.
THEOREM ClientAssertionsHold == Spec => []AssertionsHold
BY StreamInvariant, StreamInvAsserts, PTL

------------------------------------------------------------------------------
(* The queue as PendingWrites has it.                                      *)

\* What the stream's responses say of the k-th write waiting.
Ruling(k) ==
    IF stream = "Ready" /\ k <= Len(toClient)
    THEN IF toClient[k] = "result" THEN "committed" ELSE "rejected"
    ELSE "queued"

WriteIn(u, k) ==
    [id |-> mutationQueue[u][k],
     status |-> IF u = user THEN Ruling(k) ELSE "queued"]

QueueIs ==
    /\ Queue = [u \in User |-> Queue[u]]
    /\ \A u \in User :
          Queue[u] = [k \in 1 .. Len(mutationQueue[u]) |-> WriteIn(u, k)]

\* Counting the results comes to reading the responses one by one.
LEMMA ResultsCounted ==
    ASSUME StreamInv, stream = "Ready", NEW k \in Nat, k >= 1
    PROVE  StatusOf(user, k) = Ruling(k)
<1> DEFINE n == Len(toClient)
           results == {i \in DOMAIN toClient : toClient[i] = "result"}
<1>1. /\ toClient \in Seq({"handshake", "result", "error"})
      /\ n \in Nat /\ DOMAIN toClient = 1 .. n
  BY DEF StreamInv, TypeOK
<1>2. \A i \in 1 .. n : \/ toClient[i] = "result"
                        \/ toClient[i] = "error" /\ i = n
  BY DEF StreamInv, ChannelInv, ReadyInv, Answering
<1> HIDE DEF n
<1>3. CASE Contains(toClient, "error")
  <2>1. n >= 1 /\ toClient[n] = "error"
    <3>1. PICK i \in 1 .. n : toClient[i] = "error"
      BY <1>3, Zenon DEF Contains, n
    <3>2. i = n
      BY <1>2, <3>1
    <3> QED BY <1>1, <3>1, <3>2
  <2>2. results = 1 .. n - 1
    BY <1>1, <1>2, <2>1
  <2>3. Results = n - 1
    <3>1. Cardinality(1 .. n - 1) = n - 1
      BY <1>1, <2>1, FS_Interval
    <3> QED BY <2>2, <3>1 DEF Results
  <2>4. \A i \in 1 .. n - 1 : toClient[i] = "result"
    BY <1>1, <1>2
  <2>5. CASE k <= n - 1
    BY <1>1, <2>3, <2>4, <2>5 DEF StatusOf, Ruling, n
  <2>6. CASE k = n
    BY <1>1, <1>3, <2>1, <2>3, <2>6 DEF StatusOf, Ruling, n
  <2>7. CASE k > n
    <3>1. ~ (k <= n - 1) /\ ~ (k = (n - 1) + 1) /\ ~ (k <= n)
      BY <1>1, <2>7
    <3> QED BY <2>3, <3>1, Zenon DEF StatusOf, Ruling, n
  <2> QED BY <1>1, <2>5, <2>6, <2>7
<1>4. CASE ~ Contains(toClient, "error")
  <2>1. \A i \in 1 .. n : toClient[i] = "result"
    BY <1>2, <1>4 DEF Contains, n
  <2>2. results = 1 .. n
    BY <1>1, <2>1
  <2>3. Results = n
    <3>1. Cardinality(1 .. n) = n
      BY <1>1, FS_Interval
    <3> QED BY <2>2, <3>1 DEF Results
  <2> QED BY <1>1, <1>4, <2>1, <2>3 DEF StatusOf, Ruling, n
<1> QED BY <1>3, <1>4

LEMMA NothingRuled ==
    ASSUME StreamInv, stream # "Ready", NEW k \in Nat, k >= 1
    PROVE  StatusOf(user, k) = "queued"
<1>1. toClient = <<>> \/ toClient = <<"handshake">>
  BY DEF StreamInv, ChannelInv
<1>2. {i \in DOMAIN toClient : toClient[i] = "result"} = {}
  BY <1>1
<1>3. Results = 0
  BY <1>2, FS_EmptySet DEF Results
<1>4. ~ Contains(toClient, "error")
  BY <1>1 DEF Contains
<1> QED BY <1>3, <1>4 DEF StatusOf

LEMMA QueueRead == StreamInv => QueueIs
<1> SUFFICES ASSUME StreamInv PROVE QueueIs
  OBVIOUS
<1>1. Queue = [u \in User |-> Queue[u]]
  BY DEF Queue
<1>2. ASSUME NEW u \in User
      PROVE  Queue[u] = [k \in 1 .. Len(mutationQueue[u]) |-> WriteIn(u, k)]
  <2>1. mutationQueue[u] \in Seq(WriteId)
    BY DEF StreamInv, TypeOK
  <2>2. DOMAIN mutationQueue[u] = 1 .. Len(mutationQueue[u])
    BY <2>1
  <2>3. \A k \in 1 .. Len(mutationQueue[u]) :
           [id |-> mutationQueue[u][k], status |-> StatusOf(u, k)] = WriteIn(u, k)
    <3> SUFFICES ASSUME NEW k \in 1 .. Len(mutationQueue[u])
                 PROVE  StatusOf(u, k) = IF u = user THEN Ruling(k) ELSE "queued"
      BY DEF WriteIn
    <3>1. k \in Nat /\ k >= 1
      OBVIOUS
    <3>2. CASE u # user
      BY <3>2 DEF StatusOf
    <3>3. CASE u = user /\ stream = "Ready"
      BY <3>1, <3>3, ResultsCounted
    <3>4. CASE u = user /\ stream # "Ready"
      BY <3>1, <3>4, NothingRuled DEF Ruling
    <3> QED BY <3>2, <3>3, <3>4
  <2>4. Queue[u] = [k \in 1 .. Len(mutationQueue[u]) |->
                       [id |-> mutationQueue[u][k], status |-> StatusOf(u, k)]]
    BY <2>2 DEF Queue
  <2> QED BY <2>3, <2>4
<1> QED BY <1>1, <1>2 DEF QueueIs

LEMMA QueueReadNext == StreamInv' => QueueIs'
<1>1. (StreamInv => QueueIs)'
  BY QueueRead, PTL
<1> QED BY <1>1

------------------------------------------------------------------------------
(* Step by step, RemoteStore does what PendingWrites does.                 *)

\* Two readings of the queue, before and after a step, differ as the queues do.
LEMMA QueueChanges ==
    ASSUME QueueIs, QueueIs', NEW v \in User, NEW q, Queue'[v] = q,
           \A u \in User : u # v => Queue'[u] = Queue[u]
    PROVE  Queue' = [Queue EXCEPT ![v] = q]
<1>1. Queue = [u \in User |-> Queue[u]] /\ Queue' = [u \in User |-> Queue'[u]]
  BY Zenon DEF QueueIs
<1> DEFINE a == Queue
           b == Queue'
<1>2. a = [u \in User |-> a[u]] /\ b = [u \in User |-> b[u]]
  BY <1>1
<1>3. b[v] = q /\ \A u \in User : u # v => b[u] = a[u]
  OBVIOUS
<1> HIDE DEF a, b
<1>4. b = [a EXCEPT ![v] = q]
  BY <1>2, <1>3
<1> QED BY <1>4 DEF a, b

\* The queue of a user who is not signed in, before or after the step, is read
\* the same if it is the same.
LEMMA OthersKept ==
    ASSUME QueueIs, QueueIs', NEW u \in User, u # user, u # user',
           mutationQueue'[u] = mutationQueue[u]
    PROVE  Queue'[u] = Queue[u]
<1>1. /\ Queue[u] = [k \in 1 .. Len(mutationQueue[u]) |->
                        [id |-> mutationQueue[u][k], status |-> "queued"]]
      /\ Queue'[u] = [k \in 1 .. Len(mutationQueue'[u]) |->
                        [id |-> mutationQueue'[u][k], status |-> "queued"]]
  BY DEF QueueIs, WriteIn
<1> QED BY <1>1

LEMMA InitImplements == Init => Pending!Init
<1> SUFFICES ASSUME Init PROVE Pending!Init
  OBVIOUS
<1>1. \A u \in User : Queue[u] = <<>>
  BY DEF Queue, Init
<1>2. Queue = [u \in User |-> <<>>]
  BY <1>1 DEF Queue
<1> QED BY <1>2 DEF Init, Pending!Init, WriteId, Pending!WriteId

LEMMA MakeImplements ==
    ASSUME StreamInv, StreamInv', NEW w \in WriteId, WriteMutations(w)
    PROVE  Pending!Make(w)
<1> DEFINE q == mutationQueue[user]
           record == [id |-> w, status |-> "queued"]
<1>1. QueueIs /\ QueueIs'
  BY QueueRead, QueueReadNext
<1>2. /\ user' = user /\ told' = told /\ toClient' = toClient
      /\ document' = document
      /\ written' = [written EXCEPT ![user] = Append(@, w)]
      /\ mutationQueue' = [mutationQueue EXCEPT ![user] = Append(@, w)]
      /\ callbacks' = callbacks \union {w}
      /\ stream' = "Ready" <=> stream = "Ready"
  BY DEF WriteMutations, FillWritePipeline, IsStarted, Started
<1>3. /\ user \in User /\ q \in Seq(WriteId) /\ Len(q) \in Nat
      /\ mutationQueue'[user] = Append(q, w)
      /\ \A u \in User \ {user} : mutationQueue'[u] = mutationQueue[u]
  BY <1>2 DEF StreamInv, TypeOK
<1>4. stream = "Ready" => Len(toClient) \in Nat /\ Len(toClient) <= Len(q)
  <2> SUFFICES ASSUME stream = "Ready"
               PROVE  Len(toClient) \in Nat /\ Len(toClient) <= Len(q)
    OBVIOUS
  <2>1. Len(toClient) \in Nat /\ Len(toServer) \in Nat
    BY DEF StreamInv, TypeOK
  <2>2. Answering(write_pipeline, toClient, toServer)
    BY DEF StreamInv, ChannelInv, ReadyInv
  <2>3. Len(toClient) + Len(toServer) = Len(write_pipeline)
    BY <2>2 DEF Answering
  <2>4. Len(write_pipeline) <= Len(q) /\ Len(write_pipeline) \in Nat
    BY PipelineFacts
  <2> QED BY <1>3, <2>1, <2>3, <2>4
<1>5. Queue'[user] = Append(Queue[user], record)
  <2>1. Queue[user] = [k \in 1 .. Len(q) |-> [id |-> q[k], status |-> Ruling(k)]]
    BY <1>1, <1>3 DEF QueueIs, WriteIn
  <2>2. Queue'[user] = [k \in 1 .. Len(q) + 1 |->
                           [id |-> Append(q, w)[k], status |-> Ruling(k)']]
    <3>1. Len(Append(q, w)) = Len(q) + 1
      BY <1>3
    <3> QED BY <1>1, <1>2, <1>3, <3>1 DEF QueueIs, WriteIn
  <2>3. \A k \in 1 .. Len(q) + 1 : Ruling(k)' = Ruling(k)
    BY <1>2 DEF Ruling
  <2>4. Ruling(Len(q) + 1) = "queued"
    BY <1>3, <1>4 DEF Ruling
  <2>5. /\ \A k \in 1 .. Len(q) : Append(q, w)[k] = q[k]
        /\ Append(q, w)[Len(q) + 1] = w
    BY <1>3
  <2> DEFINE a == Queue[user]
             b == Queue'[user]
             R(k) == Ruling(k)
             n == Len(q)
             new(k) == Append(q, w)[k]
  <2>6. /\ n \in Nat
        /\ a = [k \in 1 .. n |-> [id |-> q[k], status |-> R(k)]]
        /\ b = [k \in 1 .. n + 1 |-> [id |-> new(k), status |-> R(k)]]
        /\ \A k \in 1 .. n : new(k) = q[k]
        /\ new(n + 1) = w /\ R(n + 1) = "queued"
    BY <1>3, <2>1, <2>2, <2>3, <2>4, <2>5
  <2> HIDE DEF q, R, a, b, n, new, record
  <2> DEFINE W == {a[k] : k \in 1 .. n}
  <2>7. a \in Seq(W) /\ Len(a) = n
    BY <2>6
  <2>8. Append(a, record) = [k \in 1 .. n + 1 |-> IF k = n + 1 THEN record ELSE a[k]]
    <3>1. Append(a, record) \in Seq(W \union {record})
      BY <2>7
    <3> QED BY <2>6, <2>7, <3>1
  <2>9. ASSUME NEW k \in 1 .. n + 1
        PROVE  b[k] = IF k = n + 1 THEN record ELSE a[k]
    <3>1. CASE k = n + 1
      BY <2>6, <3>1 DEF record
    <3>2. CASE k # n + 1
      <4>1. k \in 1 .. n
        BY <2>6, <3>2
      <4> QED BY <2>6, <3>2, <4>1
    <3> QED BY <3>1, <3>2
  <2>10. b = [k \in 1 .. n + 1 |-> b[k]]
    BY <2>6
  <2>11. b = Append(a, record)
    BY <2>8, <2>9, <2>10
  <2> QED BY <2>11 DEF a, b
<1>6. \A u \in User : u # user => Queue'[u] = Queue[u]
  BY <1>1, <1>2, <1>3, OthersKept
<1>7. Queue' = [Queue EXCEPT ![user] = Append(Queue[user], record)]
  BY <1>1, <1>3, <1>5, <1>6, QueueChanges
<1>8. \A v \in Pending!WriteId : v < w <=> v \in Pending!Made
  <2>1. w \in Nat /\ MadeUpTo(w - 1)
    BY NextNumber DEF WriteMutations
  <2>2. \A v : v \in Pending!Made <=> v \in 1 .. w - 1
    BY <2>1 DEF MadeUpTo, Pending!Made, ToSet, Pending!ToSet
  <2>3. Pending!WriteId = WriteId
    BY DEF WriteId, Pending!WriteId
  <2>4. \A v \in WriteId : v \in Nat /\ v >= 1
    BY WritesAssumption DEF WriteId
  <2> QED BY <2>1, <2>2, <2>3, <2>4
<1> QED BY <1>2, <1>7, <1>8 DEF Pending!Make

\* A ruling of the server's is the next one in PendingWrites, too.
LEMMA RulingImplements ==
    ASSUME StreamInv, StreamInv', NEW w \in WriteId,
           CommitWrite(w) \/ RefuseWrite(w)
    PROVE  \E k \in DOMAIN Queue[user] : Pending!Commit(k) \/ Pending!Reject(k)
<1> DEFINE n == Len(toClient)
           m == Len(mutationQueue[user])
           q == mutationQueue[user]
           verdict == IF w \in Refused THEN "rejected" ELSE "committed"
           answer == IF w \in Refused THEN "error" ELSE "result"
<1>1. QueueIs /\ QueueIs'
  BY QueueRead, QueueReadNext
<1>2. /\ UNCHANGED <<user, mutationQueue, written, callbacks, told, stream>>
      /\ toClient' = Append(toClient, answer)
      /\ document' = IF w \in Refused THEN document
                     ELSE [document EXCEPT ![user] = w]
      /\ toServer # <<>> /\ Head(toServer) = w /\ ~ Contains(toClient, "error")
  BY DEF CommitWrite, RefuseWrite, Reads, clientVars
<1>3. /\ stream = "Ready" /\ n \in Nat /\ n + 1 \in 1 .. Len(write_pipeline)
      /\ write_pipeline[n + 1] = w
      /\ \A k \in 1 .. n : toClient[k] = "result"
  BY <1>2, ReadsNext
<1>4. user \in User /\ q \in Seq(WriteId) /\ m \in Nat
  BY DEF StreamInv, TypeOK
<1>5. n + 1 \in 1 .. m /\ q[n + 1] = w /\ n + 1 <= 10
  <2>1. \A k \in 1 .. Len(write_pipeline) :
           k \in 1 .. m /\ write_pipeline[k] = q[k]
    BY PipelineFacts
  <2>2. Len(write_pipeline) <= 10 /\ Len(write_pipeline) \in Nat
    BY PipelineFacts, MaxPendingIsNat
  <2> QED BY <1>3, <2>1, <2>2
<1>6. /\ toClient' = Append(toClient, answer) /\ Len(toClient') = n + 1
      /\ \A k \in 1 .. n : toClient'[k] = toClient[k]
      /\ toClient'[n + 1] = answer
  <2>1. toClient \in Seq({"handshake", "result", "error"})
    BY DEF StreamInv, TypeOK
  <2> QED BY <1>2, <2>1
<1>7. /\ \A k \in 1 .. m : Ruling(k) = IF k <= n THEN "committed" ELSE "queued"
      /\ \A k \in 1 .. m : Ruling(k)' = IF k <= n THEN "committed" ELSE
                                        IF k = n + 1 THEN verdict ELSE "queued"
  <2>1. ASSUME NEW k \in 1 .. m
        PROVE  Ruling(k) = IF k <= n THEN "committed" ELSE "queued"
    BY <1>3, <2>1 DEF Ruling
  <2>2. ASSUME NEW k \in 1 .. m
        PROVE  Ruling(k)' = IF k <= n THEN "committed" ELSE
                            IF k = n + 1 THEN verdict ELSE "queued"
    <3>1. Ruling(k)' = IF k <= n + 1
                       THEN IF toClient'[k] = "result" THEN "committed"
                            ELSE "rejected"
                       ELSE "queued"
      BY <1>2, <1>3, <1>6 DEF Ruling
    <3>2. CASE k <= n
      <4>1. k \in 1 .. n /\ k <= n + 1
        BY <1>3, <3>2
      <4> QED BY <1>3, <1>6, <3>1, <3>2, <4>1
    <3>3. CASE k = n + 1
      <4>1. ~ (n + 1 <= n) /\ n + 1 <= n + 1
        BY <1>3
      <4> QED BY <1>6, <3>1, <3>3, <4>1
    <3>4. CASE k > n + 1
      BY <1>3, <3>1, <3>4
    <3> QED BY <1>3, <3>2, <3>3, <3>4
  <2> QED BY <2>1, <2>2
<1>8. /\ Queue[user] = [k \in 1 .. m |-> [id |-> q[k], status |-> Ruling(k)]]
      /\ Queue'[user] = [k \in 1 .. m |-> [id |-> q[k], status |-> Ruling(k)']]
  BY <1>1, <1>2, <1>4 DEF QueueIs, WriteIn
<1> HIDE DEF n, m, q, verdict
<1>9. Pending!IsNext(Queue[user], n + 1)
  <2>1. DOMAIN Queue[user] = 1 .. m
    BY <1>8
  <2>2. Queue[user][n + 1].status = "queued"
    <3>1. Ruling(n + 1) = "queued"
      BY <1>3, <1>5, <1>7
    <3> QED BY <1>5, <1>8, <3>1
  <2>3. ASSUME NEW j \in 1 .. n
        PROVE  Queue[user][j].status = "committed"
    <3>1. j \in 1 .. m /\ j <= n
      BY <1>3, <1>4, <1>5
    <3> QED BY <1>7, <1>8, <3>1
  <2> DEFINE k == n + 1
  <2>4. /\ k \in DOMAIN Queue[user] /\ k <= 10 /\ Queue[user][k].status = "queued"
        /\ \A j \in 1 .. k - 1 : Queue[user][j].status = "committed"
    <3>1. k - 1 = n
      BY <1>3
    <3> QED BY <1>5, <2>1, <2>2, <2>3, <3>1
  <2> HIDE DEF k
  <2>5. Pending!IsNext(Queue[user], k)
    BY <2>4, Zenon DEF Pending!IsNext, Pending!kMaxPendingWrites
  <2> QED BY <2>5 DEF k
<1>10. Queue'[user] = Pending!Ruled(Queue[user], n + 1, verdict)
  <2> DEFINE a == Queue[user]
             b == Queue'[user]
             R(k) == Ruling(k)
             S(k) == Ruling(k)'
  <2>1. /\ a = [k \in 1 .. m |-> [id |-> q[k], status |-> R(k)]]
        /\ b = [k \in 1 .. m |-> [id |-> q[k], status |-> S(k)]]
        /\ \A k \in 1 .. m : R(k) = IF k <= n THEN "committed" ELSE "queued"
        /\ \A k \in 1 .. m : S(k) = IF k <= n THEN "committed" ELSE
                                    IF k = n + 1 THEN verdict ELSE "queued"
    BY <1>7, <1>8
  <2>2. Pending!Ruled(a, n + 1, verdict) = [a EXCEPT ![n + 1].status = verdict]
    BY Zenon DEF Pending!Ruled
  <2> HIDE DEF a, b, R, S
  <2>3. ASSUME NEW k \in 1 .. m
        PROVE  b[k] = IF k = n + 1 THEN [id |-> q[k], status |-> verdict] ELSE a[k]
    BY <1>3, <2>1
  <2>4. [a EXCEPT ![n + 1].status = verdict] =
           [k \in 1 .. m |->
               IF k = n + 1 THEN [id |-> q[k], status |-> verdict] ELSE a[k]]
    <3> DEFINE x == [id |-> q[n + 1], status |-> verdict]
    <3>1. [a[n + 1] EXCEPT !.status = verdict] = x
      BY <1>5, <2>1
    <3>2. [a EXCEPT ![n + 1].status = verdict] = [a EXCEPT ![n + 1] = x]
      BY <3>1
    <3> HIDE DEF x
    <3>3. [a EXCEPT ![n + 1] = x] = [k \in 1 .. m |-> IF k = n + 1 THEN x ELSE a[k]]
      BY <1>5, <2>1
    <3> QED BY <3>2, <3>3 DEF x
  <2>5. b = [k \in 1 .. m |-> b[k]]
    BY <2>1
  <2>6. b = [a EXCEPT ![n + 1].status = verdict]
    BY <2>3, <2>4, <2>5
  <2> QED BY <2>2, <2>6 DEF a, b
<1>11. \A u \in User : u # user => Queue'[u] = Queue[u]
  BY <1>1, <1>2, OthersKept
<1>12. Queue' = [Queue EXCEPT ![user] = Pending!Ruled(Queue[user], n + 1, verdict)]
  BY <1>1, <1>4, <1>10, <1>11, QueueChanges
<1>13. n + 1 \in DOMAIN Queue[user] /\ Queue[user][n + 1].id = w
  BY <1>5, <1>8
<1>14. CASE w \in Refused
  <2>1. Pending!Reject(n + 1)
    BY <1>2, <1>9, <1>12, <1>13, <1>14 DEF Pending!Reject, verdict
  <2> QED BY <1>13, <2>1
<1>15. CASE w \notin Refused
  <2>1. Pending!Commit(n + 1)
    BY <1>2, <1>9, <1>12, <1>13, <1>15 DEF Pending!Commit, verdict
  <2> QED BY <1>13, <2>1
<1> QED BY <1>14, <1>15

\* A stream that ends takes the rulings with it: everything is sent again.
LEMMA RestartImplements ==
    ASSUME StreamInv, StreamInv', NEW u \in User, user' = u, stream' # "Ready",
           UNCHANGED <<mutationQueue, written, told, document>>,
           callbacks' \subseteq callbacks
    PROVE  Pending!SendAgain(u, callbacks')
<1>1. QueueIs /\ QueueIs' /\ user \in User
  BY QueueRead, QueueReadNext DEF StreamInv, TypeOK
<1> DEFINE Unsent(v) == [k \in 1 .. Len(mutationQueue[v]) |->
                            [id |-> mutationQueue[v][k], status |-> "queued"]]
<1>2. \A v \in User : Queue'[v] = Unsent(v)
  BY <1>1 DEF QueueIs, WriteIn, Ruling
<1>3. \A v \in User : v # user => Queue[v] = Unsent(v)
  BY <1>1 DEF QueueIs, WriteIn
<1>4. Unsent(user) = Pending!Resent(Queue[user])
  <2> DEFINE a == Queue[user]
             m == Len(mutationQueue[user])
             name(k) == mutationQueue[user][k]
             R(k) == Ruling(k)
  <2>1. a = [k \in 1 .. m |-> [id |-> name(k), status |-> R(k)]]
    BY <1>1 DEF QueueIs, WriteIn
  <2>2. Pending!Resent(a) = [k \in DOMAIN a |-> [a[k] EXCEPT !.status = "queued"]]
    BY Zenon DEF Pending!Resent
  <2> HIDE DEF a, m, name, R
  <2>3. \A k \in 1 .. m : [a[k] EXCEPT !.status = "queued"]
                             = [id |-> name(k), status |-> "queued"]
    BY <2>1
  <2>4. DOMAIN a = 1 .. m
    BY <2>1
  <2>5. Pending!Resent(a) = [k \in 1 .. m |-> [id |-> name(k), status |-> "queued"]]
    BY <2>2, <2>3, <2>4
  <2> QED BY <2>5 DEF a, m, name
<1> HIDE DEF Unsent
<1>5. Queue' = [Queue EXCEPT ![user] = Pending!Resent(Queue[user])]
  BY <1>1, <1>2, <1>3, <1>4, QueueChanges
<1> QED BY <1>5 DEF Pending!SendAgain

\* The steps before the stream is ready are none of PendingWrites' business.
LEMMA StutterImplements ==
    ASSUME StreamInv, StreamInv', stream # "Ready",
           stream' # "Ready" \/ toClient' = <<>>,
           UNCHANGED <<user, mutationQueue, written, callbacks, told, document>>
    PROVE  UNCHANGED Pending!vars
<1>1. QueueIs /\ QueueIs'
  BY QueueRead, QueueReadNext
<1> DEFINE Unsent(v) == [k \in 1 .. Len(mutationQueue[v]) |->
                            [id |-> mutationQueue[v][k], status |-> "queued"]]
<1>2. \A v \in User : Queue'[v] = Unsent(v)
  <2>1. \A k \in Nat \ {0} : Ruling(k)' = "queued"
    BY DEF Ruling
  <2> QED BY <1>1, <2>1 DEF QueueIs, WriteIn
<1>3. \A v \in User : Queue[v] = Unsent(v)
  BY <1>1 DEF QueueIs, WriteIn, Ruling
<1> HIDE DEF Unsent
<1>4. Queue' = Queue
  <2>1. Queue = [u \in User |-> Queue[u]] /\ Queue' = [u \in User |-> Queue'[u]]
    BY <1>1, Zenon DEF QueueIs
  <2>2. Queue = [u \in User |-> Unsent(u)] /\ Queue' = [u \in User |-> Unsent(u)]
    BY <1>2, <1>3, <2>1
  <2> QED BY <2>2
<1> QED BY <1>4 DEF Pending!vars

\* The tail of a sequence, place by place.
LEMMA TailIs ==
    ASSUME NEW W, NEW a \in Seq(W), NEW m, m \in Nat, m >= 1, Len(a) = m
    PROVE  a # <<>> /\ Tail(a) = [k \in 1 .. m - 1 |-> a[k + 1]]
<1>1. a # <<>>
  OBVIOUS
<1>2. Tail(a) \in Seq(W) /\ Len(Tail(a)) = m - 1
  BY <1>1
<1>3. \A k \in 1 .. m - 1 : Tail(a)[k] = a[k + 1]
  BY <1>1
<1> DEFINE t == Tail(a)
<1> HIDE DEF t
<1>4. t \in [1 .. m - 1 -> W]
  <2>1. t \in Seq(W) /\ Len(t) = m - 1
    BY <1>2 DEF t
  <2> QED BY <2>1
<1>5. t = [k \in 1 .. m - 1 |-> t[k]]
  BY <1>4
<1>6. t = [k \in 1 .. m - 1 |-> a[k + 1]]
  BY <1>3, <1>5 DEF t
<1> QED BY <1>1, <1>6 DEF t

\* An answer settles the oldest write, as the server ruled on it.
LEMMA SettleImplements ==
    ASSUME StreamInv, StreamInv',
           OnWriteStreamMutationResult \/ HandleWriteError
    PROVE  Pending!Settle
<1> DEFINE q == mutationQueue[user]
           m == Len(mutationQueue[user])
           r == Head(toClient)
           w == Head(write_pipeline)
           verdict == IF r = "result" THEN "committed" ELSE "rejected"
           report == IF r = "result" THEN "success" ELSE "failure"
<1>1. QueueIs /\ QueueIs'
  BY QueueRead, QueueReadNext
<1>2. /\ toClient # <<>> /\ r \in {"result", "error"}
      /\ toClient' = IF r = "result" THEN Tail(toClient) ELSE <<>>
      /\ NotifyUser(w, report) /\ RemoveMutationBatch(w)
      /\ UNCHANGED <<user, written, document>>
  BY DEF OnWriteStreamMutationResult, HandleWriteError
<1>3. /\ stream = "Ready" /\ Answering(write_pipeline, toClient, toServer)
      /\ q # <<>> /\ w = q[1]
  BY <1>2, AnswerIsAboutFront DEF ReadyInv
<1>4. /\ user \in User /\ q \in Seq(WriteId) /\ m \in Nat /\ m >= 1
      /\ toClient \in Seq({"handshake", "result", "error"})
      /\ Len(toClient) \in Nat /\ Len(toClient) >= 1 /\ r = toClient[1]
  BY <1>2, <1>3 DEF StreamInv, TypeOK
<1>5. /\ mutationQueue'[user] = Tail(q)
      /\ \A u \in User : u # user => mutationQueue'[u] = mutationQueue[u]
  <2>1. report \in Report
    BY DEF Report
  <2> QED BY <1>2, <2>1, FrontSettled
<1>6. stream' = "Ready" \/ toClient' = <<>>
  <2>1. CASE OnWriteStreamMutationResult
    <3>1. IsStarted(stream)
      BY <1>3 DEF IsStarted
    <3>2. stream' = stream
      BY <2>1, <3>1, Zenon DEF OnWriteStreamMutationResult, FillWritePipeline
    <3> QED BY <1>3, <3>2
  <2>2. CASE HandleWriteError
    BY <2>2, Zenon DEF HandleWriteError
  <2> QED BY <2>1, <2>2
<1>7. r = "error" => Len(toClient) = 1
  <2>1. 1 \in 1 .. Len(toClient)
    BY <1>4
  <2>2. toClient[1] = "error" => 1 = Len(toClient)
    BY <1>3, <2>1 DEF Answering
  <2> QED BY <1>4, <2>2
<1>8. \A k \in 1 .. m - 1 : Ruling(k)' = Ruling(k + 1)
  <2> SUFFICES ASSUME NEW k \in 1 .. m - 1 PROVE Ruling(k)' = Ruling(k + 1)
    OBVIOUS
  <2>1. CASE r = "result"
    <3> DEFINE c == Tail(toClient)
               n == Len(toClient)
    <3>1. /\ Len(c) = n - 1 /\ \A j \in 1 .. n - 1 : c[j] = toClient[j + 1]
          /\ toClient' = c /\ n \in Nat
      BY <1>2, <1>4, <2>1
    <3> HIDE DEF c
    <3>3. k <= n - 1 <=> k + 1 <= n
      BY <3>1
    <3>4. k <= n - 1 => k \in 1 .. n - 1
      BY <3>1
    <3>5. k <= n - 1 => stream' = "Ready"
      <4>1. k <= n - 1 => Len(c) # 0
        BY <3>1
      <4> QED BY <1>6, <3>1, <4>1
    <3>6. Ruling(k)' = IF k <= n - 1
                       THEN IF c[k] = "result" THEN "committed" ELSE "rejected"
                       ELSE "queued"
      BY <3>1, <3>5 DEF Ruling
    <3>7. Ruling(k + 1) = IF k + 1 <= n
                          THEN IF toClient[k + 1] = "result" THEN "committed"
                               ELSE "rejected"
                          ELSE "queued"
      BY <1>3 DEF Ruling
    <3> QED BY <3>1, <3>3, <3>4, <3>6, <3>7
  <2>2. CASE r # "result"
    <3>1. toClient' = <<>> /\ Len(toClient) = 1
      BY <1>2, <1>7, <2>2
    <3>2. ~ (k <= 0) /\ ~ (k + 1 <= 1)
      OBVIOUS
    <3> QED BY <3>1, <3>2 DEF Ruling
  <2> QED BY <2>1, <2>2
<1>9. Ruling(1) = verdict
  BY <1>3, <1>4 DEF Ruling
<1>10. /\ Queue[user] = [k \in 1 .. m |-> [id |-> q[k], status |-> Ruling(k)]]
       /\ Queue'[user] = [k \in 1 .. m - 1 |->
                             [id |-> Tail(q)[k], status |-> Ruling(k)']]
  <2>1. Len(Tail(q)) = m - 1
    BY <1>3, <1>4
  <2>2. Queue[user] = [k \in 1 .. m |-> [id |-> q[k], status |-> Ruling(k)]]
    BY <1>1, <1>4 DEF QueueIs, WriteIn
  <2>3. Queue'[user] = [k \in 1 .. Len(mutationQueue'[user]) |->
                           [id |-> mutationQueue'[user][k], status |-> Ruling(k)']]
    BY <1>1, <1>2, <1>4 DEF QueueIs, WriteIn
  <2> HIDE DEF q, m
  <2>4. Queue'[user] = [k \in 1 .. m - 1 |->
                           [id |-> Tail(q)[k], status |-> Ruling(k)']]
    BY <1>5, <2>1, <2>3, Zenon
  <2> QED BY <2>2, <2>4
<1>11. Queue'[user] = Tail(Queue[user])
  <2> DEFINE a == Queue[user]
             b == Queue'[user]
             R(k) == Ruling(k)
             t == Tail(q)
  <2>1. /\ a = [k \in 1 .. m |-> [id |-> q[k], status |-> R(k)]]
        /\ b = [k \in 1 .. m - 1 |-> [id |-> t[k], status |-> R(k + 1)]]
        /\ \A k \in 1 .. m - 1 : t[k] = q[k + 1]
        /\ m \in Nat /\ m >= 1
    BY <1>3, <1>4, <1>8, <1>10
  <2> HIDE DEF a, b, R, q, t, m
  <2> DEFINE W == {a[k] : k \in 1 .. m}
  <2>2. a # <<>> /\ Tail(a) = [k \in 1 .. m - 1 |-> a[k + 1]]
    <3>1. a = [k \in 1 .. m |-> a[k]]
      BY <2>1
    <3>2. \A k \in 1 .. m : a[k] \in W
      OBVIOUS
    <3> HIDE DEF W
    <3>3. a \in Seq(W) /\ Len(a) = m
      <4>1. a \in [1 .. m -> W]
        BY <3>1, <3>2
      <4> QED BY <2>1, <4>1
    <3>4. a # <<>> /\ Tail(a) = [k \in 1 .. m - 1 |-> a[k + 1]]
      <4>1. m \in Nat /\ m >= 1
        BY <2>1
      <4> QED BY <3>3, <4>1, TailIs, Zenon
    <3> QED BY <3>3, <3>4
  <2>3. Tail(a) = [k \in 1 .. m - 1 |-> a[k + 1]]
    BY <2>2
  <2>4. \A k \in 1 .. m - 1 : b[k] = a[k + 1]
    <3> SUFFICES ASSUME NEW k \in 1 .. m - 1 PROVE b[k] = a[k + 1]
      OBVIOUS
    <3>1. k + 1 \in 1 .. m
      BY <2>1
    <3>2. a[k + 1] = [id |-> q[k + 1], status |-> R(k + 1)]
      BY <2>1, <3>1, Zenon
    <3>3. b[k] = [id |-> t[k], status |-> R(k + 1)]
      BY <2>1, Zenon
    <3> QED BY <2>1, <3>2, <3>3
  <2>5. b = [k \in 1 .. m - 1 |-> b[k]]
    BY <2>1
  <2> QED BY <2>3, <2>4, <2>5 DEF a, b
<1>12. \A u \in User : u # user => Queue'[u] = Queue[u]
  BY <1>1, <1>2, <1>5, OthersKept
<1>13. Queue' = [Queue EXCEPT ![user] = Tail(Queue[user])]
  BY <1>1, <1>4, <1>11, <1>12, QueueChanges
<1>14. /\ Queue[user] # <<>> /\ Head(Queue[user]).id = w
       /\ Head(Queue[user]).status = verdict
  <2> DEFINE a == Queue[user]
             first == [id |-> w, status |-> verdict]
  <2>1. a = [k \in 1 .. m |-> a[k]] /\ a[1] = first
    BY <1>3, <1>4, <1>9, <1>10
  <2> HIDE DEF a, first, m
  <2>2. a # <<>> /\ Head(a) = first
    BY <1>4, <2>1
  <2> QED BY <2>2 DEF a, first
<1>15. Pending!HasResult(Queue[user])
  BY <1>14 DEF Pending!HasResult
<1>16. Pending!Report(verdict) = report
  BY DEF Pending!Report
<1> HIDE DEF w, verdict, report
<1> QED BY <1>2, <1>13, <1>14, <1>15, <1>16 DEF Pending!Settle, NotifyUser
------------------------------------------------------------------------------
(* The refinement.                                                         *)

LEMMA StepImplements ==
    ASSUME StreamInv, StreamInv', [Next]_vars
    PROVE  [Pending!Next]_(Pending!vars)
<1>1. user \in User
  BY DEF StreamInv, TypeOK
<1>2. ASSUME NEW w \in WriteId, WriteMutations(w)
      PROVE  Pending!Next
  BY <1>2, MakeImplements, Zenon DEF Pending!Next, WriteId, Pending!WriteId
<1>3. ASSUME NEW w \in WriteId, CommitWrite(w) \/ RefuseWrite(w)
      PROVE  Pending!Next
  BY <1>3, RulingImplements, Zenon DEF Pending!Next
<1>4. CASE AcceptHandshake
  <2>1. stream # "Ready"
    BY <1>4, HandshakeIsFirst, Zenon DEF AcceptHandshake
  <2> QED BY <1>4, <2>1, StutterImplements DEF AcceptHandshake, clientVars
<1>5. CASE BackoffElapses
  BY <1>5, StutterImplements DEF BackoffElapses, channels
<1>6. CASE OnWriteStreamOpen
  BY <1>6, StutterImplements DEF OnWriteStreamOpen
<1>7. CASE OnWriteStreamHandshakeComplete
  <2>1. stream # "Ready" /\ toClient' = <<>>
    <3>1. toClient # <<>> /\ Head(toClient) = "handshake"
      BY <1>7, Zenon DEF OnWriteStreamHandshakeComplete
    <3>2. stream # "Ready"
      BY <3>1, HandshakeIsFirst, Zenon
    <3>3. toClient = <<"handshake">>
      BY <3>1, <3>2 DEF StreamInv, ChannelInv
    <3>4. Tail(<<"handshake">>) = <<>>
      OBVIOUS
    <3>5. toClient' = Tail(toClient)
      BY <1>7, Zenon DEF OnWriteStreamHandshakeComplete
    <3> QED BY <3>2, <3>3, <3>4, <3>5
  <2>2. UNCHANGED <<user, mutationQueue, written, callbacks, told, document>>
    BY <1>7, Zenon DEF OnWriteStreamHandshakeComplete
  <2> QED BY <2>1, <2>2, StutterImplements
<1>8. CASE OnWriteStreamMutationResult \/ HandleWriteError
  BY <1>8, SettleImplements, Zenon DEF Pending!Next
<1>9. CASE OnWriteStreamClose
  BY <1>1, <1>9, RestartImplements DEF OnWriteStreamClose, Pending!Next
<1>10. CASE IdleTimeout
  BY <1>1, <1>10, RestartImplements DEF IdleTimeout, Pending!Next
<1>11. ASSUME NEW u \in User, HandleCredentialChange(u)
       PROVE  Pending!Next
  <2>1. stream' # "Ready"
    BY <1>11 DEF HandleCredentialChange, RestartNetwork, FillWritePipeline,
                 IsStarted, Started
  <2>2. /\ user' = u /\ callbacks' = callbacks
        /\ UNCHANGED <<mutationQueue, written, told, document>>
    BY <1>11 DEF HandleCredentialChange, RestartNetwork
  <2>3. Pending!SendAgain(u, callbacks')
    BY <2>1, <2>2, RestartImplements
  <2> QED BY <2>2, <2>3, Zenon DEF Pending!Next
<1>12. CASE Relaunch
  <2>1. stream' # "Ready"
    BY <1>12 DEF Relaunch, RestartNetwork, FillWritePipeline, IsStarted, Started
  <2>2. /\ user' = user /\ callbacks' = {}
        /\ UNCHANGED <<mutationQueue, written, told, document>>
    BY <1>12 DEF Relaunch, RestartNetwork
  <2>3. Pending!SendAgain(user, callbacks')
    BY <1>1, <2>1, <2>2, RestartImplements
  <2> QED BY <1>1, <2>2, <2>3, Zenon DEF Pending!Next
<1>13. CASE UNCHANGED vars
  <2>1. Queue' = Queue
    BY <1>13 DEF vars, clientVars, channels, Queue, StatusOf, Results
  <2> QED BY <1>13, <2>1 DEF vars, Pending!vars
<1> QED
  BY <1>2, <1>3, <1>4, <1>5, <1>6, <1>7, <1>8, <1>9, <1>10, <1>11, <1>12, <1>13,
     Zenon DEF Next

\* For any users, writes and rules, and a pipeline of at most ten: whatever the
\* stream does, breaking, backing off, stopping when idle, restarting for
\* another user or with the app, the writes fare as PendingWrites says.
THEOREM PromiseKept == Spec => KeepsPromise
<1>1. Init => Pending!Init
  BY InitImplements
<1>2. StreamInv /\ StreamInv' /\ [Next]_vars => [Pending!Next]_(Pending!vars)
  BY StepImplements
<1> QED
  BY <1>1, <1>2, StreamInvariant, PTL DEF Spec, Pending!Spec, KeepsPromise
------------------------------------------------------------------------------
(* What PendingWrites promises.  Here the queue of the mapping is opaque:  *)
(* the argument is about PendingWrites alone.                              *)

Waiting == Seq(Pending!Write)

\* The writes waiting are the last ones made, in the order they were made.
WaitsInOrder(q, all) ==
    /\ Len(q) <= Len(all)
    /\ Increasing(all)
    /\ \A k \in 1 .. Len(q) : q[k].id = all[Len(all) - Len(q) + k]

\* The server has ruled on them in order, as its rules say, and the document
\* is no older than the last write committed.
RuledInOrder(q, d) ==
    \A k \in 1 .. Len(q) :
        /\ q[k].status = "committed" =>
              /\ q[k].id \notin Refused /\ q[k].id <= d
              /\ \A j \in 1 .. k - 1 : q[j].status = "committed"
        /\ q[k].status = "rejected" => q[k].id \in Refused

\* The document holds an allowed write, and none of those no longer waiting is
\* newer.
DocumentStands(q, all, d) ==
    /\ d = 0 \/ (d \notin Refused /\ \E j \in 1 .. Len(all) : all[j] = d)
    /\ \A j \in 1 .. Len(all) - Len(q) : all[j] \notin Refused => all[j] <= d

Fares(q, all, d) ==
    WaitsInOrder(q, all) /\ RuledInOrder(q, d) /\ DocumentStands(q, all, d)

LEMMA WaitingRead ==
    ASSUME NEW q \in Waiting
    PROVE  /\ Len(q) \in Nat /\ DOMAIN q = 1 .. Len(q)
           /\ \A k \in 1 .. Len(q) :
                 /\ q[k] \in Pending!Write /\ q[k].id \in WriteId
                 /\ q[k].id \in Nat
                 /\ q[k].status \in {"queued", "committed", "rejected"}
<1>1. Len(q) \in Nat /\ DOMAIN q = 1 .. Len(q)
      /\ \A k \in 1 .. Len(q) : q[k] \in Pending!Write
  BY DEF Waiting
<1>2. ASSUME NEW k \in 1 .. Len(q)
      PROVE  /\ q[k].id \in WriteId
             /\ q[k].status \in {"queued", "committed", "rejected"}
  BY <1>1 DEF Pending!Write, Pending!WriteId, WriteId, Pending!Status
<1>3. \A w \in WriteId : w \in Nat
  BY WriteIdIsNat
<1> QED BY <1>1, <1>2, <1>3

LEMMA WrittenRead ==
    ASSUME NEW all \in Seq(WriteId)
    PROVE  /\ Len(all) \in Nat /\ DOMAIN all = 1 .. Len(all)
           /\ \A k \in 1 .. Len(all) : all[k] \in Nat /\ all[k] # 0
<1>1. \A k \in 1 .. Len(all) : all[k] \in WriteId
  OBVIOUS
<1>2. \A w \in WriteId : w \in Nat /\ w # 0
  BY WritesAssumption DEF WriteId
<1> QED BY <1>1, <1>2

LEMMA MakeFares ==
    ASSUME NEW q \in Waiting, NEW all \in Seq(WriteId), NEW d \in Nat,
           Fares(q, all, d), NEW w \in WriteId,
           \A j \in 1 .. Len(all) : all[j] < w
    PROVE  /\ Append(q, [id |-> w, status |-> "queued"]) \in Waiting
           /\ Append(all, w) \in Seq(WriteId)
           /\ Fares(Append(q, [id |-> w, status |-> "queued"]), Append(all, w), d)
<1> DEFINE new == [id |-> w, status |-> "queued"]
           b == Append(q, new)
           c == Append(all, w)
           n == Len(q)
           m == Len(all)
<1>1. /\ new \in Pending!Write /\ new.id = w /\ new.status = "queued"
  BY DEF Pending!Write, Pending!WriteId, WriteId, Pending!Status
<1> HIDE DEF new
<1>2. /\ b \in Waiting /\ Len(b) = n + 1 /\ b[n + 1] = new
      /\ \A k \in 1 .. n : b[k] = q[k]
  BY <1>1 DEF Waiting
<1>3. /\ c \in Seq(WriteId) /\ Len(c) = m + 1 /\ c[m + 1] = w
      /\ \A k \in 1 .. m : c[k] = all[k]
  OBVIOUS
<1>4. n \in Nat /\ m \in Nat /\ n <= m /\ m + 1 - (n + 1) = m - n
  BY WaitingRead, WrittenRead DEF Fares, WaitsInOrder
<1> HIDE DEF b, c, n, m
<1>5. WaitsInOrder(b, c)
  <2>1. Increasing(c)
    <3>1. \A j, k \in 1 .. m : j < k => all[j] < all[k]
      BY WrittenRead DEF Fares, WaitsInOrder, Increasing, m
    <3>2. DOMAIN c = 1 .. m + 1
      BY <1>3, WrittenRead
    <3>3. \A j \in 1 .. m : all[j] < w
      BY DEF m
    <3> QED BY <1>3, <1>4, <3>1, <3>2, <3>3 DEF Increasing
  <2>2. ASSUME NEW k \in 1 .. n + 1
        PROVE  b[k].id = c[m - n + k]
    <3>1. CASE k = n + 1
      <4>1. m - n + k = m + 1
        BY <1>4, <3>1
      <4> QED BY <1>1, <1>2, <1>3, <3>1, <4>1
    <3>2. CASE k # n + 1
      <4>1. k \in 1 .. n /\ m - n + k \in 1 .. m
        BY <1>4, <3>2
      <4>2. q[k].id = all[m - n + k]
        BY <4>1 DEF Fares, WaitsInOrder, m, n
      <4> QED BY <1>2, <1>3, <4>1, <4>2
    <3> QED BY <3>1, <3>2
  <2> QED BY <1>2, <1>3, <1>4, <2>1, <2>2 DEF WaitsInOrder
<1>6. RuledInOrder(b, d)
  <2>1. \A k \in 1 .. n : /\ b[k] = q[k]
                          /\ \A j \in 1 .. k - 1 : b[j] = q[j]
    BY <1>2, <1>4
  <2>2. \A k \in 1 .. n + 1 : k \in 1 .. n \/ b[k].status = "queued"
    BY <1>1, <1>2, <1>4
  <2> QED BY <1>2, <2>1, <2>2 DEF Fares, RuledInOrder, n
<1>7. DocumentStands(b, c, d)
  <2>1. d = 0 \/ (d \notin Refused /\ \E j \in 1 .. m : all[j] = d)
    BY DEF Fares, DocumentStands, m
  <2>2. \A j \in 1 .. m - n : all[j] \notin Refused => all[j] <= d
    BY DEF Fares, DocumentStands, m, n
  <2>3. \A j \in 1 .. m : j \in 1 .. m + 1
    BY <1>4
  <2>4. \A j \in 1 .. m - n : j \in 1 .. m
    BY <1>4
  <2> QED BY <1>2, <1>3, <1>4, <2>1, <2>2, <2>3, <2>4 DEF DocumentStands
<1> QED BY <1>2, <1>3, <1>5, <1>6, <1>7 DEF Fares, b, c, new

\* Ruling keeps the writes and their order.
LEMMA RulingFares ==
    ASSUME NEW q \in Waiting, NEW all \in Seq(WriteId), NEW d \in Nat,
           Fares(q, all, d), NEW k \in DOMAIN q, Pending!IsNext(q, k),
           NEW st \in {"committed", "rejected"},
           st = "committed" <=> q[k].id \notin Refused
    PROVE  LET after == IF st = "committed" THEN q[k].id ELSE d IN
           /\ after \in Nat
           /\ Pending!Ruled(q, k, st) \in Waiting
           /\ Fares(Pending!Ruled(q, k, st), all, after)
<1> DEFINE b == Pending!Ruled(q, k, st)
           after == IF st = "committed" THEN q[k].id ELSE d
           n == Len(q)
           m == Len(all)
<1>1. /\ n \in Nat /\ DOMAIN q = 1 .. n /\ k \in 1 .. n
      /\ \A j \in 1 .. n : q[j] \in Pending!Write /\ q[j].id \in Nat
      /\ m \in Nat /\ \A j \in 1 .. m : all[j] \in Nat
  BY WaitingRead, WrittenRead
<1>2. /\ b \in Waiting /\ Len(b) = n
      /\ b[k].id = q[k].id /\ b[k].status = st
      /\ \A j \in 1 .. n : j # k => b[j] = q[j]
  <2>1. b = Ruled(q, k, st)
    BY DEF Pending!Ruled, Ruled
  <2>2. [q[k] EXCEPT !.status = st] \in Pending!Write
    BY <1>1 DEF Pending!Write, Pending!Status
  <2>3. /\ Ruled(q, k, st) \in Waiting
        /\ DOMAIN Ruled(q, k, st) = DOMAIN q
        /\ Ruled(q, k, st)[k] = [q[k] EXCEPT !.status = st]
        /\ \A j \in DOMAIN q : j # k => Ruled(q, k, st)[j] = q[j]
    BY <2>2, RuledProperties DEF Waiting
  <2> HIDE DEF b
  <2>4. Len(b) = n
    BY <1>1, <2>1, <2>3, WaitingRead
  <2>5. b[k] = [q[k] EXCEPT !.status = st] /\ q[k] \in Pending!Write
    BY <1>1, <2>1, <2>3
  <2>6. b[k].id = q[k].id /\ b[k].status = st
    BY <2>5 DEF Pending!Write
  <2> QED BY <1>1, <2>1, <2>3, <2>4, <2>6
<1>3. \A j \in 1 .. n : b[j].id = q[j].id
  BY <1>2
<1>4. /\ q[k].status = "queued"
      /\ \A j \in 1 .. k - 1 : j \in 1 .. n /\ q[j].status = "committed"
  BY <1>1 DEF Pending!IsNext
<1>5. /\ n <= m /\ \A i, j \in 1 .. m : i < j => all[i] < all[j]
      /\ \A j \in 1 .. n : q[j].id = all[m - n + j]
  BY WrittenRead DEF Fares, WaitsInOrder, Increasing
<1>6. /\ d = 0 \/ (d \notin Refused /\ \E j \in 1 .. m : all[j] = d)
      /\ \A j \in 1 .. m - n : all[j] \notin Refused => all[j] <= d
  BY DEF Fares, DocumentStands
<1>7. /\ \A j \in 1 .. n : q[j].status = "committed" =>
             /\ q[j].id \notin Refused /\ q[j].id <= d
             /\ \A i \in 1 .. j - 1 : q[i].status = "committed"
      /\ \A j \in 1 .. n : q[j].status = "rejected" => q[j].id \in Refused
  BY DEF Fares, RuledInOrder
<1> HIDE DEF b, n, m
<1>8. \A j \in 1 .. n : q[j].status = "committed" => j < k
  <2> SUFFICES ASSUME NEW j \in 1 .. n, q[j].status = "committed", ~ (j < k)
               PROVE  FALSE
    OBVIOUS
  <2>1. CASE j = k
    BY <1>4, <2>1
  <2>2. CASE j # k
    <3>1. k \in 1 .. j - 1
      BY <1>1, <2>2
    <3> QED BY <1>4, <1>7, <3>1
  <2> QED BY <2>1, <2>2
<1>9. after \in Nat
  BY <1>1
<1>10. \A j \in 1 .. m - n + k : all[j] \in Nat /\ all[j] <= q[k].id
  <2>1. m - n + k \in 1 .. m /\ q[k].id = all[m - n + k]
    BY <1>1, <1>5
  <2>2. ASSUME NEW j \in 1 .. m - n + k
        PROVE  j \in 1 .. m /\ (j = m - n + k \/ j < m - n + k)
    <3>1. m \in Nat /\ n \in Nat /\ k \in 1 .. n /\ n <= m
      BY <1>1, <1>5
    <3> QED BY <3>1
  <2> QED BY <1>1, <1>5, <2>1, <2>2
<1>11. \A j \in 1 .. n : j <= k => q[j].id <= q[k].id
  <2> SUFFICES ASSUME NEW j \in 1 .. n, j <= k PROVE q[j].id <= q[k].id
    OBVIOUS
  <2>1. m - n + j \in 1 .. m - n + k
    BY <1>1, <1>5
  <2> QED BY <1>5, <1>10, <2>1
<1>12. WaitsInOrder(b, all)
  BY <1>2, <1>3, WrittenRead DEF Fares, WaitsInOrder, n, m
<1>13. RuledInOrder(b, after)
  <2> SUFFICES ASSUME NEW j \in 1 .. n
               PROVE  /\ b[j].status = "committed" =>
                            /\ b[j].id \notin Refused /\ b[j].id <= after
                            /\ \A i \in 1 .. j - 1 : b[i].status = "committed"
                      /\ b[j].status = "rejected" => b[j].id \in Refused
    BY <1>2 DEF RuledInOrder
  <2>1. CASE j = k
    <3>1. \A i \in 1 .. j - 1 : i \in 1 .. n /\ i # k
      BY <1>1, <2>1
    <3>2. \A i \in 1 .. j - 1 : b[i].status = "committed"
      BY <1>2, <1>4, <2>1, <3>1
    <3> QED BY <1>1, <1>2, <2>1, <3>2
  <2>2. CASE j # k
    <3>1. b[j] = q[j]
      BY <1>2, <2>2
    <3>2. ASSUME b[j].status = "committed"
          PROVE  /\ b[j].id \notin Refused /\ b[j].id <= after
                 /\ \A i \in 1 .. j - 1 : b[i].status = "committed"
      <4>1. q[j].status = "committed" /\ j < k
        BY <1>8, <3>1, <3>2
      <4>2. q[j].id <= after
        BY <1>1, <1>7, <1>11, <4>1
      <4>3. \A i \in 1 .. j - 1 : i \in 1 .. n /\ i # k
        BY <1>1, <4>1
      <4> QED BY <1>2, <1>7, <3>1, <4>1, <4>2, <4>3
    <3> QED BY <1>7, <3>1, <3>2
  <2> QED BY <2>1, <2>2
<1>14. DocumentStands(b, all, after)
  <2>1. CASE st = "committed"
    <3>1. m - n + k \in 1 .. m /\ all[m - n + k] = after
      BY <1>1, <1>5, <2>1
    <3>2. \A j \in 1 .. m - n : j \in 1 .. m - n + k
      BY <1>1, <1>5
    <3> QED BY <1>2, <1>10, <2>1, <3>1, <3>2 DEF DocumentStands, m
  <2>2. CASE st # "committed"
    BY <1>2, <1>6, <2>2 DEF DocumentStands, m
  <2> QED BY <2>1, <2>2
<1> QED BY <1>2, <1>9, <1>12, <1>13, <1>14 DEF Fares, b

\* Nor is anything lost when everything is sent again.
LEMMA ResendFares ==
    ASSUME NEW q \in Waiting, NEW all \in Seq(WriteId), NEW d \in Nat,
           Fares(q, all, d)
    PROVE  /\ Pending!Resent(q) \in Waiting
           /\ Fares(Pending!Resent(q), all, d)
           /\ \A w : (\E k \in DOMAIN q : q[k].id = w) =>
                        \E k \in DOMAIN Pending!Resent(q) :
                            Pending!Resent(q)[k].id = w
<1> DEFINE b == Pending!Resent(q)
           n == Len(q)
<1>1. /\ n \in Nat /\ DOMAIN q = 1 .. n
      /\ \A j \in 1 .. n : q[j] \in Pending!Write
  BY WaitingRead
<1>2. /\ b \in Waiting /\ DOMAIN b = DOMAIN q
      /\ \A j \in DOMAIN q : b[j] = [q[j] EXCEPT !.status = "queued"]
  <2>1. b = Resent(q)
    BY DEF Pending!Resent, Resent
  <2>2. \A w \in Pending!Write : [w EXCEPT !.status = "queued"] \in Pending!Write
    BY DEF Pending!Write, Pending!Status
  <2>3. q \in Seq(Pending!Write)
    BY DEF Waiting
  <2>4. /\ Resent(q) \in Seq(Pending!Write)
        /\ DOMAIN Resent(q) = DOMAIN q
        /\ \A k \in DOMAIN q : Resent(q)[k] = [q[k] EXCEPT !.status = "queued"]
    BY <2>2, <2>3, ResentProperties, Zenon
  <2> QED BY <2>1, <2>4, Zenon DEF Waiting
<1> HIDE DEF b
<1>3. Len(b) = n /\ \A j \in 1 .. n : b[j].id = q[j].id /\ b[j].status = "queued"
  <2>1. Len(b) = n
    BY <1>1, <1>2, WaitingRead
  <2>2. \A j \in 1 .. n : /\ q[j] \in Pending!Write
                          /\ b[j] = [q[j] EXCEPT !.status = "queued"]
    BY <1>1, <1>2
  <2> QED BY <2>1, <2>2 DEF Pending!Write
<1> HIDE DEF n
<1>4. Fares(b, all, d)
  BY <1>3 DEF n, Fares, WaitsInOrder, RuledInOrder, DocumentStands
<1> QED BY <1>1, <1>2, <1>3, <1>4 DEF b

\* A write that leaves the queue has been committed or refused.
LEMMA SettleFares ==
    ASSUME NEW q \in Waiting, NEW all \in Seq(WriteId), NEW d \in Nat,
           Fares(q, all, d), Pending!HasResult(q)
    PROVE  /\ Tail(q) \in Waiting
           /\ Fares(Tail(q), all, d)
           /\ Head(q).id \in WriteId
           /\ IF Head(q).status = "committed" THEN Head(q).id \notin Refused
              ELSE Head(q).id \in Refused
           /\ \E j \in 1 .. Len(all) : all[j] = Head(q).id
           /\ \A w : (\E k \in DOMAIN q : q[k].id = w) /\ w # Head(q).id =>
                        \E k \in DOMAIN Tail(q) : Tail(q)[k].id = w
<1> DEFINE b == Tail(q)
           n == Len(q)
           m == Len(all)
<1>1. /\ n \in Nat /\ n >= 1 /\ m \in Nat /\ Head(q) = q[1] /\ DOMAIN q = 1 .. n
      /\ q[1].status # "queued"
  BY WaitingRead, WrittenRead DEF Pending!HasResult, Waiting
<1>2. /\ b \in Waiting /\ Len(b) = n - 1
      /\ \A k \in 1 .. n - 1 : b[k] = q[k + 1]
  BY <1>1 DEF Pending!HasResult, Waiting
<1>3. /\ n <= m /\ \A j \in 1 .. n : q[j].id = all[m - n + j]
      /\ Increasing(all)
  BY DEF Fares, WaitsInOrder
<1>4. /\ d = 0 \/ (d \notin Refused /\ \E j \in 1 .. m : all[j] = d)
      /\ \A j \in 1 .. m - n : all[j] \notin Refused => all[j] <= d
  BY DEF Fares, DocumentStands
<1>5. \A j \in 1 .. n :
          /\ q[j].status = "committed" =>
             /\ q[j].id \notin Refused /\ q[j].id <= d
             /\ \A i \in 1 .. j - 1 : q[i].status = "committed"
          /\ q[j].status = "rejected" => q[j].id \in Refused
  BY DEF Fares, RuledInOrder
<1>6. /\ q[1].id \in WriteId /\ q[1].status \in {"committed", "rejected"}
      /\ q[1].status = "committed" => q[1].id \notin Refused /\ q[1].id <= d
      /\ q[1].status = "rejected" => q[1].id \in Refused
  <2>1. 1 \in 1 .. n
    BY <1>1
  <2> QED BY <1>1, <1>5, <2>1, WaitingRead
<1> HIDE DEF b, n, m
<1>7. m - (n - 1) = m - n + 1 /\ m - n + 1 \in 1 .. m /\ q[1].id = all[m - n + 1]
  BY <1>1, <1>3
<1>8. WaitsInOrder(b, all)
  <2>1. ASSUME NEW k \in 1 .. n - 1
        PROVE  b[k].id = all[m - (n - 1) + k]
    <3>1. k + 1 \in 1 .. n /\ m - n + (k + 1) = m - (n - 1) + k
      BY <1>1
    <3> QED BY <1>2, <1>3, <3>1
  <2>2. n - 1 <= m
    BY <1>1, <1>3
  <2> QED BY <1>2, <1>3, <2>1, <2>2 DEF WaitsInOrder, m
<1>9. RuledInOrder(b, d)
  <2> SUFFICES ASSUME NEW k \in 1 .. n - 1
               PROVE  /\ b[k].status = "committed" =>
                            /\ b[k].id \notin Refused /\ b[k].id <= d
                            /\ \A i \in 1 .. k - 1 : b[i].status = "committed"
                      /\ b[k].status = "rejected" => b[k].id \in Refused
    BY <1>2 DEF RuledInOrder
  <2>1. k + 1 \in 1 .. n /\ b[k] = q[k + 1]
    BY <1>1, <1>2
  <2>2. \A i \in 1 .. k - 1 : /\ i + 1 \in 1 .. (k + 1) - 1
                              /\ b[i] = q[i + 1]
    BY <1>1, <1>2
  <2> QED BY <1>5, <2>1, <2>2
<1>10. DocumentStands(b, all, d)
  <2>1. ASSUME NEW j \in 1 .. m - (n - 1), all[j] \notin Refused
        PROVE  all[j] <= d
    <3>1. j \in 1 .. m - n \/ j = m - n + 1
      BY <1>1, <1>7
    <3> QED BY <1>4, <1>6, <1>7, <2>1, <3>1
  <2> QED BY <1>2, <1>4, <2>1 DEF DocumentStands, m
<1>11. ASSUME NEW w, NEW k \in DOMAIN q, q[k].id = w, w # q[1].id
       PROVE  \E i \in DOMAIN b : b[i].id = w
  <2>1. k - 1 \in 1 .. n - 1 /\ (k - 1) + 1 = k
    BY <1>1, <1>11
  <2>2. DOMAIN b = 1 .. n - 1
    BY <1>2, WaitingRead
  <2> QED BY <1>2, <1>11, <2>1, <2>2
<1> QED BY <1>1, <1>2, <1>6, <1>7, <1>8, <1>9, <1>10, <1>11 DEF Fares, b, m
QueueType ==
    /\ user \in User
    /\ Queue \in [User -> Waiting]
    /\ written \in [User -> Seq(WriteId)]
    /\ document \in [User -> Nat]
    /\ callbacks \subseteq WriteId
    /\ told \in [WriteId -> Report]

\* A block is told what became of a write that was made, and the blocks that
\* have been told nothing belong to writes still waiting.
Told ==
    \A w \in WriteId :
        /\ told[w] = "success" => w \notin Refused
        /\ told[w] = "failure" => w \in Refused
        /\ told[w] # "nothing" =>
              \E u \in User : \E j \in DOMAIN written[u] : written[u][j] = w
        /\ w \in callbacks =>
              /\ told[w] = "nothing"
              /\ \E u \in User : \E k \in DOMAIN Queue[u] : Queue[u][k].id = w

PendingInv ==
    /\ QueueType
    /\ \A u \in User : Fares(Queue[u], written[u], document[u])
    /\ Told

LEMMA MadeRead ==
    ASSUME NEW w
    PROVE  w \in Pending!Made <=>
               \E u \in User : \E j \in DOMAIN written[u] : written[u][j] = w
BY DEF Pending!Made, Pending!ToSet

LEMMA InitPending == Pending!Init => PendingInv
<1> SUFFICES ASSUME Pending!Init PROVE PendingInv
  OBVIOUS
<1>1. /\ \A u \in User : Queue[u] = <<>> /\ written[u] = <<>> /\ document[u] = 0
      /\ callbacks = {} /\ \A w \in WriteId : told[w] = "nothing"
  BY DEF Pending!Init, WriteId, Pending!WriteId
<1>2. QueueType
  <2>1. <<>> \in Waiting /\ <<>> \in Seq(WriteId) /\ 0 \in Nat
    BY DEF Waiting
  <2> QED BY <2>1 DEF Pending!Init, QueueType, WriteId, Pending!WriteId, Report
<1>3. Fares(<<>>, <<>>, 0)
  BY DEF Fares, WaitsInOrder, RuledInOrder, DocumentStands, Increasing
<1> QED BY <1>1, <1>2, <1>3 DEF PendingInv, Told

LEMMA PendingMake ==
    ASSUME PendingInv, NEW w \in WriteId, Pending!Make(w)
    PROVE  PendingInv'
<1> DEFINE new == [id |-> w, status |-> "queued"]
<1>1. /\ user \in User /\ Queue \in [User -> Waiting]
      /\ written \in [User -> Seq(WriteId)] /\ document \in [User -> Nat]
      /\ \A u \in User : Fares(Queue[u], written[u], document[u])
  BY DEF PendingInv, QueueType
<1>2. /\ Queue' = [Queue EXCEPT ![user] = Append(Queue[user], new)]
      /\ written' = [written EXCEPT ![user] = Append(written[user], w)]
      /\ callbacks' = callbacks \union {w}
      /\ user' = user /\ document' = document /\ told' = told
  BY DEF Pending!Make
<1> HIDE DEF new
<1>3. ASSUME NEW u \in User, NEW j \in DOMAIN written[u]
      PROVE  written[u][j] < w
  <2>1. written[u][j] \in WriteId
    BY <1>1
  <2>2. written[u][j] \in Pending!Made
    BY MadeRead
  <2> QED BY <2>1, <2>2 DEF Pending!Make, WriteId, Pending!WriteId
<1>4. /\ Append(Queue[user], new) \in Waiting
      /\ Append(written[user], w) \in Seq(WriteId)
      /\ Fares(Append(Queue[user], new), Append(written[user], w), document[user])
  <2>1. \A j \in 1 .. Len(written[user]) : written[user][j] < w
    BY <1>1, <1>3, WrittenRead
  <2> QED BY <1>1, <2>1, MakeFares DEF new
<1>5. QueueType'
  BY <1>1, <1>2, <1>4 DEF PendingInv, QueueType
<1>6. ASSUME NEW u \in User
      PROVE  Fares(Queue'[u], written'[u], document'[u])
  BY <1>1, <1>2, <1>4
<1>7. told[w] = "nothing"
  <2>1. w \in Nat
    BY WriteIdIsNat
  <2>2. ~ \E u \in User : \E j \in DOMAIN written[u] : written[u][j] = w
    BY <1>3, <2>1
  <2> QED BY <2>2 DEF PendingInv, Told
<1>8. /\ \A u \in User : \A j \in DOMAIN written[u] :
            j \in DOMAIN written'[u] /\ written'[u][j] = written[u][j]
      /\ \A u \in User : \A k \in DOMAIN Queue[u] :
            k \in DOMAIN Queue'[u] /\ Queue'[u][k] = Queue[u][k]
  <2>1. ASSUME NEW S, NEW s \in Seq(S), NEW e, NEW j \in DOMAIN s
        PROVE  j \in DOMAIN Append(s, e) /\ Append(s, e)[j] = s[j]
    OBVIOUS
  <2>2. \A u \in User : Queue[u] \in Seq(Pending!Write)
    BY <1>1 DEF Waiting
  <2> QED BY <1>1, <1>2, <2>1, <2>2
<1>9. \E k \in DOMAIN Queue'[user] : Queue'[user][k].id = w
  <2> DEFINE q == Queue[user]
  <2>1. q \in Seq(Pending!Write) /\ Queue'[user] = Append(q, new)
    BY <1>1, <1>2 DEF Waiting
  <2> HIDE DEF q
  <2>2. Len(q) + 1 \in DOMAIN Append(q, new) /\ Append(q, new)[Len(q) + 1] = new
    BY <2>1
  <2>3. new.id = w
    BY DEF new
  <2> QED BY <2>1, <2>2, <2>3
<1>10. Told'
  <2> SUFFICES ASSUME NEW v \in WriteId
               PROVE  /\ told'[v] = "success" => v \notin Refused
                      /\ told'[v] = "failure" => v \in Refused
                      /\ told'[v] # "nothing" =>
                            \E u \in User : \E j \in DOMAIN written'[u] :
                                written'[u][j] = v
                      /\ v \in callbacks' =>
                            /\ told'[v] = "nothing"
                            /\ \E u \in User : \E k \in DOMAIN Queue'[u] :
                                  Queue'[u][k].id = v
    BY Zenon DEF Told
  <2>1. /\ told[v] = "success" => v \notin Refused
        /\ told[v] = "failure" => v \in Refused
        /\ told[v] # "nothing" =>
              \E u \in User : \E j \in DOMAIN written[u] : written[u][j] = v
        /\ v \in callbacks =>
              /\ told[v] = "nothing"
              /\ \E u \in User : \E k \in DOMAIN Queue[u] : Queue[u][k].id = v
    BY DEF PendingInv, Told
  <2>2. told[v] # "nothing" =>
            \E u \in User : \E j \in DOMAIN written'[u] : written'[u][j] = v
    BY <1>8, <2>1
  <2>3. v \in callbacks' => \E u \in User : \E k \in DOMAIN Queue'[u] :
                                Queue'[u][k].id = v
    BY <1>1, <1>2, <1>8, <1>9, <2>1
  <2>4. v \in callbacks' => told[v] = "nothing"
    BY <1>2, <1>7, <2>1
  <2> QED BY <1>2, <2>1, <2>2, <2>3, <2>4
<1> QED BY <1>5, <1>6, <1>10 DEF PendingInv

LEMMA PendingRuling ==
    ASSUME PendingInv, NEW k \in DOMAIN Queue[user],
           Pending!Commit(k) \/ Pending!Reject(k)
    PROVE  PendingInv'
<1> DEFINE q == Queue[user]
           st == IF q[k].id \in Refused THEN "rejected" ELSE "committed"
           after == IF st = "committed" THEN q[k].id ELSE document[user]
<1>1. /\ user \in User /\ Queue \in [User -> Waiting]
      /\ written \in [User -> Seq(WriteId)] /\ document \in [User -> Nat]
      /\ \A u \in User : Fares(Queue[u], written[u], document[u])
  BY DEF PendingInv, QueueType
<1>2. /\ Pending!IsNext(q, k)
      /\ Queue' = [Queue EXCEPT ![user] = Pending!Ruled(q, k, st)]
      /\ document' = [document EXCEPT ![user] = after]
      /\ user' = user /\ written' = written /\ callbacks' = callbacks
      /\ told' = told
  <2>1. CASE Pending!Commit(k)
    BY <2>1 DEF Pending!Commit
  <2>2. CASE Pending!Reject(k)
    BY <1>1, <2>2 DEF Pending!Reject
  <2> QED BY <2>1, <2>2
<1> HIDE DEF q
<1>3. /\ after \in Nat
      /\ Pending!Ruled(q, k, st) \in Waiting
      /\ Fares(Pending!Ruled(q, k, st), written[user], after)
  <2>1. st \in {"committed", "rejected"} /\ (st = "committed" <=> q[k].id \notin Refused)
    OBVIOUS
  <2>2. /\ q \in Waiting /\ written[user] \in Seq(WriteId)
        /\ document[user] \in Nat /\ Fares(q, written[user], document[user])
        /\ k \in DOMAIN q
    BY <1>1 DEF q
  <2> HIDE DEF st
  <2> QED BY <1>2, <2>1, <2>2, RulingFares, Zenon
<1>4. /\ DOMAIN Pending!Ruled(q, k, st) = DOMAIN q
      /\ \A j \in DOMAIN q : Pending!Ruled(q, k, st)[j].id = q[j].id
  <2>1. k \in DOMAIN q /\ q \in Seq(Pending!Write)
        /\ \A j \in DOMAIN q : q[j] \in Pending!Write
    BY <1>1 DEF q, Waiting
  <2>2. Pending!Ruled(q, k, st) = [q EXCEPT ![k].status = st]
    BY Zenon DEF Pending!Ruled
  <2>3. [q[k] EXCEPT !.status = st].id = q[k].id
    BY <2>1 DEF Pending!Write
  <2> HIDE DEF st
  <2> QED BY <2>1, <2>2, <2>3
<1> HIDE DEF st, after
<1>5. QueueType'
  BY <1>1, <1>2, <1>3 DEF PendingInv, QueueType
<1>6. ASSUME NEW u \in User
      PROVE  Fares(Queue'[u], written'[u], document'[u])
  BY <1>1, <1>2, <1>3
<1>7. \A u \in User : /\ DOMAIN Queue'[u] = DOMAIN Queue[u]
                      /\ \A j \in DOMAIN Queue[u] : Queue'[u][j].id = Queue[u][j].id
  BY <1>1, <1>2, <1>4 DEF q
<1>8. Told'
  <2>1. Told
    BY DEF PendingInv
  <2>2. ASSUME NEW v, \E u \in User : \E j \in DOMAIN Queue[u] : Queue[u][j].id = v
        PROVE  \E u \in User : \E j \in DOMAIN Queue'[u] : Queue'[u][j].id = v
    BY <1>7, <2>2
  <2> QED BY <1>2, <2>1, <2>2 DEF Told
<1> QED BY <1>5, <1>6, <1>8 DEF PendingInv

LEMMA PendingSendAgain ==
    ASSUME PendingInv, NEW u \in User, NEW still, Pending!SendAgain(u, still)
    PROVE  PendingInv'
<1> DEFINE b == Pending!Resent(Queue[user])
<1>1. /\ user \in User /\ Queue \in [User -> Waiting]
      /\ written \in [User -> Seq(WriteId)] /\ document \in [User -> Nat]
      /\ \A v \in User : Fares(Queue[v], written[v], document[v])
  BY DEF PendingInv, QueueType
<1>2. /\ Queue' = [Queue EXCEPT ![user] = b]
      /\ user' = u /\ callbacks' = still /\ still \subseteq callbacks
      /\ written' = written /\ document' = document /\ told' = told
  BY DEF Pending!SendAgain
<1>3. /\ b \in Waiting
      /\ Fares(b, written[user], document[user])
      /\ \A w : (\E k \in DOMAIN Queue[user] : Queue[user][k].id = w) =>
                    \E k \in DOMAIN b : b[k].id = w
  BY <1>1, ResendFares
<1> HIDE DEF b
<1>4. QueueType'
  BY <1>1, <1>2, <1>3 DEF PendingInv, QueueType
<1>5. \A v \in User : Fares(Queue'[v], written'[v], document'[v])
  BY <1>1, <1>2, <1>3
<1>6. Told'
  <2>1. Told
    BY DEF PendingInv
  <2>2. ASSUME NEW w, NEW v \in User, \E k \in DOMAIN Queue[v] : Queue[v][k].id = w
        PROVE  \E k \in DOMAIN Queue'[v] : Queue'[v][k].id = w
    BY <1>1, <1>2, <1>3, <2>2
  <2> QED BY <1>2, <2>1, <2>2 DEF Told
<1> QED BY <1>4, <1>5, <1>6 DEF PendingInv

LEMMA PendingSettle ==
    ASSUME PendingInv, Pending!Settle
    PROVE  PendingInv'
<1> DEFINE q == Queue[user]
           w == Head(Queue[user]).id
           report == IF Head(Queue[user]).status = "committed" THEN "success"
                     ELSE "failure"
<1>1. /\ user \in User /\ Queue \in [User -> Waiting]
      /\ written \in [User -> Seq(WriteId)] /\ document \in [User -> Nat]
      /\ \A u \in User : Fares(Queue[u], written[u], document[u])
      /\ told \in [WriteId -> Report]
  BY DEF PendingInv, QueueType
<1>2. /\ Pending!HasResult(q)
      /\ Queue' = [Queue EXCEPT ![user] = Tail(q)]
      /\ told' = [told EXCEPT ![w] = IF w \in callbacks THEN report ELSE told[w]]
      /\ callbacks' = callbacks \ {w}
      /\ user' = user /\ written' = written /\ document' = document
  BY DEF Pending!Settle, Pending!Report
<1>3. /\ Tail(q) \in Waiting
      /\ Fares(Tail(q), written[user], document[user])
      /\ w \in WriteId
      /\ report = "success" <=> w \notin Refused
      /\ \E j \in 1 .. Len(written[user]) : written[user][j] = w
      /\ \A v : (\E k \in DOMAIN q : q[k].id = v) /\ v # w =>
                    \E k \in DOMAIN Tail(q) : Tail(q)[k].id = v
  BY <1>1, <1>2, SettleFares
<1>4. report \in {"success", "failure"}
  OBVIOUS
<1> HIDE DEF q, w, report
<1>5. QueueType'
  BY <1>1, <1>2, <1>3, <1>4 DEF PendingInv, QueueType, Report
<1>6. \A u \in User : Fares(Queue'[u], written'[u], document'[u])
  BY <1>1, <1>2, <1>3
<1>7. Told'
  <2> SUFFICES ASSUME NEW v \in WriteId
               PROVE  /\ told'[v] = "success" => v \notin Refused
                      /\ told'[v] = "failure" => v \in Refused
                      /\ told'[v] # "nothing" =>
                            \E u \in User : \E j \in DOMAIN written'[u] :
                                written'[u][j] = v
                      /\ v \in callbacks' =>
                            /\ told'[v] = "nothing"
                            /\ \E u \in User : \E k \in DOMAIN Queue'[u] :
                                  Queue'[u][k].id = v
    BY Zenon DEF Told
  <2>1. /\ told[v] = "success" => v \notin Refused
        /\ told[v] = "failure" => v \in Refused
        /\ told[v] # "nothing" =>
              \E u \in User : \E j \in DOMAIN written[u] : written[u][j] = v
        /\ v \in callbacks =>
              /\ told[v] = "nothing"
              /\ \E u \in User : \E k \in DOMAIN Queue[u] : Queue[u][k].id = v
    BY DEF PendingInv, Told
  <2>2. CASE v = w
    <3>1. \E j \in DOMAIN written[user] : written[user][j] = w
      BY <1>1, <1>3, WrittenRead
    <3>2. told'[v] = "success" => v \notin Refused
      BY <1>1, <1>2, <1>3, <1>4, <2>1, <2>2
    <3>3. told'[v] = "failure" => v \in Refused
      BY <1>1, <1>2, <1>3, <1>4, <2>1, <2>2
    <3> QED BY <1>1, <1>2, <2>2, <3>1, <3>2, <3>3
  <2>3. CASE v # w
    <3>1. told'[v] = told[v]
      BY <1>1, <1>2, <2>3
    <3>2. ASSUME NEW u \in User, \E k \in DOMAIN Queue[u] : Queue[u][k].id = v
          PROVE  \E k \in DOMAIN Queue'[u] : Queue'[u][k].id = v
      BY <1>1, <1>2, <1>3, <2>3, <3>2 DEF q
    <3> QED BY <1>2, <2>1, <3>1, <3>2
  <2> QED BY <2>2, <2>3
<1> QED BY <1>5, <1>6, <1>7 DEF PendingInv

LEMMA PendingInvariant == Pending!Spec => []PendingInv
<1>1. PendingInv /\ [Pending!Next]_(Pending!vars) => PendingInv'
  <2> SUFFICES ASSUME PendingInv, [Pending!Next]_(Pending!vars)
               PROVE  PendingInv'
    OBVIOUS
  <2>1. ASSUME NEW w \in Pending!WriteId, Pending!Make(w)
        PROVE  PendingInv'
    BY <2>1, PendingMake DEF WriteId, Pending!WriteId
  <2>2. ASSUME NEW k \in DOMAIN Queue[user], Pending!Commit(k) \/ Pending!Reject(k)
        PROVE  PendingInv'
    BY <2>2, PendingRuling, Zenon
  <2>3. ASSUME NEW u \in User,
               Pending!SendAgain(u, callbacks) \/ Pending!SendAgain(u, {})
        PROVE  PendingInv'
    BY <2>3, PendingSendAgain, Zenon
  <2>4. CASE Pending!Settle
    BY <2>4, PendingSettle, Zenon
  <2>5. CASE UNCHANGED Pending!vars
    BY <2>5 DEF Pending!vars, PendingInv, QueueType, Told
  <2> QED BY <2>1, <2>2, <2>3, <2>4, <2>5, Zenon DEF Pending!Next
<1> QED BY <1>1, InitPending, PTL DEF Pending!Spec

LEMMA PendingInvStands == PendingInv => LastWriteStands
<1> SUFFICES ASSUME PendingInv, NEW u \in User, Pending!Waits(u) \subseteq Refused
             PROVE  LET allowed == Pending!ToSet(written[u]) \ Refused IN
                    document[u] = IF allowed = {} THEN 0 ELSE Pending!Max(allowed)
  BY Zenon DEF LastWriteStands, Pending!LastWriteStands
<1> DEFINE q == Queue[u]
           all == written[u]
           d == document[u]
           n == Len(q)
           m == Len(all)
           allowed == Pending!ToSet(all) \ Refused
<1>1. q \in Waiting /\ all \in Seq(WriteId) /\ d \in Nat /\ Fares(q, all, d)
  BY DEF PendingInv, QueueType
<1>2. \A k \in DOMAIN q : q[k].id \in Refused
  BY Zenon DEF Pending!Waits
<1> HIDE DEF q, all, d
<1>3. /\ n \in Nat /\ m \in Nat /\ n <= m
      /\ \A j \in 1 .. m : all[j] \in Nat /\ all[j] # 0
      /\ \A k \in 1 .. n : q[k].id = all[m - n + k]
      /\ \A k \in 1 .. n : q[k].id \in Refused
  BY <1>1, <1>2, WaitingRead, WrittenRead DEF Fares, WaitsInOrder
<1>4. /\ d = 0 \/ (d \notin Refused /\ \E j \in 1 .. m : all[j] = d)
      /\ \A j \in 1 .. m - n : all[j] \notin Refused => all[j] <= d
  BY <1>1 DEF Fares, DocumentStands
<1>5. \A e : e \in allowed <=> e \notin Refused /\ \E j \in 1 .. m : all[j] = e
  <2>1. DOMAIN all = 1 .. m
    BY <1>1, WrittenRead
  <2> QED BY <2>1 DEF Pending!ToSet
<1> HIDE DEF n, m, allowed
<1>6. ASSUME NEW j \in 1 .. m, all[j] \notin Refused
      PROVE  all[j] <= d
  <2>1. CASE j <= m - n
    BY <1>3, <1>4, <1>6, <2>1
  <2>2. CASE ~ (j <= m - n)
    <3> DEFINE k == j - (m - n)
    <3>1. k \in 1 .. n /\ m - n + k = j
      BY <1>3, <2>2
    <3> HIDE DEF k
    <3> QED BY <1>3, <1>6, <3>1
  <2> QED BY <2>1, <2>2
<1>7. \A e \in allowed : e \in Nat /\ e # 0 /\ e <= d
  BY <1>3, <1>5, <1>6
<1>8. d = IF allowed = {} THEN 0 ELSE Pending!Max(allowed)
  <2>1. CASE allowed = {}
    BY <1>4, <1>5, <2>1
  <2>2. CASE allowed # {}
    <3>1. d # 0
      BY <1>1, <1>7, <2>2
    <3>2. d \in allowed
      BY <1>4, <1>5, <3>1
    <3>3. Pending!Max(allowed) \in allowed
          /\ \A e \in allowed : Pending!Max(allowed) >= e
      <4>1. \E x \in allowed : \A y \in allowed : x >= y
        BY <1>1, <1>7, <3>2
      <4> QED BY <4>1, Zenon DEF Pending!Max
    <3> DEFINE max == Pending!Max(allowed)
    <3>4. max \in Nat /\ max <= d /\ max >= d
      BY <1>7, <3>2, <3>3
    <3> HIDE DEF max
    <3>5. d = max
      BY <1>1, <3>4
    <3> QED BY <2>2, <3>5, Zenon DEF max
  <2> QED BY <2>1, <2>2
<1> QED BY <1>8 DEF allowed, all, d

LEMMA PendingInvTold == PendingInv => ReportsAreTrue
<1> SUFFICES ASSUME PendingInv PROVE ReportsAreTrue
  OBVIOUS
<1>1. \A u \in User : \A w : w \in Pending!Waits(u) <=>
                             \E k \in DOMAIN Queue[u] : Queue[u][k].id = w
  BY DEF Pending!Waits
<1> QED BY <1>1 DEF PendingInv, Told, ReportsAreTrue, Pending!ReportsAreTrue,
                    WriteId, Pending!WriteId

\* For any users, writes and rules: whenever none of a user's writes waits but
\* such as the rules refuse, the document on the server is as the last allowed
\* write left it, however often the stream broke and its writes were sent anew.
THEOREM LastWriteStandsAlways == Spec => []LastWriteStands
BY PromiseKept, PendingInvariant, PendingInvStands, PTL DEF KeepsPromise

\* For any users, writes and rules: a completion block is told of success only
\* of a write the rules allow, of failure only of one they refuse, and a block
\* not yet told belongs to a write still waiting.
THEOREM ReportsAreTrueAlways == Spec => []ReportsAreTrue
BY PromiseKept, PendingInvariant, PendingInvTold, PTL DEF KeepsPromise
==============================================================================
