----------------------------- MODULE WriteStream -----------------------------
(***************************************************************************)
(* How the Firestore client sends its writes: RemoteStore's write pipeline *)
(* and the write stream, between the persistent mutation queue of the user *)
(* signed in and the server.                                               *)
(*                                                                         *)
(* One batch holds one write, numbered as in PendingWrites.  A response on *)
(* the stream does not say which write it is about: the client takes it to *)
(* be about the front of the pipeline.  Everything below is a task of the  *)
(* client's worker queue, or a step of the server.                         *)
(***************************************************************************)
EXTENDS Naturals, FiniteSets, SequencesExt

CONSTANTS
    User,               \* who may be signed in
    MaxWrites,          \* bound: the writes made, by all users
    Refused,            \* the writes the server's rules refuse, whenever sent
    MaxPending          \* kMaxPendingWrites, 10 in the code, or fewer

ASSUME WritesAssumption ==
    /\ MaxWrites \in Nat /\ Refused \subseteq 1 .. MaxWrites
    /\ MaxPending \in 1 .. 10

VARIABLES
    user,           \* current_user_
    mutationQueue,  \* mutationQueue[u]: persistent, the batches of u
    written,        \* history: all the writes of u
    callbacks,      \* mutation_callbacks_: the writes with a block waiting
    told,           \* told[w]: what the block of w was called with
    write_pipeline, \* writes sent, or to be sent when the stream is ready
    stream,         \* state_, with "Ready" for open and handshake_complete
    idle,           \* is the idleness timer running?
    toServer,       \* requests under way on the present stream
    toClient,       \* responses under way
    document        \* the server: the last write to the document of u

clientVars == <<write_pipeline, stream, idle>>
channels == <<toServer, toClient>>
vars == <<user, mutationQueue, written, callbacks, told, clientVars, channels,
          document>>

WriteId == 1 .. MaxWrites
Handshake == 0          \* the first request on a stream, which is no write

Init ==
    /\ user \in User
    /\ mutationQueue = [u \in User |-> <<>>]
    /\ written = [u \in User |-> <<>>]
    /\ callbacks = {}
    /\ told = [w \in WriteId |-> "nothing"]
    /\ write_pipeline = <<>> /\ stream = "Initial" /\ idle = FALSE
    /\ toServer = <<>> /\ toClient = <<>>
    /\ document = [u \in User |-> 0]
------------------------------------------------------------------------------
(* The pipeline.                                                           *)

IsStarted(state) == state \in {"Starting", "Backoff", "Open", "Ready"}

\* The batches of queue that follow the pipeline's last, as far as there is
\* room for them; next is where GetNextMutationBatch finds the first of them,
\* in the order of their ids.
ToAdd(queue, pipeline) ==
    LET next == SelectInSeq(queue, LAMBDA w :
                               pipeline = <<>> \/ w > Last(pipeline))
        end == next + MaxPending - Len(pipeline) - 1
    IN  IF next = 0 THEN <<>> ELSE SubSeq(queue, next, Min({Len(queue), end}))

\* Start: an errored stream waits for its backoff first.
Started(state) == IF state = "Error" THEN "Backoff" ELSE "Starting"

\* FillWritePipeline, called with the stream in the given state, after
\* requests have been sent: a ready stream is sent the added writes at once,
\* and is marked idle when there is nothing to add and nothing to wait for.
FillWritePipeline(queue, pipeline, state, requests) ==
    LET added == ToAdd(queue, pipeline)
        needed == pipeline \o added # <<>>
    IN
    /\ write_pipeline' = pipeline \o added
    /\ stream' = IF needed /\ ~ IsStarted(state) THEN Started(state) ELSE state
    /\ toServer' = IF state = "Ready" THEN requests \o added ELSE requests
    /\ idle' = (state = "Ready" /\ ~ needed)

\* SyncEngine's WriteMutations: the write is made persistent, then sent.
WriteMutations(w) ==
    /\ w = 1 + Cardinality(UNION {ToSet(written[u]) : u \in User})
    /\ written' = [written EXCEPT ![user] = Append(@, w)]
    /\ mutationQueue' = [mutationQueue EXCEPT ![user] = Append(@, w)]
    /\ callbacks' = callbacks \union {w}
    /\ FillWritePipeline(mutationQueue'[user], write_pipeline, stream, toServer)
    /\ UNCHANGED <<user, told, toClient, document>>
------------------------------------------------------------------------------
(* The stream.                                                             *)

BackoffElapses ==
    /\ stream = "Backoff"
    /\ stream' = "Starting"
    /\ UNCHANGED <<user, mutationQueue, written, callbacks, told,
                   write_pipeline, idle, channels, document>>

\* The credentials are there, the stream opens, and the handshake is sent.
OnWriteStreamOpen ==
    /\ stream = "Starting"
    /\ stream' = "Open"
    /\ toServer' = <<Handshake>>
    /\ UNCHANGED <<user, mutationQueue, written, callbacks, told,
                   write_pipeline, idle, toClient, document>>

\* The whole pipeline is sent, from the front.
OnWriteStreamHandshakeComplete ==
    /\ toClient # <<>> /\ Head(toClient) = "handshake"
    /\ toClient' = Tail(toClient)
    /\ stream' = "Ready"
    /\ toServer' = toServer \o write_pipeline
    /\ UNCHANGED <<user, mutationQueue, written, callbacks, told,
                   write_pipeline, idle, document>>

\* Slip: the error is not passed on to the block.
NotifyUserOfSuccess(w, report) ==
    /\ told' = [told EXCEPT ![w] = IF w \in callbacks THEN "success" ELSE @]
    /\ callbacks' = callbacks \ {w}

\* NotifyUser: the block of w, if it is still there, is called and dropped.
NotifyUser(w, report) ==
    /\ told' = [told EXCEPT ![w] = IF w \in callbacks THEN report ELSE @]
    /\ callbacks' = callbacks \ {w}

\* AcknowledgeBatch and RejectBatch take the batch off the persistent queue.
RemoveMutationBatch(w) ==
    mutationQueue' = [mutationQueue EXCEPT ![user] = RemoveFirst(@, w)]

OnWriteStreamMutationResult ==
    /\ toClient # <<>> /\ Head(toClient) = "result"
    /\ toClient' = Tail(toClient)
    /\ NotifyUser(Head(write_pipeline), "success")
    /\ RemoveMutationBatch(Head(write_pipeline))
    /\ FillWritePipeline(mutationQueue'[user], Tail(write_pipeline), stream,
                         toServer)
    /\ UNCHANGED <<user, written, document>>

\* The server has closed the stream with a permanent error: OnWriteStreamClose
\* takes the front of the pipeline for the write that caused it, and restarts
\* the stream without backoff.
HandleWriteError ==
    /\ toClient # <<>> /\ Head(toClient) = "error"
    /\ toClient' = <<>>
    /\ NotifyUser(Head(write_pipeline), "failure")
    /\ RemoveMutationBatch(Head(write_pipeline))
    /\ FillWritePipeline(mutationQueue'[user], Tail(write_pipeline), "Initial",
                         <<>>)
    /\ UNCHANGED <<user, written, document>>

\* Slip: the pipeline's writes are not sent a second time.
OnWriteStreamCloseDropping ==
    /\ stream \in {"Starting", "Open", "Ready"}
    /\ stream' = IF write_pipeline # <<>> THEN "Backoff" ELSE "Error"
    /\ write_pipeline' = SubSeq(write_pipeline, 2, Len(write_pipeline))
    /\ idle' = FALSE
    /\ toServer' = <<>> /\ toClient' = <<>>
    /\ UNCHANGED <<user, mutationQueue, written, callbacks, told, document>>

\* Any other end of the stream: a lost connection, no credentials, a transient
\* error, or any error at all before the handshake is complete.
OnWriteStreamClose ==
    /\ stream \in {"Starting", "Open", "Ready"}
    /\ stream' = IF write_pipeline # <<>> THEN "Backoff" ELSE "Error"
    /\ idle' = FALSE
    /\ toServer' = <<>> /\ toClient' = <<>>
    /\ UNCHANGED <<user, mutationQueue, written, callbacks, told,
                   write_pipeline, document>>

\* The idleness timer stops the stream.
IdleTimeout ==
    /\ idle
    /\ stream' = "Initial"
    /\ idle' = FALSE
    /\ toServer' = <<>> /\ toClient' = <<>>
    /\ UNCHANGED <<user, mutationQueue, written, callbacks, told,
                   write_pipeline, document>>

\* Slip: the pipeline is kept while the streams are restarted.
RestartNetworkKeeping(u) ==
    /\ user' = u
    /\ FillWritePipeline(mutationQueue[u], write_pipeline, "Initial", <<>>)
    /\ toClient' = <<>>
    /\ UNCHANGED <<mutationQueue, written, told, document>>

\* RestartNetwork: the stream is stopped, the pipeline cleared and filled
\* again from the queue of u.
RestartNetwork(u) ==
    /\ user' = u
    /\ FillWritePipeline(mutationQueue[u], <<>>, "Initial", <<>>)
    /\ toClient' = <<>>
    /\ UNCHANGED <<mutationQueue, written, told, document>>

\* HandleCredentialChange, a token refresh included, and the connectivity
\* monitor.
HandleCredentialChange(u) == RestartNetwork(u) /\ UNCHANGED callbacks

\* The app is killed and opened again: the blocks are gone.
Relaunch == RestartNetwork(user) /\ callbacks' = {}
------------------------------------------------------------------------------
(* The server, for one stream: it answers in order, and a refused write    *)
(* ends the stream, with its error: never with status OK while writes wait, *)
(* which the client asserts.                                               *)

AcceptHandshake ==
    /\ toServer # <<>> /\ Head(toServer) = Handshake
    /\ toServer' = Tail(toServer)
    /\ toClient' = Append(toClient, "handshake")
    /\ UNCHANGED <<user, mutationQueue, written, callbacks, told, clientVars,
                   document>>

\* What the server has been sent after its last error is not read.
Reads(w) ==
    /\ toServer # <<>> /\ Head(toServer) = w
    /\ ~ Contains(toClient, "error")
    /\ toServer' = Tail(toServer)
    /\ UNCHANGED <<user, mutationQueue, written, callbacks, told, clientVars>>

CommitWrite(w) ==
    /\ Reads(w)
    /\ w \notin Refused
    /\ document' = [document EXCEPT ![user] = w]
    /\ toClient' = Append(toClient, "result")

RefuseWrite(w) ==
    /\ Reads(w)
    /\ w \in Refused
    /\ toClient' = Append(toClient, "error")
    /\ UNCHANGED document

Next ==
    \/ \E w \in WriteId : WriteMutations(w) \/ CommitWrite(w) \/ RefuseWrite(w)
    \/ AcceptHandshake
    \/ BackoffElapses
    \/ OnWriteStreamOpen
    \/ OnWriteStreamHandshakeComplete
    \/ OnWriteStreamMutationResult
    \/ HandleWriteError
    \/ OnWriteStreamClose
    \/ IdleTimeout
    \/ \E u \in User : HandleCredentialChange(u)
    \/ Relaunch

Spec == Init /\ [][Next]_vars

\* The backoff is a timer.  A stream may break at any time, but not for ever
\* at the same point: every step of the network is taken if it could be taken
\* again and again.
Fairness ==
    /\ WF_vars(BackoffElapses)
    /\ SF_vars(OnWriteStreamOpen)
    /\ SF_vars(AcceptHandshake)
    /\ SF_vars(OnWriteStreamHandshakeComplete)
    /\ SF_vars(\E w \in WriteId : CommitWrite(w) \/ RefuseWrite(w))
    /\ SF_vars(OnWriteStreamMutationResult \/ HandleWriteError)

LiveSpec == Spec /\ Fairness
------------------------------------------------------------------------------
(* Properties.                                                             *)

Report == {"nothing", "success", "failure"}

TypeOK ==
    /\ user \in User
    /\ mutationQueue \in [User -> Seq(WriteId)]
    /\ written \in [User -> Seq(WriteId)]
    /\ callbacks \subseteq WriteId
    /\ told \in [WriteId -> Report]
    /\ write_pipeline \in Seq(WriteId)
    /\ stream \in {"Initial", "Starting", "Backoff", "Open", "Ready", "Error"}
    /\ idle \in BOOLEAN
    /\ toServer \in Seq(WriteId \union {Handshake})
    /\ toClient \in Seq({"handshake", "result", "error"})
    /\ document \in [User -> 0 .. MaxWrites]

\* The client's assertions, over variables that keep their types: a result or
\* a permanent error finds a write in the pipeline, and that write is the
\* first of the signed-in user's queue; a stream stopped for idleness, or not
\* started, is not needed.
AssertionsHold ==
    /\ TypeOK
    /\ ToSet(toClient) \cap {"result", "error"} # {} => write_pipeline # <<>>
    /\ IsPrefix(write_pipeline, mutationQueue[user])
    /\ idle \/ ~ IsStarted(stream) => mutationQueue[user] = <<>>

\* What the server has made of the writes of u, for all the client will hear.
Results == Cardinality({k \in DOMAIN toClient : toClient[k] = "result"})

StatusOf(u, k) ==
    IF u # user THEN "queued"
    ELSE IF k <= Results THEN "committed"
    ELSE IF k = Results + 1 /\ Contains(toClient, "error") THEN "rejected"
    ELSE "queued"

Queue ==
    [u \in User |-> [k \in DOMAIN mutationQueue[u] |->
                        [id |-> mutationQueue[u][k], status |-> StatusOf(u, k)]]]

Pending == INSTANCE PendingWrites WITH queue <- Queue, waiting <- callbacks

\* The pipeline, the stream and its restarts keep the promise of PendingWrites.
KeepsPromise == Pending!Spec

\* When no write of a user waits but those the rules refuse, the user's
\* document is as the last allowed write left it: nothing is lost, nothing
\* overtaken for good, by whatever is sent again.
LastWriteStands == Pending!LastWriteStands

\* A completion block is told the truth, and only once.
ReportsAreTrue == Pending!ReportsAreTrue

\* A write is settled in the end, refused or not, however often the stream
\* breaks, unless its user signs out.
WritesAreSettled ==
    \A u \in User, w \in WriteId :
        (user = u /\ Contains(mutationQueue[u], w))
            ~> (user # u \/ ~ Contains(mutationQueue[u], w))
==============================================================================
