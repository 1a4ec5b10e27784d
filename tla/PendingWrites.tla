---------------------------- MODULE PendingWrites ----------------------------
(***************************************************************************)
(* What the Firestore client promises of the writes handed to it: each     *)
(* user's writes reach the server in order, each at least once unless the  *)
(* server's rules refuse it, whatever breaks; and each is reported once,   *)
(* truthfully, to the block that waits for it, while the process lives.    *)
(*                                                                         *)
(* The writes are numbered as they are made.  All the writes of a user set *)
(* one document, so that their order on the server shows.                  *)
(***************************************************************************)
EXTENDS WriteQueue, FiniteSets, SequencesExt

CONSTANTS
    User,               \* who may be signed in
    MaxWrites,          \* bound: the writes made, by all users
    Refused             \* the writes the server's rules refuse

VARIABLES
    user,       \* who is signed in
    queue,      \* queue[u]: the writes of u not yet acknowledged
    written,    \* written[u]: all the writes of u, in order
    document,   \* the server: the last write to set the document of u; 0 none
    waiting,    \* writes whose completion block is still there
    told        \* told[w]: what the completion block of w was told

vars == <<user, queue, written, document, waiting, told>>

WriteId == 1 .. MaxWrites
Write == [id : WriteId, status : Status]

Init ==
    /\ user \in User
    /\ queue = [u \in User |-> <<>>]
    /\ written = [u \in User |-> <<>>]
    /\ document = [u \in User |-> 0]
    /\ waiting = {}
    /\ told = [w \in WriteId |-> "nothing"]

Made == UNION {ToSet(written[u]) : u \in User}

\* The user's phone makes the next write.
Make(w) ==
    /\ \A v \in WriteId : v < w <=> v \in Made
    /\ written' = [written EXCEPT ![user] = Append(@, w)]
    /\ queue' = [queue EXCEPT ![user] =
                    Append(@, [id |-> w, status |-> "queued"])]
    /\ waiting' = waiting \union {w}
    /\ UNCHANGED <<user, document, told>>

Commit(k) ==
    /\ IsNext(queue[user], k)
    /\ queue[user][k].id \notin Refused
    /\ queue' = [queue EXCEPT ![user] = Ruled(@, k, "committed")]
    /\ document' = [document EXCEPT ![user] = queue[user][k].id]
    /\ UNCHANGED <<user, written, waiting, told>>

Reject(k) ==
    /\ IsNext(queue[user], k)
    /\ queue[user][k].id \in Refused
    /\ queue' = [queue EXCEPT ![user] = Ruled(@, k, "rejected")]
    /\ UNCHANGED <<user, written, document, waiting, told>>

\* The stream breaks, or the user signs out, or the app is killed: the writes
\* waiting will be sent again, by whoever made them.
SendAgain(u, still) ==
    /\ still \subseteq waiting
    /\ queue' = [queue EXCEPT ![user] = Resent(@)]
    /\ user' = u
    /\ waiting' = still
    /\ UNCHANGED <<written, document, told>>

Report(status) == IF status = "committed" THEN "success" ELSE "failure"

Settle ==
    LET w == Head(queue[user]) IN
    /\ HasResult(queue[user])
    /\ queue' = [queue EXCEPT ![user] = Tail(@)]
    /\ told' = [told EXCEPT ![w.id] = IF w.id \in waiting THEN Report(w.status)
                                      ELSE @]
    /\ waiting' = waiting \ {w.id}
    /\ UNCHANGED <<user, written, document>>

Next ==
    \/ \E w \in WriteId : Make(w)
    \/ \E k \in DOMAIN queue[user] : Commit(k) \/ Reject(k)
    \/ \E u \in User : SendAgain(u, waiting) \/ SendAgain(u, {})
    \/ Settle

Spec == Init /\ [][Next]_vars
------------------------------------------------------------------------------
(* Properties.                                                             *)

Waits(u) == {queue[u][k].id : k \in DOMAIN queue[u]}

\* A write that has left the queue was committed or refused; when none waits,
\* the document of u is as the last write of u that the rules allow left it.
\* No restart, resend or change of users loses a write or lets one overtake
\* another for good.
LastWriteStands ==
    \A u \in User : Waits(u) \subseteq Refused =>
        LET allowed == ToSet(written[u]) \ Refused IN
        document[u] = IF allowed = {} THEN 0 ELSE Max(allowed)

\* A block that is told of success or failure is told the truth, and only a
\* block that has not been told waits.
ReportsAreTrue ==
    \A w \in WriteId :
        /\ told[w] = "success" => w \notin Refused
        /\ told[w] = "failure" => w \in Refused
        /\ w \in waiting =>
              told[w] = "nothing" /\ \E u \in User : w \in Waits(u)
==============================================================================
