------------------------------ MODULE WriteQueue ------------------------------
(***************************************************************************)
(* The queue of writes of one Firestore client, as the code that uses it   *)
(* sees it: a sequence of records with a field "status".                   *)
(*                                                                         *)
(* The client sends the writes at the front of the queue, in order, down   *)
(* one stream, without waiting for the result of one before sending the    *)
(* next; the server may have committed several before the first result     *)
(* arrives.  A write it rejects ends the stream, so nothing behind that    *)
(* write has been ruled on.  When the stream breaks, every write still in  *)
(* the queue is sent again, committed or not.                              *)
(*                                                                         *)
(* WriteStream shows the client's own code to keep to this.                *)
(***************************************************************************)
EXTENDS Naturals, Sequences

\* What the server made of a write whose result has not arrived.
Status == {"queued", "committed", "rejected"}

kMaxPendingWrites == 10

\* The k-th write is the next that the server rules on.
IsNext(queue, k) ==
    /\ k \in DOMAIN queue
    /\ k <= kMaxPendingWrites
    /\ queue[k].status = "queued"
    /\ \A j \in 1 .. k - 1 : queue[j].status = "committed"

Ruled(queue, k, status) == [queue EXCEPT ![k].status = status]

\* A new stream: the writes are sent from the front again.
Resent(queue) ==
    [k \in DOMAIN queue |-> [queue[k] EXCEPT !.status = "queued"]]

\* The result of the oldest write is on its way.
HasResult(queue) == queue # <<>> /\ Head(queue).status # "queued"
==============================================================================
