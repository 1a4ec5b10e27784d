---------------------------- MODULE ItemLifecycle ----------------------------
(***************************************************************************)
(* What the moderation centre promises about one Firestore document, be it *)
(* a post or a comment, whatever the number of moderators, the order in    *)
(* which their phones reach the server, and the crashes in between:        *)
(*                                                                         *)
(*   - a document is created pending, once;                                *)
(*   - it becomes approved only after some moderator asked for that, and   *)
(*     never returns to pending;                                           *)
(*   - it is removed only after some moderator asked for that, and a       *)
(*     removed document is never seen again.                               *)
(*                                                                         *)
(* A removal may follow an approval: a moderator whose list is out of date *)
(* may deny what another has approved.                                     *)
(***************************************************************************)
CONSTANT Item            \* the documents that may ever be created

VARIABLES
    docs,                \* the state of each document on the server
    approvals,           \* the documents some moderator asked to approve
    denials              \* the documents some moderator asked to remove

vars == <<docs, approvals, denials>>

DocState == {"absent", "pending", "approved", "deleted"}

Init ==
    /\ docs = [i \in Item |-> "absent"]
    /\ approvals = {}
    /\ denials = {}

Submit(i) ==
    /\ docs[i] = "absent"
    /\ docs' = [docs EXCEPT ![i] = "pending"]
    /\ UNCHANGED <<approvals, denials>>

\* Moderators decide only on documents that have been submitted.
AskApproval(i) ==
    /\ docs[i] # "absent"
    /\ approvals' = approvals \union {i}
    /\ UNCHANGED <<docs, denials>>

AskRemoval(i) ==
    /\ docs[i] # "absent"
    /\ denials' = denials \union {i}
    /\ UNCHANGED <<docs, approvals>>

Approve(i) ==
    /\ i \in approvals
    /\ docs[i] = "pending"
    /\ docs' = [docs EXCEPT ![i] = "approved"]
    /\ UNCHANGED <<approvals, denials>>

Remove(i) ==
    /\ i \in denials
    /\ docs[i] \in {"pending", "approved"}
    /\ docs' = [docs EXCEPT ![i] = "deleted"]
    /\ UNCHANGED <<approvals, denials>>

Next ==
    \E i \in Item :
        \/ Submit(i)
        \/ AskApproval(i)
        \/ AskRemoval(i)
        \/ Approve(i)
        \/ Remove(i)

Spec == Init /\ [][Next]_vars
==============================================================================
