------------------------------- MODULE MCSession -------------------------------
(* A small instance of Session for TLC. *)
EXTENDS Session

CONSTANTS ada, ben      \* two users of one phone

TwoUsers == {ada, ben}
OnlyBen == {ben}
==============================================================================
