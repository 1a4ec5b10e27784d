---------------------------- MODULE MCWriteStream -----------------------------
(* A small instance of WriteStream for TLC. *)
EXTENDS WriteStream

CONSTANTS u1, u2        \* two users of one phone

TwoUsers == {u1, u2}
SecondRefused == {2}
==============================================================================
