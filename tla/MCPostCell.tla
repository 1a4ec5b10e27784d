------------------------------ MODULE MCPostCell ------------------------------
(* A small instance of PostCell for TLC. *)
EXTENDS PostCell

CONSTANTS p1, p2        \* two posts that share a cell

TwoPosts == {p1, p2}
OnlySecond == {p2}
==============================================================================
