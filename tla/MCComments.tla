------------------------------ MODULE MCComments ------------------------------
(* A small instance of Comments for TLC. *)
EXTENDS Comments

CONSTANTS text, again    \* two things to say

TwoComments == {1, 2}
OnlySecond == {2}
TwoTexts == {text, again}
==============================================================================
