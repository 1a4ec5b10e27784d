------------------------------- MODULE MCProfile -------------------------------
(* A small instance of Profile for TLC. *)
EXTENDS Profile

CONSTANTS
    text,               \* what somebody is called, and says of himself
    photo, drawing,     \* two pictures
    a1                  \* an avatar

TwoNames == {text, Sample}
NoBio == {Sample}
TwoPictures == {photo, drawing}
PhotoOnly == {photo}
OneAvatar == {a1}
==============================================================================
