------------------------------- MODULE MCUpload -------------------------------
(* A small instance of Upload for TLC. *)
EXTENDS Upload

CONSTANTS
    p1, p2,             \* two posts
    text,               \* a text
    photo,              \* a picture
    art                 \* one of the four categories

TwoPosts == {p1, p2}
SomeText == {text}
OnePicture == {photo}
Photo == {photo}
OneCategory == {art}
SecondRefused == {p2}
==============================================================================
