---------------------------- MODULE MCArtsExplorer ----------------------------
(* A small instance of ArtsExplorer for TLC. *)
EXTENDS ArtsExplorer

CONSTANTS
    m1,                 \* a moderator's phone
    text, art           \* what the author has to say, and where

OneModerator == {m1}
OnePost == {1}
NoComments == {}
SomeText == {text}
NoPicture == {}
OneCategory == {art}
NothingRefused == {}
==============================================================================
