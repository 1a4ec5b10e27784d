--------------------------- MODULE MCModerationQueue --------------------------
(* Small instances of ModerationQueue for TLC. *)
EXTENDS ModerationQueue

CONSTANTS m1, m2          \* two moderators' phones

Moderators == {m1, m2}
OneModerator == {m1}
OnePost == {1}
TwoPosts == {1, 2}
NoComments == {}
OneComment == {11}
NothingRefused == {}
SomethingRefused == {<<"approve", 1>>, <<"delete", 1>>, <<"delete", 2>>}
==============================================================================
