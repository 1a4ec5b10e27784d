----------------------------- MODULE MCSavedFeed ------------------------------
(* A small instance of SavedFeed for TLC. *)
EXTENDS SavedFeed

CONSTANTS p1, p2        \* two posts

TwoPosts == {p1, p2}
==============================================================================
