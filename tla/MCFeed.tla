-------------------------------- MODULE MCFeed --------------------------------
(* A small instance of Feed for TLC. *)
EXTENDS Feed

TwoPosts == {1, 2}
OneCategory == {"art"}

\* A post of no category, and a newer one.
OnlySecond == [i \in Post |-> IF i = 1 THEN {} ELSE {"art"}]
==============================================================================
