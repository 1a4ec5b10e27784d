------------------------------ MODULE SavedFeed ------------------------------
(***************************************************************************)
(* The list of saved posts (SavedViewController): one read of the user's   *)
(* document gives the ids, and for each id a read of the post follows.     *)
(* The rows are cleared when the ids come and appended one by one as the   *)
(* posts come, in any order; a refresh may overlap another.                *)
(*                                                                         *)
(* Meanwhile the user saves and unsaves posts on other screens, and        *)
(* moderators remove posts.                                                *)
(***************************************************************************)
EXTENDS Naturals, FiniteSets, SequencesExt

CONSTANTS
    Saveable,           \* the posts that can be saved
    MaxReads            \* bound: unfinished reads when a load is started

VARIABLES
    savedPosts, \* the array of the user's document
    stored,     \* the posts that exist on the server
    listing,    \* reads of the user's document under way
    fetching,   \* fetching[p]: reads of post p under way
    postsToShow,\* the rows
    listed,     \* the ids that came last
    missed,     \* history: posts an error was shown for since
    overlap     \* history: the reads of posts under way just then

server == <<savedPosts, stored>>
screen == <<listing, fetching, postsToShow, listed, missed, overlap>>
savedVars == <<server, screen>>

SavedInit ==
    /\ savedPosts \in SUBSET Saveable
    /\ stored = Saveable
    /\ listing = 1
    /\ fetching = [p \in Saveable |-> 0]
    /\ postsToShow = <<>>
    /\ listed = {} /\ missed = {}
    /\ overlap = fetching

ReadsUnderWay == listing + FoldFunction(+, 0, fetching)

Press(p) ==
    /\ savedPosts' = SymDiff(savedPosts, {p})
    /\ UNCHANGED <<stored, screen>>

RemovePost(p) ==
    /\ stored' = stored \ {p}
    /\ UNCHANGED <<savedPosts, screen>>

\* viewDidLoad, or a pull on the refresh control, which is released at once.
LoadSavedPosts ==
    /\ ReadsUnderWay < MaxReads
    /\ listing' = listing + 1
    /\ UNCHANGED <<server, fetching, postsToShow, listed, missed, overlap>>

\* Slip: a post whose row is on the screen is not read again.
ShowListSkippingShown ==
    /\ listing > 0
    /\ listing' = listing - 1
    /\ listed' = savedPosts /\ overlap' = fetching
    /\ postsToShow' = <<>> /\ missed' = {}
    /\ fetching' = [p \in Saveable |->
            IF p \in savedPosts /\ p \notin ToSet(postsToShow)
            THEN fetching[p] + 1 ELSE fetching[p]]
    /\ UNCHANGED server

\* Slip: the rows are not cleared when the ids come.
ShowListBelow ==
    /\ listing > 0
    /\ listing' = listing - 1
    /\ listed' = savedPosts /\ overlap' = fetching
    /\ missed' = {}
    /\ fetching' = [p \in Saveable |->
            IF p \in savedPosts THEN fetching[p] + 1 ELSE fetching[p]]
    /\ UNCHANGED <<server, postsToShow>>

\* The ids have come: removeAll, and a read for each of them.  The reads of
\* an earlier load are not called off.
ShowList ==
    /\ listing > 0
    /\ listing' = listing - 1
    /\ listed' = savedPosts /\ overlap' = fetching
    /\ postsToShow' = <<>> /\ missed' = {}
    /\ fetching' = [p \in Saveable |->
            IF p \in savedPosts THEN fetching[p] + 1 ELSE fetching[p]]
    /\ UNCHANGED server

\* "Saved posts could not be retrieved.": the rows stay.
FailList ==
    /\ listing > 0
    /\ listing' = listing - 1
    /\ UNCHANGED <<server, fetching, postsToShow, listed, missed, overlap>>

ShowPost(p) ==
    /\ fetching[p] > 0
    /\ p \in stored
    /\ fetching' = [fetching EXCEPT ![p] = @ - 1]
    /\ postsToShow' = Append(postsToShow, p)
    /\ UNCHANGED <<server, listing, listed, missed, overlap>>

\* The post is gone, or could not be read: the same alert, and no row.
FailPost(p) ==
    /\ fetching[p] > 0
    /\ fetching' = [fetching EXCEPT ![p] = @ - 1]
    /\ missed' = missed \union {p}
    /\ UNCHANGED <<server, listing, postsToShow, listed, overlap>>

\* The screen is left and entered again, or the app killed and reopened.
OpenSaved ==
    /\ listing' = 1
    /\ fetching' = [p \in Saveable |-> 0]
    /\ overlap' = [p \in Saveable |-> 0]
    /\ postsToShow' = <<>>
    /\ listed' = {} /\ missed' = {}
    /\ UNCHANGED server

SavedNext ==
    \/ OpenSaved
    \/ \E p \in Saveable :
        \/ Press(p)
        \/ RemovePost(p)
        \/ ShowPost(p)
        \/ FailPost(p)
    \/ LoadSavedPosts
    \/ ShowList
    \/ FailList

SavedSpec == SavedInit /\ [][SavedNext]_savedVars
------------------------------------------------------------------------------
(* Properties.                                                             *)

SavedTypeOK ==
    /\ savedPosts \subseteq Saveable /\ stored \subseteq Saveable
    /\ listing \in Nat
    /\ fetching \in [Saveable -> Nat]
    /\ postsToShow \in Seq(Saveable)
    /\ listed \subseteq Saveable /\ missed \subseteq Saveable
    /\ overlap \in [Saveable -> Nat]

\* No saved post is skipped in silence: whatever loads overlap, and although
\* each clears rows another has appended, every id that came last has a row,
\* a read under way, or an alert.
NothingIsSkipped ==
    \A p \in listed : p \in ToSet(postsToShow) \/ fetching[p] > 0 \/ p \in missed

\* Duplicates come from overlapping loads and from nothing else: a post has
\* one row if it was listed, and one more at most for each read of it that was
\* still under way when the ids came.
RowsOf(p) == {k \in DOMAIN postsToShow : postsToShow[k] = p}

NoMoreRowsThanReads ==
    \A p \in Saveable :
        Cardinality(RowsOf(p)) + fetching[p]
            <= overlap[p] + (IF p \in listed THEN 1 ELSE 0)
==============================================================================
