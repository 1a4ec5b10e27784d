--------------------------------- MODULE Feed ---------------------------------
(***************************************************************************)
(* The home screen (HomeViewController) on one phone: a table of approved  *)
(* posts, all of them or those of one category, chosen in the side menu    *)
(* and reloaded by a pull on the refresh control.                          *)
(*                                                                         *)
(* Nothing cancels a query: the answers to earlier choices are shown when  *)
(* they arrive, in whatever order.  Around the screen, authors and         *)
(* moderators take the steps of ItemLifecycle; the phone may itself be a   *)
(* moderator's, with approvals and denials still waiting to be sent.       *)
(*                                                                         *)
(* Posts are numbers: the number is the "time" the queries sort by.        *)
(***************************************************************************)
EXTENDS Naturals, FiniteSets, SequencesExt

CONSTANTS
    Post,               \* posts, by their time stamp
    Category,           \* the categories of the side menu
    CategoriesOf,       \* the "categories" of each post
    PageSize,           \* .limit(to: 15)
    MaxInFlight         \* bound: unanswered queries and unshown answers

ASSUME PostAssumption == Post \subseteq Nat
ASSUME CategoryAssumption ==
    "" \notin Category /\ CategoriesOf \in [Post -> SUBSET Category]
ASSUME PageAssumption == PageSize \in Nat \ {0}

VARIABLES
    docs, approvals, denials,   \* the world, as in ItemLifecycle
    currentCategory,            \* what a refresh reloads
    chosen,                     \* history: the last choice in the menu
    quiet,                      \* history: at the last choice or reload it was
                                \* for the feed chosen, and so was all that was
                                \* under way; not all of it has failed since
    asked,                      \* asked[f]: queries sent, not yet answered
    mainQueue,                  \* answers waiting to run on the main queue
    shown,                      \* postsToShow, and the feed they answer
    cache                       \* posts the client holds as approved

world == <<docs, approvals, denials>>
history == <<chosen, quiet>>
vars == <<world, currentCategory, history, asked, mainQueue, shown, cache>>

Lifecycle == INSTANCE ItemLifecycle WITH Item <- Post

\* loadPosts asks for everything, loadSpecificPosts for one category.
Everything == ""
Feeds == Category \union {Everything}
Matches(i, f) == f = Everything \/ f \in CategoriesOf[i]

Page == [feed : Feeds, rows : Seq(Post)]

\* viewDidLoad: an empty table, and a first query.
Init ==
    /\ Lifecycle!Init
    /\ currentCategory = Everything
    /\ chosen = Everything /\ quiet = TRUE
    /\ asked = [f \in Feeds |-> IF f = Everything THEN 1 ELSE 0]
    /\ mainQueue = <<>>
    /\ shown = [feed |-> Everything, rows |-> <<>>]
    /\ cache = {}

World ==
    /\ Lifecycle!Next
    /\ UNCHANGED <<currentCategory, history, asked, mainQueue, shown, cache>>
------------------------------------------------------------------------------
(* The screen.                                                             *)

InFlight == FoldFunction(+, 0, asked) + Len(mainQueue)

OnlyUnderWay(f) ==
    /\ \A g \in Feeds : g # f => asked[g] = 0
    /\ \A k \in DOMAIN mainQueue : mainQueue[k].feed = f

Ask(f) ==
    /\ InFlight < MaxInFlight
    /\ asked' = [asked EXCEPT ![f] = @ + 1]
    /\ UNCHANGED <<world, mainQueue, shown, cache>>

\* didSelectMenuItem("home"): currentCategory keeps its value.
ChooseHome ==
    /\ Ask(Everything)
    /\ chosen' = Everything /\ quiet' = OnlyUnderWay(Everything)
    /\ UNCHANGED currentCategory

\* Slip: the query is sent before the category is set.
ChooseCategoryLate(c) ==
    /\ Ask(currentCategory)
    /\ currentCategory' = c
    /\ chosen' = c /\ quiet' = OnlyUnderWay(c)

ChooseCategory(c) ==
    /\ Ask(c)
    /\ currentCategory' = c
    /\ chosen' = c /\ quiet' = OnlyUnderWay(c)

\* reloadPosts, on a pull; the refresh control is released at once.  After
\* "home" has been chosen it may ask for the category chosen before.
ReloadPosts ==
    /\ Ask(currentCategory)
    /\ quiet' = (currentCategory = chosen /\ OnlyUnderWay(chosen))
    /\ UNCHANGED <<currentCategory, chosen>>

\* Slip: the rows are not cleared before the answer's are appended.
ShowAnswerBelow ==
    /\ mainQueue # <<>>
    /\ shown' = [feed |-> Head(mainQueue).feed,
                 rows |-> shown.rows \o Head(mainQueue).rows]
    /\ mainQueue' = Tail(mainQueue)
    /\ UNCHANGED <<world, currentCategory, history, asked, cache>>

\* The completion block: removeAll, then one row per document.
ShowAnswer ==
    /\ mainQueue # <<>>
    /\ shown' = Head(mainQueue)
    /\ mainQueue' = Tail(mainQueue)
    /\ UNCHANGED <<world, currentCategory, history, asked, cache>>

\* A killed and reopened app, or a new login, makes a new view controller;
\* what an old one still waits for is never seen.
OpenHome ==
    /\ currentCategory' = Everything
    /\ chosen' = Everything /\ quiet' = TRUE
    /\ asked' = [f \in Feeds |-> IF f = Everything THEN 1 ELSE 0]
    /\ mainQueue' = <<>>
    /\ shown' = [feed |-> Everything, rows |-> <<>>]
    /\ UNCHANGED <<world, cache>>
------------------------------------------------------------------------------
(* The Firestore client and the server.                                    *)

\* Slip: whereField("approved", isEqualTo: true) is missing.
ApprovedUnfiltered == {i \in Post : docs[i] \in {"pending", "approved"}}

Approved == {i \in Post : docs[i] = "approved"}

\* An approval waiting in this phone's own queue of writes is laid over the
\* server's answer; whether the phone is the one that holds it is left open.
ApprovedHere == {i \in approvals : docs[i] = "pending"}

\* The lists of posts of feed f, newest first, that fit on a page.
IsPage(f, s) ==
    /\ Len(s) <= PageSize
    /\ \A j, k \in DOMAIN s : j < k => s[j] > s[k]
    /\ \A k \in DOMAIN s : Matches(s[k], f)

\* The first n of S, newest first.
Newest(S, n) == {i \in S : Cardinality({j \in S : j > i}) < n}

\* One of the newest approved posts is missing only if this phone may have
\* removed it, or if newer ones fill the page.
IsComplete(f, s) ==
    \A i \in Newest({j \in Approved : Matches(j, f)}, PageSize) \ denials :
        \/ i \in ToSet(s)
        \/ Len(s) = PageSize /\ \A j \in ToSet(s) : j > i

Answered(f, s) ==
    /\ asked[f] > 0
    /\ asked' = [asked EXCEPT ![f] = @ - 1]
    /\ mainQueue' = Append(mainQueue, [feed |-> f, rows |-> s])
    /\ UNCHANGED <<world, currentCategory, history, shown>>

AnswerLoad(f) ==
    \E s \in BoundedSeq(Approved \union ApprovedHere, PageSize) :
        /\ IsPage(f, s)
        /\ IsComplete(f, s)
        /\ Answered(f, s)
        /\ cache' = cache \union ToSet(s)

\* Offline: some of what earlier answers have left in the cache, deleted
\* posts included.
AnswerFromCache(f) ==
    \E s \in BoundedSeq(cache \union ApprovedHere, PageSize) :
        /\ IsPage(f, s)
        /\ Answered(f, s)
        /\ UNCHANGED cache

\* "Error getting posts": an alert, and the rows stay.
FailLoad(f) ==
    /\ asked[f] > 0
    /\ asked' = [asked EXCEPT ![f] = @ - 1]
    /\ quiet' =
        (quiet /\ (shown.feed = chosen \/ mainQueue # <<>> \/ asked'[chosen] > 0))
    /\ UNCHANGED <<world, currentCategory, chosen, mainQueue, shown, cache>>

Screen ==
    \/ ChooseHome
    \/ \E c \in Category : ChooseCategory(c)
    \/ ReloadPosts
    \/ ShowAnswer
    \/ OpenHome

Client == \E f \in Feeds : AnswerLoad(f) \/ AnswerFromCache(f) \/ FailLoad(f)

Next == World \/ Screen \/ Client

Spec == Init /\ [][Next]_vars
------------------------------------------------------------------------------
(* Properties.                                                             *)

TypeOK ==
    /\ docs \in [Post -> {"absent", "pending", "approved", "deleted"}]
    /\ approvals \subseteq Post /\ denials \subseteq Post
    /\ currentCategory \in Feeds /\ chosen \in Feeds /\ quiet \in BOOLEAN
    /\ asked \in [Feeds -> Nat]
    /\ mainQueue \in Seq(Page)
    /\ shown \in Page
    /\ cache \subseteq Post

\* Nobody sees a post no moderator has approved: not from the server, not
\* from a cache filled before the post was removed, not from a write that is
\* still on its way.
OnlyApprovedShown == ToSet(shown.rows) \subseteq approvals

\* However menu choices and refreshes overlap, the table is one page of one
\* feed: newest first, no post twice, no more than the limit, every post of
\* the category that was asked for.
TableIsOnePage == IsPage(shown.feed, shown.rows)

\* A choice made while nothing is under way for another feed is what the table
\* shows once its queries are answered, however often it is chosen again or
\* reloaded meanwhile and whichever of its queries fail, as long as one is
\* answered; and a later pull puts right what failures or overlapping choices
\* have left.  Two cases are excepted: choices that overlap, whose answers may
\* come the other way round, and the reload of another feed than the one
\* chosen, which a pull after "home" is.  Either leaves the table at odds with
\* the choice until the next choice or pull.
QuietChoiceIsShown ==
    quiet /\ mainQueue = <<>> /\ asked[chosen] = 0 => shown.feed = chosen
------------------------------------------------------------------------------
(* The inductive invariants behind the theorems of Feed_proofs.            *)

Blocks == {mainQueue[k] : k \in DOMAIN mainQueue}

ApprovedByModerators == \A i \in Post : docs[i] = "approved" => i \in approvals

\* Everything that can still reach the table was approved by a moderator.
ModeratedInv ==
    /\ TypeOK
    /\ ApprovedByModerators
    /\ cache \subseteq approvals
    /\ \A b \in Blocks : ToSet(b.rows) \subseteq approvals
    /\ OnlyApprovedShown

PagesInv ==
    /\ TypeOK
    /\ \A b \in Blocks : IsPage(b.feed, b.rows)
    /\ TableIsOnePage

\* After a quiet choice everything under way is for the feed chosen.
QuietInv ==
    /\ TypeOK
    /\ quiet => OnlyUnderWay(chosen)
    /\ QuietChoiceIsShown
==============================================================================
