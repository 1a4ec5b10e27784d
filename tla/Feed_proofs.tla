----------------------------- MODULE Feed_proofs -----------------------------
(***************************************************************************)
(* Proofs about the two lists of posts, for every set of posts and any     *)
(* number of overlapping loads: the home screen, with every set of         *)
(* categories and every page size, and then the list of saved posts.       *)
(***************************************************************************)
EXTENDS Feed, SavedFeed, QueueLemmas, FiniteSetTheorems, TLAPS

\* The steps of authors and moderators, as far as the table depends on them.
LEMMA WorldStep ==
    ASSUME TypeOK, ApprovedByModerators, World
    PROVE  /\ docs' \in [Post -> {"absent", "pending", "approved", "deleted"}]
           /\ approvals \subseteq approvals' /\ approvals' \subseteq Post
           /\ denials' \subseteq Post
           /\ ApprovedByModerators'
           /\ UNCHANGED <<currentCategory, history, asked, mainQueue, shown,
                          cache>>
<1> USE DEF TypeOK, ApprovedByModerators
<1>1. ASSUME NEW i \in Post, Lifecycle!Submit(i)
      PROVE  /\ docs' = [docs EXCEPT ![i] = "pending"]
             /\ UNCHANGED <<approvals, denials>>
  BY <1>1 DEF Lifecycle!Submit
<1>2. ASSUME NEW i \in Post, Lifecycle!AskApproval(i)
      PROVE  /\ approvals' = approvals \union {i}
             /\ UNCHANGED <<docs, denials>>
  BY <1>2 DEF Lifecycle!AskApproval
<1>3. ASSUME NEW i \in Post, Lifecycle!AskRemoval(i)
      PROVE  /\ denials' = denials \union {i}
             /\ UNCHANGED <<docs, approvals>>
  BY <1>3 DEF Lifecycle!AskRemoval
<1>4. ASSUME NEW i \in Post, Lifecycle!Approve(i)
      PROVE  /\ docs' = [docs EXCEPT ![i] = "approved"] /\ i \in approvals
             /\ UNCHANGED <<approvals, denials>>
  BY <1>4 DEF Lifecycle!Approve
<1>5. ASSUME NEW i \in Post, Lifecycle!Remove(i)
      PROVE  /\ docs' = [docs EXCEPT ![i] = "deleted"]
             /\ UNCHANGED <<approvals, denials>>
  BY <1>5 DEF Lifecycle!Remove
<1>6. \E i \in Post : \/ Lifecycle!Submit(i)
                      \/ Lifecycle!AskApproval(i)
                      \/ Lifecycle!AskRemoval(i)
                      \/ Lifecycle!Approve(i)
                      \/ Lifecycle!Remove(i)
  BY DEF World, Lifecycle!Next
<1>7. UNCHANGED <<currentCategory, history, asked, mainQueue, shown, cache>>
  BY DEF World
<1> QED BY <1>1, <1>2, <1>3, <1>4, <1>5, <1>6, <1>7

\* What a step outside the world does to the answers on their way: nothing,
\* clear them, take the first, or add one that fits a page.
LEMMA ScreenStep ==
    ASSUME TypeOK, Screen
    PROVE  /\ UNCHANGED <<world, cache>>
           /\ currentCategory' \in Feeds /\ chosen' \in Feeds
           /\ quiet' \in BOOLEAN
           /\ asked' \in [Feeds -> Nat]
           /\ \/ UNCHANGED <<mainQueue, shown>>
              \/ /\ mainQueue # <<>>
                 /\ shown' = Head(mainQueue) /\ mainQueue' = Tail(mainQueue)
              \/ /\ mainQueue' = <<>>
                 /\ shown' = [feed |-> Everything, rows |-> <<>>]
<1> USE DEF TypeOK
<1>1. Everything \in Feeds /\ Category \subseteq Feeds
  BY DEF Feeds
<1>2. ASSUME NEW f \in Feeds, Ask(f)
      PROVE  /\ asked' \in [Feeds -> Nat]
             /\ UNCHANGED <<world, mainQueue, shown, cache>>
  BY <1>2 DEF Ask
<1>3. CASE ChooseHome
  <2>1. OnlyUnderWay(Everything) \in BOOLEAN
    BY DEF OnlyUnderWay
  <2> QED BY <1>1, <1>2, <1>3, <2>1 DEF ChooseHome
<1>4. ASSUME NEW c \in Category, ChooseCategory(c)
      PROVE  /\ Ask(c) /\ currentCategory' = c /\ chosen' = c /\ c \in Feeds
             /\ quiet' \in BOOLEAN
  <2>1. OnlyUnderWay(c) \in BOOLEAN
    BY DEF OnlyUnderWay
  <2> QED BY <1>1, <1>4, <2>1 DEF ChooseCategory
<1>5. CASE ReloadPosts
  <2>1. quiet' \in BOOLEAN
    BY <1>5 DEF ReloadPosts
  <2> QED BY <1>2, <1>5, <2>1 DEF ReloadPosts
<1>6. CASE ShowAnswer
  BY <1>6 DEF ShowAnswer, history
<1>7. CASE OpenHome
  BY <1>1, <1>7 DEF OpenHome
<1> QED BY <1>2, <1>3, <1>4, <1>5, <1>6, <1>7 DEF Screen

LEMMA ClientStep ==
    ASSUME TypeOK, Client
    PROVE  /\ UNCHANGED <<world, currentCategory, chosen, shown>>
           /\ quiet' \in BOOLEAN
           /\ asked' \in [Feeds -> Nat]
           /\ \/ UNCHANGED <<mainQueue, cache>>
              \/ \E f \in Feeds : \E s \in Seq(Post) :
                    /\ IsPage(f, s)
                    /\ ToSet(s) \subseteq Approved \union ApprovedHere
                                            \union cache
                    /\ mainQueue' = Append(mainQueue, [feed |-> f, rows |-> s])
                    /\ cache' \in {cache, cache \union ToSet(s)}
<1> USE DEF TypeOK
<1>1. Approved \union ApprovedHere \union cache \subseteq Post
  BY DEF Approved, ApprovedHere
<1>2. ASSUME NEW f \in Feeds, NEW s, Answered(f, s)
      PROVE  /\ UNCHANGED <<world, currentCategory, chosen, shown>>
             /\ quiet' \in BOOLEAN
             /\ asked' \in [Feeds -> Nat]
             /\ mainQueue' = Append(mainQueue, [feed |-> f, rows |-> s])
  BY <1>2 DEF Answered, history
<1>3. ASSUME NEW S, S \subseteq Approved \union ApprovedHere \union cache,
             NEW s \in BoundedSeq(S, PageSize)
      PROVE  /\ s \in Seq(Post)
             /\ ToSet(s) \subseteq Approved \union ApprovedHere \union cache
  <2>1. s \in Seq(S)
    BY PageAssumption, BoundedSeqIsSeq
  <2>2. s \in Seq(Post)
    BY <1>1, <1>3, <2>1
  <2>3. ToSet(s) \subseteq S
    BY <2>1 DEF ToSet
  <2> QED BY <1>3, <2>2, <2>3
<1>4. ASSUME NEW f \in Feeds, AnswerLoad(f)
      PROVE  \E s \in Seq(Post) :
                /\ Answered(f, s) /\ IsPage(f, s)
                /\ ToSet(s) \subseteq Approved \union ApprovedHere \union cache
                /\ cache' = cache \union ToSet(s)
  <2>1. PICK s \in BoundedSeq(Approved \union ApprovedHere, PageSize) :
          /\ IsPage(f, s) /\ Answered(f, s) /\ cache' = cache \union ToSet(s)
    BY <1>4 DEF AnswerLoad
  <2>2. /\ s \in Seq(Post)
        /\ ToSet(s) \subseteq Approved \union ApprovedHere \union cache
    BY <1>3
  <2> QED BY <2>1, <2>2
<1>5. ASSUME NEW f \in Feeds, AnswerFromCache(f)
      PROVE  \E s \in Seq(Post) :
                /\ Answered(f, s) /\ IsPage(f, s)
                /\ ToSet(s) \subseteq Approved \union ApprovedHere \union cache
                /\ cache' = cache
  <2>1. PICK s \in BoundedSeq(cache \union ApprovedHere, PageSize) :
          IsPage(f, s) /\ Answered(f, s) /\ cache' = cache
    BY <1>5 DEF AnswerFromCache
  <2>2. /\ s \in Seq(Post)
        /\ ToSet(s) \subseteq Approved \union ApprovedHere \union cache
    BY <1>3
  <2> QED BY <2>1, <2>2
<1>6. ASSUME NEW f \in Feeds, FailLoad(f)
      PROVE  /\ UNCHANGED <<world, currentCategory, chosen, shown, mainQueue,
                            cache>>
             /\ quiet' \in BOOLEAN
             /\ asked' \in [Feeds -> Nat]
  <2>1. quiet' \in BOOLEAN
    BY <1>6 DEF FailLoad
  <2> QED BY <1>6, <2>1 DEF FailLoad
<1> QED BY <1>2, <1>4, <1>5, <1>6 DEF Client
------------------------------------------------------------------------------
LEMMA InitType == Init => TypeOK
  BY DEF Init, Lifecycle!Init, TypeOK, Feeds, Page

LEMMA NextType == TypeOK /\ [Next]_vars => TypeOK'
<1> SUFFICES ASSUME TypeOK, [Next]_vars PROVE TypeOK'
  OBVIOUS
<1> USE DEF world, history
<1>1. CASE World
  <2>1. /\ docs' \in [Post -> {"absent", "pending", "approved", "deleted"}]
        /\ approvals' \subseteq Post /\ denials' \subseteq Post
    BY <1>1 DEF World, TypeOK, Lifecycle!Next, Lifecycle!Submit,
                Lifecycle!AskApproval, Lifecycle!AskRemoval,
                Lifecycle!Approve, Lifecycle!Remove
  <2>2. UNCHANGED <<currentCategory, history, asked, mainQueue, shown, cache>>
    BY <1>1 DEF World
  <2> QED BY <2>1, <2>2 DEF TypeOK
<1>2. CASE Screen
  <2>1. mainQueue # <<>> => Head(mainQueue) \in Page
                            /\ Tail(mainQueue) \in Seq(Page)
    BY DEF TypeOK
  <2>2. [feed |-> Everything, rows |-> <<>>] \in Page /\ <<>> \in Seq(Page)
    BY DEF Page, Feeds
  <2>3. shown' \in Page /\ mainQueue' \in Seq(Page)
    BY <1>2, <2>1, <2>2, ScreenStep DEF TypeOK
  <2> QED BY <1>2, <2>3, ScreenStep DEF TypeOK
<1>3. CASE Client
  <2>1. CASE UNCHANGED <<mainQueue, cache>>
    BY <1>3, <2>1, ClientStep DEF TypeOK
  <2>2. ASSUME NEW f \in Feeds, NEW s \in Seq(Post),
               ToSet(s) \subseteq Approved \union ApprovedHere \union cache,
               mainQueue' = Append(mainQueue, [feed |-> f, rows |-> s]),
               cache' \in {cache, cache \union ToSet(s)}
        PROVE  mainQueue' \in Seq(Page) /\ cache' \subseteq Post
    <3>1. [feed |-> f, rows |-> s] \in Page
      BY DEF Page
    <3>2. ToSet(s) \subseteq Post
      BY DEF ToSet
    <3> QED BY <2>2, <3>1, <3>2 DEF TypeOK
  <2> QED BY <1>3, <2>1, <2>2, ClientStep DEF TypeOK
<1>4. CASE UNCHANGED vars
  BY <1>4 DEF vars, TypeOK
<1> QED BY <1>1, <1>2, <1>3, <1>4 DEF Next

\* Every reachable state is well typed: in particular a refresh always asks
\* for a feed that exists.
THEOREM FeedTypeCorrect == Spec => []TypeOK
<1>1. Init => TypeOK
  BY InitType
<1>2. TypeOK /\ [Next]_vars => TypeOK'
  BY NextType
<1> QED BY <1>1, <1>2, PTL DEF Spec
------------------------------------------------------------------------------
\* A property of pages that the new answers have, and the empty table, is a
\* property of every page on the phone.
LEMMA BlocksChange ==
    ASSUME TypeOK, [Next]_vars
    PROVE  /\ \/ shown' = shown
              \/ shown' \in Blocks
              \/ shown' = [feed |-> Everything, rows |-> <<>>]
           /\ \/ Blocks' \subseteq Blocks
              \/ \E f \in Feeds : \E s \in Seq(Post) :
                    /\ IsPage(f, s)
                    /\ ToSet(s) \subseteq Approved \union ApprovedHere
                                            \union cache
                    /\ approvals' = approvals
                    /\ Blocks' \subseteq Blocks
                                     \union {[feed |-> f, rows |-> s]}
<1> USE DEF TypeOK, Blocks
<1>1. CASE World \/ UNCHANGED vars
  BY <1>1 DEF World, vars
<1>2. CASE Screen
  <2>1. CASE UNCHANGED <<mainQueue, shown>>
    BY <2>1
  <2>2. CASE /\ mainQueue # <<>>
             /\ shown' = Head(mainQueue) /\ mainQueue' = Tail(mainQueue)
    <3>1. 1 \in DOMAIN mainQueue /\ Head(mainQueue) = mainQueue[1]
      BY <2>2
    <3>2. \A k \in DOMAIN mainQueue' :
            k + 1 \in DOMAIN mainQueue /\ mainQueue'[k] = mainQueue[k + 1]
      BY <2>2
    <3> QED BY <2>2, <3>1, <3>2
  <2>3. CASE /\ mainQueue' = <<>>
             /\ shown' = [feed |-> Everything, rows |-> <<>>]
    BY <2>3
  <2> QED BY <1>2, <2>1, <2>2, <2>3, ScreenStep
<1>3. CASE Client
  <2>1. shown' = shown /\ approvals' = approvals
    BY <1>3, ClientStep DEF world
  <2>2. CASE UNCHANGED mainQueue
    BY <2>1, <2>2
  <2>3. ASSUME NEW f \in Feeds, NEW s \in Seq(Post),
               mainQueue' = Append(mainQueue, [feed |-> f, rows |-> s])
        PROVE  Blocks' \subseteq Blocks \union {[feed |-> f, rows |-> s]}
    <3> DEFINE b == [feed |-> f, rows |-> s]
    <3>1. mainQueue' = Append(mainQueue, b)
      BY <2>3
    <3> HIDE DEF b
    <3>2. \A k \in DOMAIN mainQueue' :
            \/ k \in DOMAIN mainQueue /\ mainQueue'[k] = mainQueue[k]
            \/ mainQueue'[k] = b
      BY <3>1
    <3>3. Blocks' \subseteq Blocks \union {b}
      BY <3>2
    <3> QED BY <3>3 DEF b
  <2> HIDE DEF Blocks, TypeOK
  <2> QED BY <1>3, <2>1, <2>2, <2>3, ClientStep
<1> QED BY <1>1, <1>2, <1>3 DEF Next

LEMMA ModeratedStep == ModeratedInv /\ [Next]_vars => ModeratedInv'
<1> SUFFICES ASSUME ModeratedInv, [Next]_vars PROVE ModeratedInv'
  OBVIOUS
<1> USE DEF ModeratedInv
<1>1. TypeOK'
  BY NextType
<1>2. ApprovedByModerators' /\ approvals \subseteq approvals'
  <2>1. CASE World
    BY <2>1, WorldStep
  <2>2. CASE UNCHANGED <<docs, approvals>>
    BY <2>2 DEF ApprovedByModerators
  <2> QED BY <2>1, <2>2, ScreenStep, ClientStep DEF Next, vars, world
<1>3. Approved \union ApprovedHere \union cache \subseteq approvals
  BY DEF ApprovedByModerators, Approved, ApprovedHere
<1>4. cache' \subseteq approvals'
  <2>1. CASE cache' = cache
    BY <1>2, <2>1
  <2>2. CASE Client
    BY <1>2, <1>3, <2>2, ClientStep
  <2> QED BY <2>1, <2>2, ScreenStep, WorldStep DEF Next, vars
<1>5. \A b \in Blocks' : ToSet(b.rows) \subseteq approvals'
  <2>1. CASE Blocks' \subseteq Blocks
    BY <1>2, <2>1
  <2>2. ASSUME NEW f \in Feeds, NEW s \in Seq(Post),
               ToSet(s) \subseteq Approved \union ApprovedHere \union cache,
               Blocks' \subseteq Blocks \union {[feed |-> f, rows |-> s]}
        PROVE  \A b \in Blocks' : ToSet(b.rows) \subseteq approvals'
    BY <1>2, <1>3, <2>2
  <2> QED BY <2>1, <2>2, BlocksChange
<1>6. OnlyApprovedShown'
  <2>1. CASE shown' = shown
    BY <1>2, <2>1 DEF OnlyApprovedShown
  <2>2. CASE shown' \in Blocks
    BY <1>2, <2>2 DEF OnlyApprovedShown
  <2>3. CASE shown' = [feed |-> Everything, rows |-> <<>>]
    BY <2>3 DEF OnlyApprovedShown, ToSet
  <2> QED BY <2>1, <2>2, <2>3, BlocksChange
<1> QED BY <1>1, <1>2, <1>4, <1>5, <1>6

\* No phone ever shows a post that no moderator has approved.
THEOREM FeedIsModerated == Spec => []OnlyApprovedShown
<1>1. Init => ModeratedInv
  <2> SUFFICES ASSUME Init PROVE ModeratedInv
    OBVIOUS
  <2>1. TypeOK
    BY InitType
  <2> QED BY <2>1 DEF Init, Lifecycle!Init, ModeratedInv, Blocks, ToSet,
                      ApprovedByModerators, OnlyApprovedShown
<1>2. ModeratedInv /\ [Next]_vars => ModeratedInv'
  BY ModeratedStep
<1>3. ModeratedInv => OnlyApprovedShown
  BY DEF ModeratedInv
<1> QED BY <1>1, <1>2, <1>3, PTL DEF Spec

LEMMA EmptyPage == IsPage(Everything, <<>>)
  BY PageAssumption DEF IsPage

LEMMA PagesStep == PagesInv /\ [Next]_vars => PagesInv'
<1> SUFFICES ASSUME PagesInv, [Next]_vars PROVE PagesInv'
  OBVIOUS
<1> USE DEF PagesInv
<1>1. TypeOK'
  BY NextType
<1>2. \A b \in Blocks' : IsPage(b.feed, b.rows)
  BY BlocksChange
<1>3. IsPage(shown'.feed, shown'.rows)
  BY EmptyPage, BlocksChange DEF TableIsOnePage
<1> QED BY <1>1, <1>2, <1>3 DEF TableIsOnePage, IsPage, Matches

\* However choices, refreshes and answers overlap, the table is one page of
\* one feed.
THEOREM FeedIsOnePage == Spec => []TableIsOnePage
<1>1. Init => PagesInv
  <2> SUFFICES ASSUME Init PROVE PagesInv
    OBVIOUS
  <2>1. TypeOK
    BY InitType
  <2> QED BY <2>1, EmptyPage DEF Init, PagesInv, Blocks, TableIsOnePage
<1>2. PagesInv /\ [Next]_vars => PagesInv'
  BY PagesStep
<1>3. PagesInv => TableIsOnePage
  BY DEF PagesInv
<1> QED BY <1>1, <1>2, <1>3, PTL DEF Spec
------------------------------------------------------------------------------
LEMMA NoAnswers == mainQueue = <<>> => Blocks = {}
  BY DEF Blocks

\* Asking for the feed just chosen, or chosen before, keeps the invariant.
LEMMA QuietAsk ==
    ASSUME QuietInv, NEW f \in Feeds, Ask(f), chosen' = f,
           quiet' => OnlyUnderWay(f)
    PROVE  /\ quiet' => /\ \A g \in Feeds : g # chosen' => asked'[g] = 0
                        /\ \A b \in Blocks' : b.feed = chosen'
           /\ QuietChoiceIsShown'
<1> USE DEF QuietInv
<1>1. /\ asked \in [Feeds -> Nat] /\ asked' = [asked EXCEPT ![f] = @ + 1]
      /\ mainQueue' = mainQueue
  BY DEF Ask, TypeOK
<1>2. asked'[f] # 0 /\ \A g \in Feeds : g # f => asked'[g] = asked[g]
  BY <1>1
<1>3. Blocks' = Blocks
  BY <1>1 DEF Blocks
<1>4. QuietChoiceIsShown'
  BY <1>2 DEF QuietChoiceIsShown
<1>5. ASSUME quiet' PROVE \A g \in Feeds : g # f => asked'[g] = 0
  BY <1>2, <1>5 DEF OnlyUnderWay
<1>6. ASSUME quiet' PROVE \A b \in Blocks' : b.feed = f
  BY <1>3, <1>6 DEF OnlyUnderWay, Blocks
<1> QED BY <1>4, <1>5, <1>6

LEMMA QuietStep == QuietInv /\ [Next]_vars => QuietInv'
<1> SUFFICES ASSUME QuietInv, [Next]_vars PROVE QuietInv'
  OBVIOUS
<1> DEFINE ForChosen == quiet =>
              /\ \A f \in Feeds : f # chosen => asked[f] = 0
              /\ \A b \in Blocks : b.feed = chosen
<1>1. TypeOK /\ TypeOK' /\ ForChosen /\ QuietChoiceIsShown
  BY NextType DEF QuietInv, OnlyUnderWay, Blocks
<1> SUFFICES ForChosen' /\ QuietChoiceIsShown'
  BY <1>1 DEF QuietInv, OnlyUnderWay, Blocks
<1>2. Everything \in Feeds /\ Category \subseteq Feeds
  BY DEF Feeds
<1>3. CASE World \/ UNCHANGED vars
  <2>1. UNCHANGED <<chosen, quiet, asked, mainQueue, shown>>
    BY <1>3 DEF World, vars, history
  <2> QED BY <1>1, <2>1 DEF Blocks, QuietChoiceIsShown
<1>4. CASE ChooseHome
  <2>1. Ask(Everything) /\ chosen' = Everything /\ (quiet' => OnlyUnderWay(Everything))
    BY <1>4 DEF ChooseHome
  <2> QED BY <1>2, <2>1, QuietAsk
<1>5. ASSUME NEW c \in Category, ChooseCategory(c)
      PROVE  ForChosen' /\ QuietChoiceIsShown'
  <2>1. Ask(c) /\ chosen' = c /\ (quiet' => OnlyUnderWay(c))
    BY <1>5 DEF ChooseCategory
  <2> QED BY <1>2, <2>1, QuietAsk
<1>6. CASE ReloadPosts
  <2>1. /\ Ask(currentCategory) /\ chosen' = chosen
        /\ quiet' => currentCategory = chosen /\ OnlyUnderWay(chosen)
    BY <1>6 DEF ReloadPosts
  <2>2. CASE quiet'
    <3>1. chosen \in Feeds /\ Ask(chosen) /\ chosen' = chosen
      BY <1>1, <2>1, <2>2 DEF TypeOK
    <3> QED BY <2>1, <2>2, <3>1, QuietAsk
  <2>3. CASE ~ quiet'
    BY <2>3 DEF QuietChoiceIsShown
  <2> QED BY <2>2, <2>3
<1>7. CASE ShowAnswer
  <2>1. /\ mainQueue # <<>> /\ mainQueue \in Seq(Page)
        /\ shown' = Head(mainQueue) /\ mainQueue' = Tail(mainQueue)
        /\ UNCHANGED <<chosen, quiet, asked>>
    BY <1>1, <1>7 DEF ShowAnswer, history, TypeOK
  <2>2. Blocks' \subseteq Blocks
    <3>1. \A k \in DOMAIN mainQueue' :
            k + 1 \in DOMAIN mainQueue /\ mainQueue'[k] = mainQueue[k + 1]
      BY <2>1
    <3> QED BY <3>1 DEF Blocks
  <2>3. shown' \in Blocks
    <3>1. 1 \in DOMAIN mainQueue /\ Head(mainQueue) = mainQueue[1]
      BY <2>1
    <3> QED BY <2>1, <3>1 DEF Blocks
  <2>4. QuietChoiceIsShown'
    BY <1>1, <2>1, <2>3 DEF QuietChoiceIsShown
  <2> QED BY <1>1, <2>1, <2>2, <2>4
<1>8. CASE OpenHome
  <2>1. /\ chosen' = Everything /\ mainQueue' = <<>>
        /\ asked' = [f \in Feeds |-> IF f = Everything THEN 1 ELSE 0]
    BY <1>8 DEF OpenHome
  <2>2. \A f \in Feeds : f # chosen' => asked'[f] = 0
    BY <2>1
  <2>3. Blocks' = {}
    BY <2>1 DEF Blocks
  <2>4. QuietChoiceIsShown'
    BY <1>2, <2>1 DEF QuietChoiceIsShown
  <2> QED BY <2>2, <2>3, <2>4
<1>9. ASSUME NEW f \in Feeds, NEW s, Answered(f, s)
      PROVE  ForChosen' /\ QuietChoiceIsShown'
  <2> DEFINE b == [feed |-> f, rows |-> s]
  <2>1. /\ asked[f] > 0 /\ asked' = [asked EXCEPT ![f] = @ - 1]
        /\ mainQueue' = Append(mainQueue, b)
        /\ UNCHANGED <<chosen, quiet>>
    BY <1>9 DEF Answered, history
  <2>2. b.feed = f
    OBVIOUS
  <2> HIDE DEF b
  <2>3. mainQueue \in Seq(Page) /\ asked \in [Feeds -> Nat]
    BY <1>1 DEF TypeOK
  <2>4. \A k \in DOMAIN mainQueue' :
            \/ k \in DOMAIN mainQueue /\ mainQueue'[k] = mainQueue[k]
            \/ mainQueue'[k] = b
    BY <2>1, <2>3
  <2>5. Blocks' \subseteq Blocks \union {b}
    BY <2>4 DEF Blocks
  <2>6. mainQueue' # <<>>
    BY <2>1, <2>3
  <2>7. ASSUME quiet' PROVE f = chosen /\ chosen' = chosen /\ quiet
    BY <1>1, <2>1, <2>7
  <2>8. \A g \in Feeds : g # f => asked'[g] = asked[g]
    BY <2>1, <2>3
  <2> QED BY <1>1, <2>2, <2>5, <2>6, <2>7, <2>8 DEF QuietChoiceIsShown
<1>10. ASSUME NEW f \in Feeds, FailLoad(f)
       PROVE  ForChosen' /\ QuietChoiceIsShown'
  <2>1. /\ asked' = [asked EXCEPT ![f] = @ - 1] /\ asked[f] > 0
        /\ quiet' => /\ quiet
                     /\ \/ shown.feed = chosen \/ mainQueue # <<>>
                        \/ asked'[chosen] > 0
        /\ UNCHANGED <<chosen, mainQueue, shown>>
    BY <1>10 DEF FailLoad
  <2>2. asked \in [Feeds -> Nat] /\ chosen \in Feeds
    BY <1>1 DEF TypeOK
  <2>3. \A g \in Feeds : asked[g] = 0 => asked'[g] = 0
    BY <2>1, <2>2
  <2>4. ForChosen'
    BY <1>1, <2>1, <2>3 DEF Blocks
  <2>5. QuietChoiceIsShown'
    BY <2>1, <2>2 DEF QuietChoiceIsShown
  <2> QED BY <2>4, <2>5
<1> HIDE DEF ForChosen
<1>11. CASE Client
  BY <1>9, <1>10, <1>11 DEF Client, AnswerLoad, AnswerFromCache
<1> QED BY <1>3, <1>4, <1>5, <1>6, <1>7, <1>8, <1>11 DEF Next, Screen

\* A choice, or a pull, made while nothing is under way for another feed is
\* what the table ends up with, for any number of queries in flight and whichever
\* of them fail, as long as one is answered and no pull reloads another feed.
THEOREM QuietChoicePrevails == Spec => []QuietChoiceIsShown
<1>1. Init => QuietInv
  <2> SUFFICES ASSUME Init PROVE QuietInv
    OBVIOUS
  <2>1. TypeOK
    BY InitType
  <2>2. Blocks = {} /\ chosen = Everything /\ Everything \in Feeds
        /\ asked = [f \in Feeds |-> IF f = Everything THEN 1 ELSE 0]
    BY NoAnswers DEF Init, Feeds
  <2> QED BY <2>1, <2>2 DEF QuietInv, QuietChoiceIsShown, OnlyUnderWay, Blocks
<1>2. QuietInv /\ [Next]_vars => QuietInv'
  BY QuietStep
<1>3. QuietInv => QuietChoiceIsShown
  BY DEF QuietInv
<1> QED BY <1>1, <1>2, <1>3, PTL DEF Spec
------------------------------------------------------------------------------
(* The list of saved posts.                                                *)

LEMMA SavedInitType == SavedInit => SavedTypeOK
  BY DEF SavedInit, SavedTypeOK

LEMMA SavedNextType ==
    SavedTypeOK /\ [SavedNext]_savedVars => SavedTypeOK'
<1> SUFFICES ASSUME SavedTypeOK, [SavedNext]_savedVars PROVE SavedTypeOK'
  OBVIOUS
<1> USE DEF SavedTypeOK
<1>1. CASE OpenSaved
  BY <1>1 DEF OpenSaved, server
<1>2. ASSUME NEW p \in Saveable, Press(p) PROVE SavedTypeOK'
  BY <1>2 DEF Press, screen, SymDiff
<1>3. ASSUME NEW p \in Saveable, RemovePost(p) PROVE SavedTypeOK'
  BY <1>3 DEF RemovePost, screen
<1>4. ASSUME NEW p \in Saveable, ShowPost(p) PROVE SavedTypeOK'
  <2>1. Append(postsToShow, p) \in Seq(Saveable)
    BY AppendProperties
  <2> QED BY <1>4, <2>1 DEF ShowPost, server
<1>5. ASSUME NEW p \in Saveable, FailPost(p) PROVE SavedTypeOK'
  BY <1>5 DEF FailPost, server
<1>6. CASE LoadSavedPosts
  BY <1>6 DEF LoadSavedPosts, server
<1>7. CASE ShowList
  BY <1>7 DEF ShowList, server
<1>8. CASE FailList
  BY <1>8 DEF FailList, server
<1>9. CASE UNCHANGED savedVars
  BY <1>9 DEF savedVars, server, screen
<1> QED BY <1>1, <1>2, <1>3, <1>4, <1>5, <1>6, <1>7, <1>8, <1>9 DEF SavedNext

\* Every reachable state is well typed: no read is answered twice.
THEOREM SavedTypeCorrect == SavedSpec => []SavedTypeOK
  BY SavedInitType, SavedNextType, PTL DEF SavedSpec

\* An appended row takes none away.
LEMMA AppendKeepsRows ==
    ASSUME NEW S, NEW s \in Seq(S), NEW e \in S
    PROVE  ToSet(Append(s, e)) = ToSet(s) \union {e}
  BY AppendProperties DEF ToSet

LEMMA NothingIsSkippedStep ==
    SavedTypeOK /\ NothingIsSkipped /\ [SavedNext]_savedVars
        => NothingIsSkipped'
<1> SUFFICES ASSUME SavedTypeOK, NothingIsSkipped,
                    [SavedNext]_savedVars, NEW p \in listed'
             PROVE  (\/ p \in ToSet(postsToShow) \/ fetching[p] > 0
                     \/ p \in missed)'
  BY DEF NothingIsSkipped
<1> USE DEF SavedTypeOK
<1>1. CASE OpenSaved
  BY <1>1 DEF OpenSaved
<1>2. CASE \E q \in Saveable : Press(q) \/ RemovePost(q)
  BY <1>2 DEF Press, RemovePost, screen,
              NothingIsSkipped
<1>3. ASSUME NEW q \in Saveable, ShowPost(q)
      PROVE  (\/ p \in ToSet(postsToShow) \/ fetching[p] > 0
                     \/ p \in missed)'
  <2>1. ToSet(postsToShow') = ToSet(postsToShow) \union {q}
    BY <1>3, AppendKeepsRows DEF ShowPost
  <2>2. p # q => fetching'[p] = fetching[p]
    BY <1>3 DEF ShowPost
  <2> QED BY <1>3, <2>1, <2>2 DEF ShowPost, NothingIsSkipped
<1>4. ASSUME NEW q \in Saveable, FailPost(q)
      PROVE  (\/ p \in ToSet(postsToShow) \/ fetching[p] > 0
                     \/ p \in missed)'
  BY <1>4 DEF FailPost, NothingIsSkipped
<1>5. CASE LoadSavedPosts \/ FailList
  BY <1>5 DEF LoadSavedPosts, FailList, NothingIsSkipped
<1>6. CASE ShowList
  BY <1>6 DEF ShowList
<1>7. CASE UNCHANGED savedVars
  BY <1>7 DEF savedVars, screen, NothingIsSkipped
<1> QED BY <1>1, <1>2, <1>3, <1>4, <1>5, <1>6, <1>7 DEF SavedNext

\* However loads overlap, clear and append, a post whose id came last has a
\* row, a read under way, or an alert.
THEOREM NothingSkipped == SavedSpec => []NothingIsSkipped
<1>1. SavedInit => NothingIsSkipped
  BY DEF SavedInit, NothingIsSkipped
<1> QED BY <1>1, SavedTypeCorrect, NothingIsSkippedStep, PTL DEF SavedSpec

RowsIn(s, p) == {k \in DOMAIN s : s[k] = p}

LEMMA RowsAreFinite ==
    ASSUME NEW S, NEW s \in Seq(S), NEW p
    PROVE  /\ IsFiniteSet(RowsIn(s, p))
           /\ Cardinality(RowsIn(s, p)) \in Nat
<1>1. IsFiniteSet(1 .. Len(s))
  BY FS_Interval
<1>2. RowsIn(s, p) \subseteq 1 .. Len(s)
  BY DEF RowsIn
<1> QED BY <1>1, <1>2, FS_Subset, FS_CardinalityType

\* An appended row is one row more of its post, and none of any other.
LEMMA AppendAddsOneRow ==
    ASSUME NEW S, NEW s \in Seq(S), NEW q \in S, NEW p \in S
    PROVE  Cardinality(RowsIn(Append(s, q), p))
              = Cardinality(RowsIn(s, p)) + (IF p = q THEN 1 ELSE 0)
<1> DEFINE n == Len(s) + 1
<1>1. RowsIn(Append(s, q), p)
        = RowsIn(s, p) \union (IF p = q THEN {n} ELSE {})
  BY AppendProperties DEF RowsIn
<1>2. n \notin RowsIn(s, p)
  BY DEF RowsIn
<1>3. IsFiniteSet(RowsIn(s, p)) /\ Cardinality(RowsIn(s, p)) \in Nat
  BY RowsAreFinite
<1> HIDE DEF n
<1>4. Cardinality(RowsIn(s, p) \union {n}) = Cardinality(RowsIn(s, p)) + 1
  BY <1>2, <1>3, FS_AddElement
<1>5. CASE p = q
  BY <1>1, <1>4, <1>5
<1>6. CASE p # q
  BY <1>1, <1>3, <1>6
<1> QED BY <1>5, <1>6

LEMMA NoMoreRowsStep ==
    SavedTypeOK /\ NoMoreRowsThanReads /\ [SavedNext]_savedVars
        => NoMoreRowsThanReads'
<1> SUFFICES ASSUME SavedTypeOK, NoMoreRowsThanReads,
                    [SavedNext]_savedVars, NEW p \in Saveable
             PROVE  Cardinality(RowsIn(postsToShow', p)) + fetching'[p]
                      <= overlap'[p] + (IF p \in listed' THEN 1 ELSE 0)
  BY DEF NoMoreRowsThanReads, RowsOf, RowsIn
<1>0. /\ Cardinality(RowsIn(postsToShow, p)) \in Nat
      /\ Cardinality(RowsIn(postsToShow, p)) + fetching[p]
           <= overlap[p] + (IF p \in listed THEN 1 ELSE 0)
  BY RowsAreFinite
     DEF SavedTypeOK, NoMoreRowsThanReads, RowsOf, RowsIn
<1>00. RowsIn(<<>>, p) = {} /\ Cardinality({}) = 0
  BY FS_EmptySet DEF RowsIn
<1> USE DEF SavedTypeOK
<1>1. CASE OpenSaved
  <2>1. /\ postsToShow' = <<>> /\ listed' = {}
        /\ fetching'[p] = 0 /\ overlap'[p] = 0
    BY <1>1 DEF OpenSaved
  <2>2. Cardinality(RowsIn(postsToShow', p)) = 0
    BY <1>00, <2>1
  <2> QED BY <2>1, <2>2
<1>2. CASE \E q \in Saveable : Press(q) \/ RemovePost(q)
  BY <1>0, <1>2 DEF Press, RemovePost, screen
<1>3. ASSUME NEW q \in Saveable, ShowPost(q)
      PROVE  Cardinality(RowsIn(postsToShow', p)) + fetching'[p]
                <= overlap'[p] + (IF p \in listed' THEN 1 ELSE 0)
  <2>1. Cardinality(RowsIn(postsToShow', p))
          = Cardinality(RowsIn(postsToShow, p)) + (IF p = q THEN 1 ELSE 0)
    BY <1>3, AppendAddsOneRow DEF ShowPost
  <2>2. /\ fetching'[p] = IF p = q THEN fetching[p] - 1 ELSE fetching[p]
        /\ fetching[p] \in Nat /\ overlap[p] \in Nat
        /\ listed' = listed /\ overlap' = overlap
    BY <1>3 DEF ShowPost
  <2> QED BY <1>0, <2>1, <2>2
<1>4. ASSUME NEW q \in Saveable, FailPost(q)
      PROVE  Cardinality(RowsIn(postsToShow', p)) + fetching'[p]
                <= overlap'[p] + (IF p \in listed' THEN 1 ELSE 0)
  <2>1. /\ fetching'[p] = IF p = q THEN fetching[p] - 1 ELSE fetching[p]
        /\ fetching[p] \in Nat /\ overlap[p] \in Nat
        /\ postsToShow' = postsToShow /\ listed' = listed /\ overlap' = overlap
    BY <1>4 DEF FailPost
  <2> QED BY <1>0, <2>1
<1>5. CASE LoadSavedPosts \/ FailList
  BY <1>0, <1>5 DEF LoadSavedPosts, FailList
<1>6. CASE ShowList
  <2>1. /\ fetching'[p] = IF p \in savedPosts THEN fetching[p] + 1
                          ELSE fetching[p]
        /\ fetching[p] \in Nat
        /\ postsToShow' = <<>> /\ listed' = savedPosts /\ overlap' = fetching
    BY <1>6 DEF ShowList
  <2>2. Cardinality(RowsIn(postsToShow', p)) = 0
    BY <1>00, <2>1
  <2> QED BY <2>1, <2>2
<1>7. CASE UNCHANGED savedVars
  BY <1>0, <1>7 DEF savedVars, screen
<1> QED BY <1>1, <1>2, <1>3, <1>4, <1>5, <1>6, <1>7 DEF SavedNext

\* A post has at most one row, and one more for each read of it an earlier
\* load had left under way: overlapping loads alone make duplicates.
THEOREM DuplicatesAreBounded == SavedSpec => []NoMoreRowsThanReads
<1>1. SavedInit => NoMoreRowsThanReads
  <2> SUFFICES ASSUME SavedInit, NEW p \in Saveable
               PROVE  Cardinality(RowsOf(p)) + fetching[p]
                        <= overlap[p] + (IF p \in listed THEN 1 ELSE 0)
    BY DEF NoMoreRowsThanReads
  <2>1. RowsOf(p) = {} /\ Cardinality({}) = 0
    BY FS_EmptySet DEF SavedInit, RowsOf
  <2> QED BY <2>1 DEF SavedInit
<1> QED BY <1>1, SavedTypeCorrect, NoMoreRowsStep, PTL DEF SavedSpec
==============================================================================
