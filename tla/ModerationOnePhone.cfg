SPECIFICATION Spec
CONSTANTS
    m1 = m1
    m2 = m2
    Device <- OneModerator
    Post <- TwoPosts
    Comment <- OneComment
    PostLimit = 2
    CommentLimit = 1
    Refusable <- SomethingRefused
    MaxInFlight = 2
INVARIANTS
    NoDecisionLost
    RowsAreDistinct
CHECK_DEADLOCK FALSE
