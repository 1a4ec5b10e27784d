SPECIFICATION Spec
CONSTANTS
    m1 = m1
    m2 = m2
    Device <- OneModerator
    Post <- TwoPosts
    Comment <- NoComments
    PostLimit = 2
    CommentLimit = 1
    Refusable <- NothingRefused
    MaxInFlight = 2
PROPERTIES
    OnlyDecidedRowsLeave
CHECK_DEADLOCK FALSE
