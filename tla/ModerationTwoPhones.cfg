SPECIFICATION LiveSpec
CONSTANTS
    m1 = m1
    m2 = m2
    Device <- Moderators
    Post <- OnePost
    Comment <- NoComments
    PostLimit = 1
    CommentLimit = 1
    Refusable <- NothingRefused
    MaxInFlight = 2
INVARIANTS
    Inv
PROPERTIES
    KeepsLifecycle
    DenialsTakeEffect
    ApprovalsTakeEffect
CHECK_DEADLOCK FALSE
