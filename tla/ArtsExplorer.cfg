SPECIFICATION SystemSpec
CONSTANTS
    m1 = m1
    text = text
    art = art
    Blank = Blank
    Placeholder = Placeholder
    Nothing = Nothing
    Device <- OneModerator
    Post <- OnePost
    Comment <- NoComments
    PostLimit = 1
    CommentLimit = 1
    Refusable <- NothingRefused
    MaxInFlight = 2
    Text <- SomeText
    Picture <- NoPicture
    Encodable <- NoPicture
    Category <- OneCategory
INVARIANTS
    DecidedOnlyByModerators
    DecisionsSurviveAuthors
    SuccessIsPosted
PROPERTIES
    IsModerationQueue
CHECK_DEADLOCK FALSE
