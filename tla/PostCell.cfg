SPECIFICATION LiveCellSpec
CONSTANTS
    p1 = p1
    p2 = p2
    Nothing = Nothing
    Post <- TwoPosts
    Refusable <- OnlySecond
    HasPicture <- TwoPosts
    HasAvatar <- OnlySecond
    MaxInFlight = 3
INVARIANTS
    SavedAsPressed
    PictureIsOfPost
    IdleCellShowsItsPost
PROPERTIES
    PressesTakeEffect
CHECK_DEADLOCK FALSE
