SPECIFICATION LiveSpec
CONSTANTS
    text = text
    again = again
    Blank = Blank
    Comment <- TwoComments
    Own <- OnlySecond
    Text <- TwoTexts
    PageSize = 1
    Refusable <- OnlySecond
    MaxInFlight = 1
INVARIANTS
    TableIsModerated
    NoTextIsLost
PROPERTIES
    CommentsArrive
    TableCatchesUp
CHECK_DEADLOCK FALSE
