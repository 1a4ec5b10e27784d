SPECIFICATION SavedSpec
CONSTANTS
    p1 = p1
    p2 = p2
    Saveable <- TwoPosts
    MaxReads = 3
INVARIANTS
    NothingIsSkipped
    NoMoreRowsThanReads
CHECK_DEADLOCK FALSE
