SPECIFICATION LiveSpec
CONSTANTS
    u1 = u1
    u2 = u2
    User <- TwoUsers
    MaxWrites = 4
    Refused <- SecondRefused
    MaxPending = 2
INVARIANTS
    AssertionsHold
    LastWriteStands
    ReportsAreTrue
PROPERTIES
    KeepsPromise
    WritesAreSettled
CHECK_DEADLOCK FALSE
