SPECIFICATION Spec
CONSTANTS
    Post <- TwoPosts
    Category <- OneCategory
    CategoriesOf <- OnlySecond
    PageSize = 2
    MaxInFlight = 2
INVARIANTS
    OnlyApprovedShown
    TableIsOnePage
    QuietChoiceIsShown
CHECK_DEADLOCK FALSE
