SPECIFICATION LiveSpec
CONSTANTS
    p1 = p1
    p2 = p2
    text = text
    photo = photo
    art = art
    Blank = Blank
    Placeholder = Placeholder
    Nothing = Nothing
    Post <- TwoPosts
    Text <- SomeText
    Picture <- OnePicture
    Encodable <- Photo
    Category <- OneCategory
    Refusable <- SecondRefused
INVARIANTS
    ButtonsMatchCategories
    PostedAsPressed
    CategoriesAsPressed
    AlertsAreTrue
PROPERTIES
    PostsAreFinal
    EveryPressIsAnswered
CHECK_DEADLOCK FALSE
