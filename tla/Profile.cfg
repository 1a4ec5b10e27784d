SPECIFICATION LiveSpec
CONSTANTS
    text = text
    Sample = Sample
    photo = photo
    drawing = drawing
    Placeholder = Placeholder
    Nothing = Nothing
    a1 = a1
    Name <- TwoNames
    Bio <- NoBio
    Picture <- TwoPictures
    Encodable <- PhotoOnly
    AvatarID <- OneAvatar
    MaxInFlight = 2
INVARIANTS
    ProfileIsShown
PROPERTIES
    SavesTakeEffect
CHECK_DEADLOCK FALSE
