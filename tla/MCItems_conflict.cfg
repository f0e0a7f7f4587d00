SPECIFICATION Spec
CONSTANTS
    KeyOrder <- KeysInOrder
    Sent <- Metrics
    maxLogLength = 4
    MaxText = 5
    JsonTexts <- SomeJsonTexts
    Now <- SomeTime
    Converts <- Convertible
    converted <- convertValue
    Encodes <- Writable
    encoded <- toJson
    Decodes <- Parses
    decoded <- revived
    rendered <- shownItem
INVARIANTS
    ConflictIsShown
\* Every item comes to its end.
CHECK_DEADLOCK FALSE
