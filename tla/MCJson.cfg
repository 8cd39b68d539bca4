\* Values of seven types in four layouts, and all short texts over several alphabets.
SPECIFICATION Spec
CONSTANTS
    Document <- Documents
    Stub <- Stubs
    MaxMore = 4
    UintRange = 100
    Unwritten = Unwritten
INVARIANTS
    RoundTrip
    ElementsFitText
    NoElementLost
PROPERTY
    SkipPassesOver
