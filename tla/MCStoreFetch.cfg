CONSTANTS
    main = main
    other = other
    bare = bare
    w1 = w1
    w2 = w2
    Repos <- ThreeRepos
    Default = main
    EmptyRepos <- BareOnly
    Windows <- TwoWindows
    Unset = Unset
    BlankRepo = BlankRepo
    Nothing = Nothing
    Torn = Torn
    Error = Error
    MaxChanges = 2
    MaxCrashes = 1
SPECIFICATION FetchSpec
INVARIANTS CatalogOfRepository ItemsAreShown
PROPERTY FetchEnds
CHECK_DEADLOCK FALSE
