SPECIFICATION Spec
CONSTANTS
    p = p
    q = q
    Partitions <- Two
    KindChoices <- FilesystemAndSpecial
    Forms <- FormsOfEach
    Formats = {"raw", "br"}
    MaxContents = 2
    MaxWorkflows = 3
INVARIANTS SuccessIsListed  FreshImage PackedIsFresh
PROPERTY PackKeepsACopy
CHECK_DEADLOCK FALSE
