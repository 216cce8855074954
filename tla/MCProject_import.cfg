SPECIFICATION Spec
CONSTANTS
    p = p
    q = q
    Partitions <- Two
    KindChoices <- FilesystemAndSpecial
    Forms <- FormsOfEach
    Formats = {"raw", "br"}
    MaxContents = 2
    MaxWorkflows = 3
INVARIANT ImportedSurvive
CHECK_DEADLOCK FALSE
