SPECIFICATION LibrarySpec
CONSTANTS
    h1 = h1
    h2 = h2
    Ids = {h1, h2}
    Contents = {"t", "u"}
    Versions = {"fresh", "old", "new"}
    Retention = 1
    MaxTime = 3
    MaxOps = 6
    N = 3
    Absent = Absent
    Fresh = "fresh"
    None = None
    Texts = {"x"}
    Notes = {"n"}
    NoNote = NoNote
    Part = {"history", "vocabulary", "backup"}
CHECK_DEADLOCK FALSE
INVARIANTS
    LibraryTypeOK
    Durable
    PromisesKept
    BookKept
    AllOrNothing
    CopySurvives
