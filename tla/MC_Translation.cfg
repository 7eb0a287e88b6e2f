SPECIFICATION TranslationSpec
CONSTANTS
    Part = {"session", "task", "decoder"}
    Texts = {"x", "y"}
    Languages = {"en", "zh"}
    Services = {"a", "b"}
    FirstService = "a"
    DefaultTarget = "zh"
    None = None
    MaxSubmits = 3
    MaxOps = 4
    MaxPieces = 2
    Formats = {"sse", "lines"}
    Lines = {"piece", "last", "note", "refusal", "blank", "mangled", "comment"}
    MaxLines = 3
    Limit = 4
CHECK_DEADLOCK FALSE
INVARIANTS
    TranslationTypeOK
    OneQuery
    HistoryOwned
    EndIsSaid
    AnswerHeard
PROPERTIES
    EndsAtLast
    ImplementsStream
