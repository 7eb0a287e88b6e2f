SPECIFICATION Spec
CONSTANTS
    Part = {"api", "capture", "bridge", "dictionary", "adapters", "models", "registry", "effects", "updates"}
    Clients = {"c", "d"}
    Ports = {"p", "q"}
    Off = Off
    Wake = "wake"
    Backlog = 1
    Capacity = 1
    MaxStarts = 2
    MaxChanges = 2
    MaxRuns = 2
    MaxWrites = 1
    Requests = {"a", "b"}
    Marks = {"head", "pipe", "label", "tri", "letter", "circ", "num", "nl", "pos", "form", "word"}
    MaxLen = 4
    Calls = {"a", "b"}
    Lifetimes = {0, 2}
    MaxTime = 1
    Messages <- MC_Messages
    Names <- MC_Names
    Offers <- MC_Offers
    Macos = FALSE
    Ids = {"m", "n"}
    Cursors = {"k", "l"}
    Candidates = 2
    MaxPages = 2
    MaxCommits = 2
    Themes = {"light", "dark"}
    MaxNews = 2
    Versions = {1, 2, 3}
    Current = 2
    MaxDownloads = 2
CHECK_DEADLOCK FALSE
INVARIANTS
    ServicesTypeOK
    SystemAsWanted
    SelectionBack
    AnswersWhole
    NothingLost
PROPERTIES
    StopReturns
    UpdateVerified
