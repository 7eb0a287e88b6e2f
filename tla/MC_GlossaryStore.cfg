SPECIFICATION Spec
CONSTANTS
    b1 = b1
    b2 = b2
    e1 = e1
    e2 = e2
    Books = {b1, b2}
    Entries = {e1, e2}
    Terms = {"x", "y"}
    Translations = {"t"}
    Pairs = {"en-zh"}
    Workers = {"w"}
    None = None
    HitsMax = 1
    MaxOps = 5
SYMMETRY GlossarySymmetry
CHECK_DEADLOCK FALSE
INVARIANTS
    MatcherFresh
    TermsUnique
    TermsDurable
    HitsAccounted
    PendingLive
