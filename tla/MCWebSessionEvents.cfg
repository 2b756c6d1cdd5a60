\* Two calls at a time, three things that disturb them.
CONSTANTS
    c1 = c1
    c2 = c2
    h1 = h1
    h2 = h2
    h3 = h3
    NoHandler = NoHandler
    Callers = {c1, c2}
    Handlers = {h1, h2, h3}
    MaxPairs = 5
    MaxEvents = 3
SPECIFICATION FairSpec
INVARIANTS
    SessionTypeOK
    ExchangedOncePerLife
    FailsOnlyForCause
PROPERTIES
    FreshSessionKept
    CallersReturn
CHECK_DEADLOCK FALSE
