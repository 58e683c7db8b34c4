CONSTANTS
    Tasks = {t1, t2}
    Commands = {c1, c2}
    Server = server
    None = none
    Files = {f}
    Beginnings <- Scenarios
    CannotSignal <- Strangers
    MaxCrashes = 1
    c1 = c1
    c2 = c2
    t1 = t1
    t2 = t2
SPECIFICATION FairProjectSpec
INVARIANTS SchemaIsSound WritersAreAlone
PROPERTIES EveryCallEnds
