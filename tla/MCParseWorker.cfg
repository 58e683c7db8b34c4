SPECIFICATION FairSpec
CONSTANTS
    Files = {good, slow, fatal}
    NoFile = NoFile
    Slow = {slow}
    Fatal = {fatal}
    Barren = {slow}
    Vanishing = {fatal}
    RecycleInterval = 2
    Workers = {1, 2, 3, 4, 5, 6, 7, 8}
    NoWorker = 0
CHECK_DEADLOCK FALSE
INVARIANTS WorkersAreSound
PROPERTIES IndexAllEnds
