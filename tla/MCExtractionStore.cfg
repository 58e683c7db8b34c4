CONSTANTS
    Files = {a, b}
    Contents = {c1, c2, bad}
    Unparseable = {bad}
    NoContent = NoContent
    Jobs = {"indexAll", "indexFiles", "sync"}
    MaxEdits = 2
    MaxCrashes = 1
SPECIFICATION MCSpec
INVARIANTS TablesAreConsistent
PROPERTIES SyncIsComplete SyncConverges
