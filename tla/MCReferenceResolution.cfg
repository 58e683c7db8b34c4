CONSTANTS
    f = f
    g = g
    lost = lost
    s1 = s1
    s2 = s2
    calls = calls
    callee = callee
    both = both
    Heuristic = Heuristic
    NoContent = NoContent
    Names = {f, g, lost}
    Sites = {s1, s2}
    Defines <- MCDefines
    Refers <- MCRefers
    Dispatch <- MCDispatch
    Contents = {calls, callee, both}
    Files = {a, b}
    Jobs = {"indexAll", "indexFiles", "sync"}
    BatchSize = 3
    MaxEdits = 1
    MaxCrashes = 1
SPECIFICATION FairSpec
INVARIANTS GraphReflectsText
PROPERTIES IndexingIsExact JobsEnd
