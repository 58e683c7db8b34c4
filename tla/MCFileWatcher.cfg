CONSTANTS
    Files = {a, b}
    MaxEdits = 3
    MaxFailures = 1
    CoarseClock = FALSE
SPECIFICATION FairSpec
INVARIANTS StalenessIsShown
PROPERTIES ReportedEditIsIndexed ImplementsStalenessSignal
