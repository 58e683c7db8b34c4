SPECIFICATION Spec
CONSTANTS
    Dirs = {"cwd", "sub"}
    None = None
    Lineage <- PathsUp
    Cwd = "cwd"
    Sessions = {"s1", "s2"}
    Messages <- Calls
    Disciplined = TRUE
    MaxFailures = 2
CHECK_DEADLOCK FALSE
INVARIANTS NothingLeaks AnnouncedRootWins
PROPERTIES AnswersKnowTheirAge EveryCallIsAnswered
