CONSTANTS
    MaxNodes = 5
    MaxDepth = 7
    Programs <- AllPrograms
SPECIFICATION WalkSpec
INVARIANTS
    AttributedToInnermost
    NothingIsExtractedTwice
    BodiesLoseNoCall
