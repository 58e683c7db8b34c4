SPECIFICATION MCSpec
CONSTANTS
    n1 = n1
    n2 = n2
    class = class
    method = method
    f1 = f1
    f2 = f2
    f3 = f3
    f4 = f4
    A = A
    B = B
    C = C
    run = run
    cli = cli
    lib = lib
    play = play
    runs = runs
    any = any
    None = None
    Symbols <- AllSymbols
    Containers = {class, A, B, C}
    Layouts <- AllLayouts
    Kinds = {"contains", "imports", "calls", "extends"}
    Rank <- Order
    MaxEdges = 4
    Types = {A, B, C}
    Importing = {}
    Functions = {f1, f2, f3, f4, run}
    TestFiles = {lib}
    PathHops = 4
    KeptPaths = 3
    Names = {cli, lib, play, runs, any}
    Hits <- MCHits
    Exact <- MCExact
    Qualified = {play}
    Owner <- MCOwner
    Segments <- MCSegments
    Generated = {}
    SharedDir <- MCShared
    LessCanonical = {}
    StartLine <- MCStart
    TraceHops = 3
    FlowHops = 4
    PairBudget = 3
    FewHits = 3
    FileNames <- MCFiles
    Lines <- MCLines
    EndLine <- MCEnd
    CallLine <- MCCall
    Envelopes = {A, B, C, class}
    LowValue = {}
    LineChars = 100
    HeadChars = 600
CHECK_DEADLOCK FALSE
PROPERTIES TraversalsAreExact CallPathsAreTrue ContextIsBounded ExplorationsHold
