SPECIFICATION MCSpec
CONSTANTS
    None = None
    StdLib <- MCStdLib
    Extensions <- MCExtensions
    Lower <- MCLower
    Capital <- MCCapital
    Words <- MCWords
    Snake <- MCSnake
    NonTypes <- MCNonTypes
    Capitalised <- MCCapitalised
    OneHump <- MCOneHump
    Projects <- MCProjects
    BuiltIns <- MCBuiltIns
    Receivers <- MCReceivers
    PythonMethods <- MCPythonMethods
    CFunctions <- MCCFunctions
    MaxCallbacks = 40
    FanoutCap = 6
    MaxChildren = 30
    Registrars <- MCRegistrars
    Dispatchers <- MCDispatchers
    FtsMatches <- MCFtsMatches
    Bm25 <- MCBm25
    NameRank <- MCNameRank
    StopWords <- MCStopWords
    CommonWords <- MCCommonWords
    OverFetch = 1
    MinFetch = 1
PROPERTIES ReExportsAreFollowed DeclaredNamesLink ConventionsDecide DispatchIsBridged SearchesFind
CHECK_DEADLOCK FALSE
