SPECIFICATION TextSpec
CONSTANTS
    Threads = {t1, t2}
    NoThread = NoThread
    Levels = {1, 4}
    level_ = 3
    MaxLog = 2
    Inputs <- SmallInputs
    Utf8 <- Ascii
    Slop = {0, 1}
    Keys = {1, 2, 3}
    UrlTexts = {x, y}
    MaxCalls = 4
    Char <- Chars
    Letters = {"T"}
    End = "NUL"
    Patterns <- ShortPatterns
INVARIANTS
    EventsInOrder
    InBounds
    ItemsAreThePattern
    EncodeRepeatsFirst
    MessageIsRead
    IdSurvives
CHECK_DEADLOCK FALSE
