SPECIFICATION FairSpec
CONSTANTS
    WriterThread = "writer"
    Collectors = {"collector"}
    Handlers = {}
    Items = {"a", "b", "c"}
    Encode <- EncodeOf
    Literals <- LiteralTexts
    Expressions = {"Data"}
    Origins = {"", "base64 a", "Data"}
    Messages <- SomeMessages
    MaxMessages = 2
    Urls = {"exp", "/var/exp.db"}
    DatabaseTable = "exp"
    NoThread = "none"
PROPERTIES
    ReadReturns
CHECK_DEADLOCK FALSE
