SPECIFICATION HistorySpec
CONSTANTS
    Convs = {c1}
    Posts <- MCPosts
    SearchPageSize = 2
    MaxPages = 2
    ConvPageSize = 1
    ConvMaxPages = 2
    MaxConversations = 1
    MaxLog = 3
INVARIANTS
    NoAskMeansNoAsk
CHECK_DEADLOCK FALSE
