SPECIFICATION Spec
CONSTANTS
    Convs = {c1, c2}
    Posts <- MCPosts
    SearchPageSize = 1
    MaxPages = 2
    ConvPageSize = 1
    ConvMaxPages = 2
    MaxConversations = 1
    MaxLog = 3
INVARIANTS
    TypeOK
    WaitingIsOpen
    AnsweredIsAnswered
    NoAskLost
    FlaggedIsWithheld
SYMMETRY Symmetry
CHECK_DEADLOCK FALSE
