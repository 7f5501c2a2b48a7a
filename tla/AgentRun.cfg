CONSTANTS
    read = read
    write = write
    Tools <- MCTools
    Replies <- MCReplies
    Configs <- MCConfigs
SPECIFICATION Spec
INVARIANTS
    CallsAnswered
    HistoryKept
    ChatsBounded
    CritiqueIsFresh
PROPERTY
    Settles
