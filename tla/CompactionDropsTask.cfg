CONSTANTS
    read = read
    write = write
    Tools <- MCTools
    Replies <- MCReplies
    Configs <- Dropping
SPECIFICATION Spec
INVARIANT
    TaskInView
