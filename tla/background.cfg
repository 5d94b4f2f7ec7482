CONSTANTS
    None = None
    Broken = Broken
    DefaultTimeout = 3
    Users <- OneUser
    MaxAge = 4
    MaxAsked = 1
    Files <- Edits
    BootFile <- Long
    Debounce = 1
    Settle = 1
    MaxEvents = 2
SPECIFICATION FairSpec
INVARIANTS TypeOK NeverOverdue
PROPERTIES Paced EditLoaded
