CONSTANTS
    None = None
    Broken = Broken
    DefaultTimeout = 0
    Users <- OneUser
    MaxAge = 5
    MaxAsked = 1
    Files <- OnlyDisabled
    BootFile <- Disabled
    Debounce = 1
    Settle = 1
    MaxEvents = 3
SPECIFICATION FairSpec

PROPERTIES Paced
