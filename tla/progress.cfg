CONSTANTS
    None = None
    MinNetId = 1
    MaxNetId = 4
    Names <- TwoServices
    CallOf <- OneUser
    BootConfig <- Pair
    BootReplicas <- ABOnOneEach
    BootConnected <- Hosts
    Lists <- Never
    Configs <- Never
    Impatient <- Never
    Flapping <- HostB
    Overlap = TRUE
    Repeat = TRUE
SPECIFICATION FairSpec
INVARIANTS UpstreamReady ProxyInv
PROPERTIES Answered LockReleased
