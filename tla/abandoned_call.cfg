CONSTANTS
    None = None
    MinNetId = 1
    MaxNetId = 5
    Names <- OneService
    CallOf <- OneUser
    BootConfig <- Alone
    BootReplicas <- AOnOne
    BootConnected <- Hosts
    Lists <- Never
    Configs <- Never
    Impatient <- FirstCall
    Flapping <- Never
    Overlap = FALSE
    Repeat = TRUE
SPECIFICATION Spec
INVARIANTS UpstreamReady
