CONSTANTS
    None = None
    MinNetId = 1
    MaxNetId = 5
    Names <- TwoServices
    CallOf <- TwoUsers
    BootConfig <- Pair
    BootReplicas <- AOnOneBOnTwo
    BootConnected <- Hosts
    Lists <- Never
    Configs <- Never
    Impatient <- Never
    Flapping <- Never
    Overlap = FALSE
    Repeat = TRUE
SPECIFICATION Spec
INVARIANTS OneReplica
