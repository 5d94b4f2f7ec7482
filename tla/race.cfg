CONSTANTS
    None = None
    MinNetId = 1
    MaxNetId = 2
    Names <- TwoServices
    CallOf <- UserAndTrigger
    BootConfig <- SameEdge
    BootReplicas <- AOnTwoBOnOne
    BootConnected <- Hosts
    Lists <- Never
    Configs <- Never
    Impatient <- SecondCall
    Flapping <- HostA
    Overlap = TRUE
    Repeat = FALSE
SPECIFICATION Spec
INVARIANTS TypeOK PlaceholderOwned LeaseInv 
PROPERTIES ImplementsLeases
