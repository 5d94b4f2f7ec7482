CONSTANTS
    None = None
    MinNetId = 1
    MaxNetId = 4
    Names <- ThreeServices
    CallOf <- UsersAndTrigger
    BootConfig <- Triggered
    BootReplicas <- AOnTwoBCOnOne
    BootConnected <- Hosts
    Lists <- ABCComeAndGo
    Configs <- Never
    Impatient <- Never
    Flapping <- ProxyAndHost
    Overlap = FALSE
    Repeat = TRUE
SPECIFICATION Spec
INVARIANTS CtlInv LeakFree ChainComplete ChainsCounted OneReplica
PROPERTIES TriggerServed
