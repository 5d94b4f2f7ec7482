CONSTANTS
    None = None
    MinNetId = 1
    MaxNetId = 3
    Names <- ThreeServices
    CallOf <- UsersAndTrigger
    BootConfig <- Line
    BootReplicas <- ABCOnOneEach
    BootConnected <- Hosts
    Lists <- CComesAndGoes
    Configs <- LineEdits
    Impatient <- Never
    Flapping <- Never
    Overlap = FALSE
    Repeat = TRUE
SPECIFICATION Spec
INVARIANTS LeakFree ChainComplete ChainsCounted LeaseInv
PROPERTIES MaxNetworksKept Sticky ImplementsLeases
