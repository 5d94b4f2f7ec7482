CONSTANTS
    None = None
    MinNetId = 1
    MaxNetId = 5
    Names <- ThreeServices
    CallOf <- OneUser
    BootConfig <- Line
    BootReplicas <- COnTwo
    BootConnected <- Hosts
    Lists <- CLeaves
    Configs <- Never
    Impatient <- Never
    Flapping <- Never
    Overlap = FALSE
    Repeat = TRUE
SPECIFICATION Spec
INVARIANTS LeakFree
