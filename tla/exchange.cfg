CONSTANTS
    None = None
    NetType = "VXLAN"
    MinNetId = 2097150
    MaxNetId = 2097151
    Hosts <- BothHosts
    Tasks <- TwoEdges
    EndsOf <- BothWays
    DockerOf <- OneInContainer
    Capacity = 1
    Flapping <- OneHost
    Impatient <- FirstEdge
    MaxOpens <- OneReopens
    MaxRounds = 2
    MaxSetups = 1
SPECIFICATION FairSpec
INVARIANTS TypeOK PendingOwned UsableWhenUp NoOrphan NoClash ExchangeInv
PROPERTIES ImplementsLeases SweepEnds
CHECK_DEADLOCK FALSE
