INIT SideInit
NEXT SideNext
CONSTANTS
    Nothing = Nothing
    NrRtoCpus = 3
INVARIANTS
    RtRunqueueInv
    RtBandwidthInv
    
    OneIterator
    FairQueueInv
    CfsBandwidthInv
    EevdfInv
