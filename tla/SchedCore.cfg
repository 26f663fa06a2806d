INIT SideInit
NEXT SideNext
CONSTANTS
    Nothing = Nothing
    MaxDepth = 2
INVARIANTS
    WakeupInv
    AffinityInv
    HotplugInv
    
    
    CoreSchedInv
    PreemptInv
    RtPushInv
    NohzInv
