SPECIFICATION FairSpec
CONSTANTS
    NUM_VPAGES = 3
    MAX_RESIDENT = 2
    Values = {0, 1}
    Zero = 0
    Outside = outside
    MaxTick = 6
INVARIANTS TableInv VictimInv
PROPERTIES FlatSpec AccessEnds
