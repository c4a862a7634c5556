CONSTANTS
    Proc = {"a", "b"}
    Ver = {1, 2}
    MaxShips = 2
    MaxFaults = 1
    Calib <- MCCalib
SPECIFICATION FairSpec
INVARIANTS ActiveMatched RefreshSticks
PROPERTY EventuallyCurrent
