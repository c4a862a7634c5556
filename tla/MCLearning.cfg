SPECIFICATION FairSpec
CONSTANTS
    Replicas = {"r1", "r2"}
    Reporters = {"r1", "r2"}
    Schema <- MCSchema
    Items = {1, 2, 3}
    Starts <- MCStarts
    Suggestions <- MCSuggestions
    Given = {"ab", "ti"}
    MinEvents = 2
    Reports <- MCReports
    MaxHistory = 7
    MaxRaises = 1
INVARIANTS TrainedHonestly HeldOut RollupCountsOnce
PROPERTIES Bootstraps
