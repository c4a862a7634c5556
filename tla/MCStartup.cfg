SPECIFICATION StartupSpec
CONSTANTS
    Replicas = {r1, r2}
    Images <- MCImages
    Servers <- MCServers
    Attempts = 2
    Statements = 2
    MaxStarts = 3
    MaxOutages = 1
INVARIANT UpMeansMigrated
PROPERTIES StartsConverge StartsSettle
CHECK_DEADLOCK FALSE
