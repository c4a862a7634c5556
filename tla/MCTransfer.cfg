SPECIFICATION Spec
CONSTANTS
    Source <- MCSource
    SourceTypes <- MCSourceTypes
    TargetTypes <- MCTargetTypes
    OptionSets <- MCOptionSets
    Batch = 1
    MaxRuns = 2
    MaxFaults = 1
INVARIANTS CopiedOnce TreeKept MeaningKept CoverageIsReal
CHECK_DEADLOCK FALSE
