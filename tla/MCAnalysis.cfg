CONSTANTS
    Identifiers = {"id1", "id2"}
    TauAuto = 75
    BurstShare = 40
    BurstSize = 2
    Queries <- MCQueries
    Indexed <- MCIndexed
    Catalog <- MCCatalog
    EmbVer = 1
    Members <- MCMembers
    Histories <- MCHistories
    Modes <- MCModes
    Gbms <- MCGbms
    AnalyzerModes <- MCAnalyzerModes
    Launches <- MCLaunches
    SuggestMax = 1
    BelowOn = TRUE
    BelowMax = 2
    EarlyPolicy = "kb_inherit_only"
    EarlyPbMin = 85
    JudgeTau = 75
SPECIFICATION Spec
INVARIANTS EvidenceStable DockNeverDisplaces GroupsStable
PROPERTIES ScopeRespected EarlyAgreesWithFinish FloorIsEarned FanOutFits
