CONSTANTS
    Workers = {w1, w2}
    Items = {1, 2}
    Shape <- MCShape
    Batches <- MCBatches
    Labels = {"ab"}
    PayloadLabels = {"ti"}
    Verdicts <- MCVerdicts
    CasRetries = 2
    Grace = 1
    MaxRequests = 3
    MaxFaults = 1
    MaxDay = 2
    MaxRows = 1
SYMMETRY Symmetry
SPECIFICATION Spec
PROPERTIES IsCatalogue MinedKept HistoryKept Reconverges
CHECK_DEADLOCK FALSE
