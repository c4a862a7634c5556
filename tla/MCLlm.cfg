CONSTANTS
    Deployments <- MCDeployments
    QuoteKinds = {"plain", "rewritten", "spanning", "fact", "invented"}
    Choices = {1, 4}
    QueueMax = 2
    FailThreshold = 1
    BaseCooldown = 1
    MaxCooldown = 2
    Candidates <- MCCandidates
    Comparisons <- MCComparisons
    MaxRows = 2
    MaxChanges = 1
SPECIFICATION Spec
INVARIANTS NoCallWhileOpen StoredTextReads ExplanationFits
PROPERTIES VerdictIsMeant LosesLeastUrgent QueueServed
CHECK_DEADLOCK FALSE
