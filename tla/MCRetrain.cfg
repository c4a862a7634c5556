CONSTANTS
    Window = 2
    Cooldown = 1
    Threshold = 1
    MinEvents = 1
    MaxTime = 4
    MaxEvents = 2
SPECIFICATION RetrainFairSpec
INVARIANTS StrongestKept TriggerMeansNews
PROPERTY RequestsTaken
