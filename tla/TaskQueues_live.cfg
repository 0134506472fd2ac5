\* Two fair threads with a task each, merged and unmerged at any time.
SPECIFICATION FairSpec
CONSTANTS
    MaxId = 1
    kUnmerged = kUnmerged
    UIQueues = {}
    MergePairs <- RasterPair
    Posters = {p}
    ObserverKeys = {}
    MaxOrder = 2
    MaxTime = 1
    MaxPauses = 0
CHECK_DEADLOCK FALSE
PROPERTIES PostedTaskRuns TerminatedLoopEnds
