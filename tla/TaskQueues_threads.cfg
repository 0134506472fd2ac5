\* The raster queue is merged into, and unmerged from, a queue that also runs
\* a Dart isolate; both loops may shut down.
SPECIFICATION Spec
CONSTANTS
    MaxId = 1
    kUnmerged = kUnmerged
    UIQueues = {0}
    MergePairs <- RasterPair
    Posters = {p}
    ObserverKeys = {k}
    MaxOrder = 3
    MaxTime = 1
    MaxPauses = 1
CHECK_DEADLOCK FALSE
INVARIANTS TypeOK MergeTopology ArmedForPending CurrentGradeOfRightHeap
PROPERTIES StartsInOrder
