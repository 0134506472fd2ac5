SPECIFICATION FairSpec
CONSTANTS
    Workers = {w1, w2, w3}
    Posters = {p1}
    MaxTasks = 5
    MaxForAll = 1
INVARIANTS
    TypeOK
    NoTaskBesideIdleWorker
    SleepersHaveNothing
    DrainAtShutdown
PROPERTIES
    TaskTaken
    DestructorReturns
