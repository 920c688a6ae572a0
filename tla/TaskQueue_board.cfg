SPECIFICATION FairSpec
CONSTANTS
    Tasks = {t1, t2}
    Keys = {k1, k2}
    NoTask = NoTask
    MaxQueueDepth = 1
    MaxRetries = 2
    MaxFaults = 1
CHECK_DEADLOCK FALSE
INVARIANTS TypeOK OnceUnlessSpoiled AnswersAreHonest
PROPERTIES ImplementsBoard EverythingSettles
