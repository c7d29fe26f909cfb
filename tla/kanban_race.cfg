\* Two requests of one task overlap.
SPECIFICATION RequestsSpec
CONSTANTS
    t1 = t1
    t2 = t2
    t3 = t3
    h1 = h1
    h2 = h2
    Tasks <- TwoTasks
    NoTask = NoTask
    MaxOrder = 1
    Handlers <- TwoHandlers
    NoRequest = NoRequest
PROPERTY
    MovesKeepColumnsGapless
CHECK_DEADLOCK FALSE
