\* Two requests overlap on three tasks, neither changing what the other has read;
\* a move may ask for a position beyond the longest column.
SPECIFICATION FreshSpec
CONSTANTS
    t1 = t1
    t2 = t2
    t3 = t3
    h1 = h1
    h2 = h2
    Tasks <- ThreeTasks
    NoTask = NoTask
    MaxOrder = 3
    Handlers <- TwoHandlers
    NoRequest = NoRequest
SYMMETRY BoardSymmetry
INVARIANTS
    RequestsTypeOK
    ColumnsAreGapless
    CompletedIffDone
PROPERTIES
    OthersKeepTheirPlace
    MovesLandWhereAsked
CHECK_DEADLOCK FALSE
