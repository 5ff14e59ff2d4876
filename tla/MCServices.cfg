CONSTANTS
    w1 = w1  w2 = w2  id1 = id1  id2 = id2  f1 = f1
    c1 = c1  c2 = c2  x1 = x1  x2 = x2  u1 = u1
    Workers <- MCWorkers
    Files <- MCFiles
    DatasetIds <- MCIds
    Columns <- MCColumns
    NoColumn = NoColumn
    Unset = Unset
    NoFile = NoFile
    Threads <- MCWorkers
    Registered <- MCIds
    CacheLimit = 1
    MaxBuilds = 2
    MaxFeedback = 1
    Missing = Missing
    Infinite = Infinite
    Undefined = Undefined
    Watchers <- MCWorkers
    MonitoringIds <- MCIds
    Frozen <- MCFrozen
    NumericColumns <- MCNumeric
    VaryingColumns <- MCVarying
    Uploads <- MCUploads
    Replays <- MCReplays
    Absent = Absent
    ExperimentIds <- MCIds
    NotKept = NotKept
    Unavailable = Unavailable
    NoSelection = NoSelection
    MaxChanges = 4
    MaxFetches = 2
SPECIFICATION Spec
SYMMETRY Symmetry
CHECK_DEADLOCK FALSE
INVARIANTS
    ServicesTypeOK
    RowsHaveTheirFiles
    RowTellsOneStory
    EventsAreOfTheirModel
    CacheKeepsItsLimit
    RunTellsWhatHappened
    OwnWritesShown
