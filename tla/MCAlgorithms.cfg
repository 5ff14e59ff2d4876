CONSTANTS
    Missing = Missing
    Infinite = Infinite
    Undefined = Undefined
    Unknown = Unknown
    NoValue = NoValue
    NoColumn = NoColumn
    Blank = Blank
    FlatlineMinLength = 2
    FlatlineMaxRows = 1
    MinTrainableSamples = 3
    Nothing = Nothing
SPECIFICATION Spec
CHECK_DEADLOCK FALSE
INVARIANTS
    DriftIsSeen
    BestIsRecommended
    SplitKeepsApart
    PreparationIsSound
    AnswersAreGrounded
