CONSTANTS
    Keys = {0, 1}
    Values = {0, 1, 2}
    Default = 0
    MaxCalls = 4

SPECIFICATION StorageSpec
INVARIANT AnswersFollowHistory
CHECK_DEADLOCK FALSE
