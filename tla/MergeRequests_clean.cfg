SPECIFICATION Spec
CONSTANTS
    MaxPushes = 2
    MaxRequests = 2
    MaxThreads = 0
    Contents = {"clean", "extra", "conflict"}
    ReviewTtl = 1
    PromptCI = TRUE
INVARIANTS TypeOK
PROPERTIES RobotMergesClean RobotMergesTested
CHECK_DEADLOCK FALSE
