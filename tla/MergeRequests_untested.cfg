SPECIFICATION Spec
CONSTANTS
    MaxPushes = 2
    MaxRequests = 1
    MaxThreads = 0
    Contents = {"clean"}
    ReviewTtl = 1
    PromptCI = FALSE
PROPERTIES RobotMergesTested
CHECK_DEADLOCK FALSE
