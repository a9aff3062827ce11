SPECIFICATION FairSpec
CONSTANTS
    MaxPushes = 1
    MaxRequests = 2
    MaxThreads = 1
    Contents = {"clean"}
    ReviewTtl = 1
    PromptCI = FALSE
PROPERTIES QuietHeadIsMerged StandingObstacleBlocks
CHECK_DEADLOCK FALSE
