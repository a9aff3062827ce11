SPECIFICATION BoardSpec
CONSTANTS
    MaxRequests = 2
    MaxTime = 3
    Points <- MCPoints
    RowValues <- MCRowValues
    Students = {s1, s2}
    Author = s1
    Kinds = {"pipelines", "mergeRequests", "crashme"}
    Deadline = 2
    Bonus = 50
    Since <- MCSince
    Pushing <- MCPushing
    MaxReviewed = 1
    MaxBanned = 1
    MaxMetric <- MCMaxMetric
    ScanReported = FALSE
    NoStudent = NoStudent
INVARIANTS BoardTypeOK KeepsRepresentative EarliestGreenWins HigherRankNeverScoresLess
PROPERTIES OnlyWithdrawalLowers BanNeverRaises DoneStaysDone LateWorkMovesNobody
CHECK_DEADLOCK FALSE
