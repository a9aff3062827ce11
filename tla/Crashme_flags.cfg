SPECIFICATION FairCrashSpec
CONSTANTS
    NumGroups = 2
    MaxEdits <- MCMaxEdits
    Conns = {c1, c2, c3}
    Permits = 1
    Students = {s1, s2}
    MaxFlags = 4
    Budget = 1
    MaxFaults = 1
    Nobody = Nobody
INVARIANTS CrashTypeOK PermitsAreUsed OneFlagPerCrash
PROPERTIES FirstSubmitterKeepsFlag WaitingEnds CrashIsAnswered DeadlinesNeverGoBack DeadlinesConverge
CHECK_DEADLOCK FALSE
