SPECIFICATION FairSpec
CONSTANTS
    Readers = {1, 2}
    Moderators = {m1}
    Ttl = 2
    MaxWrites <- MCMaxWrites
    Asks <- MCAsks
INVARIANTS TypeOK MissedOnlyInFlight
PROPERTIES PagesSettle
CHECK_DEADLOCK FALSE
