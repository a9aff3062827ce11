SPECIFICATION FairSpec
CONSTANTS
    Users = {u1, u2}
    Groups = {g1, g2}
    SignupGroup = g1
    ChannelCap = 1
    MaxGroupChanges = 1
    MaxFaults = 1
    NoGroup = NoGroup
INVARIANTS TypeOK StudentGetsCompleteRepository
PROPERTIES LinkedGetsRepository
CHECK_DEADLOCK FALSE
