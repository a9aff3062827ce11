SPECIFICATION FairSpec
CONSTANTS
    Users = {u1}
    Groups = {g1}
    SignupGroup = g1
    ChannelCap = 1
    MaxGroupChanges = 1
    MaxFaults = 1
    NoGroup = NoGroup
PROPERTIES ProtectionIsRestored
CHECK_DEADLOCK FALSE
