SPECIFICATION Spec
CONSTANTS
    Browsers = {b1}
    Requests = {q1, q2}
    Forms <- MCForms
    Groups = {"g1", "g2"}
    Logins = {l1, l2}
    NoLogin = NoLogin
    NoBrowser = NoBrowser
    MaxChanges = 1
SYMMETRY MCSymmetry
INVARIANTS TypeOK HandedAsLinked
PROPERTIES RefusalHasCause NothingIsLost
CHECK_DEADLOCK FALSE
