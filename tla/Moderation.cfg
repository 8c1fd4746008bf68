SPECIFICATION Spec
CONSTANTS
    i1 = i1
    i2 = i2
    r1 = r1
    r2 = r2
    e1 = e1
    e2 = e2
    p1 = p1
    u1 = u1
    u2 = u2
    Imports = {i1, i2}
    Reports = {r1, r2}
    Edits = {e1, e2}
    Episodes = {p1}
    Author <- MCAuthor
    Users = {u1, u2}
    Moderators = {u2}
    NoUser = NoUser
    NoItem = NoItem
    Sessions = {s1, s2}
    Award = 1
    Penalty = 1
    AutoThreshold = 1
    AutoBlock = TRUE
    Threshold = 2
    Submitted <- MCSubmitted
    MaxRequests = 3
SYMMETRY MCSymmetry
CHECK_DEADLOCK FALSE
INVARIANT TypeOK
INVARIANT PointsAccounted
INVARIANT SettledOnce
INVARIANT VisibleIffApproved
INVARIANT BlockedByReports
