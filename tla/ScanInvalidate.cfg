SPECIFICATION FairScanSpec

CONSTANTS
    Users = {u1, u2, u3}
    Tenants = {t1}
    Perm = {}
    Jobs = {j1, j2}
    CommandsMayFail = TRUE

INVARIANT ScanTypeOK
INVARIANT NothingOldSurvives
INVARIANT NoScanStuck
PROPERTY OnlyMatchingDropped
PROPERTY InvalidationEnds

CHECK_DEADLOCK TRUE
