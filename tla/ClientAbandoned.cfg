SPECIFICATION FairSpec

CONSTANTS
    Users = {u1}
    Tenants = {t1}
    Perm = {p1}
    Calls = {c1, c2}
    Explainers = {}
    Instances = {i1}
    NoCall = NoCall
    StaleOnError = TRUE
    GetMayFail = FALSE
    SetMayFail = FALSE
    HeliosMayFail = FALSE
    MalformedReply = TRUE
    MayCancel = FALSE
    ForeignWrites = FALSE

PROPERTY CallsReturn

CHECK_DEADLOCK TRUE
