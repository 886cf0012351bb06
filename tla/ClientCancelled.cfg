SPECIFICATION Spec

CONSTANTS
    Users = {u1}
    Tenants = {t1}
    Perm = {p1}
    Calls = {c1, c2, c3}
    Explainers = {}
    Instances = {i1}
    NoCall = NoCall
    StaleOnError = TRUE
    GetMayFail = FALSE
    SetMayFail = FALSE
    HeliosMayFail = FALSE
    MalformedReply = FALSE
    MayCancel = TRUE
    ForeignWrites = FALSE

INVARIANT DocumentedOutcome

CHECK_DEADLOCK TRUE
