SPECIFICATION SysSpec

CONSTANTS
    Users = {u1}
    Tenants = {t1}
    Perm = {p1}
    Calls = {c1, c2}
    Explainers = {}
    Instances = {i1}
    NoCall = NoCall
    StaleOnError = TRUE
    GetMayFail = FALSE
    SetMayFail = FALSE
    HeliosMayFail = FALSE
    MalformedReply = FALSE
    MayCancel = FALSE
    ForeignWrites = FALSE
    EventsOn = TRUE
    WriteMayFail = FALSE

INVARIANT FreshWhenSettled

CHECK_DEADLOCK TRUE
