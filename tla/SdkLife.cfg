SPECIFICATION FairSdkSpec

CONSTANTS
    Users = {u1}
    Tenants = {t1}
    Perm = {p1}
    Calls = {c1, c2}
    Explainers = {}
    Instances = {i1}
    NoCall = NoCall
    StaleOnError = TRUE
    GetMayFail = TRUE
    SetMayFail = TRUE
    HeliosMayFail = TRUE
    MalformedReply = FALSE
    MayCancel = FALSE
    ForeignWrites = FALSE

INVARIANT SdkTypeOK
INVARIANT CloseReleases
INVARIANT DocumentedOutcome
PROPERTY InjectedRedisKept
PROPERTY CallsReturn

CHECK_DEADLOCK TRUE
