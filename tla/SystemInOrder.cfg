SPECIFICATION InOrderSpec

CONSTANTS
    Users = {u1}
    Tenants = {t1}
    Perm = {p1}
    Calls = {c1, c2}
    Explainers = {c1, c2}
    Instances = {i1, i2}
    NoCall = NoCall
    StaleOnError = TRUE
    GetMayFail = FALSE
    SetMayFail = TRUE
    HeliosMayFail = TRUE
    MalformedReply = FALSE
    MayCancel = TRUE
    ForeignWrites = FALSE
    EventsOn = TRUE
    WriteMayFail = FALSE

INVARIANT FreshWhenWritten
PROPERTY ImplementsService
SYMMETRY Symmetry

CHECK_DEADLOCK TRUE
