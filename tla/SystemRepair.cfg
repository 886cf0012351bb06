SPECIFICATION InOrderSpec

CONSTANTS
    Users = {u1}
    Tenants = {t1}
    Perm = {p1}
    Calls = {c1, c2}
    Explainers = {c1, c2}
    Instances = {i1}
    NoCall = NoCall
    StaleOnError = FALSE
    GetMayFail = TRUE
    SetMayFail = TRUE
    HeliosMayFail = TRUE
    MalformedReply = FALSE
    MayCancel = TRUE
    ForeignWrites = FALSE
    EventsOn = TRUE
    WriteMayFail = TRUE

INVARIANT SysTypeOK
INVARIANT FreshWhenSettled
INVARIANT ExplainIsFresh
INVARIANT AnswersAreReal
SYMMETRY Symmetry

CHECK_DEADLOCK TRUE
