SPECIFICATION Spec

CONSTANTS
    Users = {u1, u2}
    Tenants = {t1}
    Perm = {p1}
    Calls = {c1, c2}
    Explainers = {c1, c2}
    Instances = {i1}
    NoCall = NoCall
    StaleOnError = TRUE
    GetMayFail = TRUE
    SetMayFail = TRUE
    HeliosMayFail = TRUE
    MalformedReply = TRUE
    MayCancel = TRUE
    ForeignWrites = TRUE

INVARIANT TypeOK
INVARIANT AtMostOneFetch
INVARIANT NoLeakedEntry
INVARIANT WaiterHasFetcher
INVARIANT OnlyHeliosLists
INVARIANT AnswersAreReal
INVARIANT CancelledBySharer
SYMMETRY Symmetry

CHECK_DEADLOCK TRUE
