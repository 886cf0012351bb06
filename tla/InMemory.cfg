SPECIFICATION MemSpec

CONSTANTS
    Users <- TwoUsers
    Tenants <- TwoTenants
    Char <- Letters
    Colon = ":"
    Perm = {p1}
    Inf = Inf
    Ttls = {1, 2, Inf}
    MaxNow = 2

INVARIANT MemTypeOK
INVARIANT ServedForTtl
PROPERTY ImplementsCache

CHECK_DEADLOCK TRUE
