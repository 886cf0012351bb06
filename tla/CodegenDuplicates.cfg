SPECIFICATION CodegenSpec

CONSTANTS
    Names = {switch, transfer, view, edit}
    SelfNames = {switch}
    Switch = switch
    Transfer = transfer
    Roles = {OWNER, ADMIN}
    Owner = OWNER
    Grants = {{}, {transfer}, {switch}, {view}, {transfer, view}}
    MaxListed = 2
    MaxTwice = 1

INVARIANT RolesNeverProject

CHECK_DEADLOCK TRUE
